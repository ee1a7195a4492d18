---------------------------------- MODULE Tls ----------------------------------
(***************************************************************************)
(* TLS administration (mycelium-web tls_admin.rs, cert.rs, the /admin/tls  *)
(* handlers of api.rs, the load in server.rs serve): the managed           *)
(* self-signed pair with its sans.txt, the uploaded pair with its sidecar, *)
(* the pending CSR, and the pair the listener serves.                      *)
(*                                                                         *)
(* A handler's file operations are a sequence that it performs one at a    *)
(* time: the handlers run on the threads of one runtime, so that the       *)
(* absence of an await does not keep another handler from running between  *)
(* two of them.  A write may fail (a full disk) and, like a crash, may     *)
(* leave its file torn; a disconnect drops a handler at an await.          *)
(*                                                                         *)
(* A key has a number, in order of minting; a certificate names its key    *)
(* and its SANs, and is sound unless rustls refuses the chain behind its   *)
(* leaf.                                                                   *)
(***************************************************************************)
EXTENDS Integers, Sequences, FiniteSets

CONSTANTS
    Requests,       \* the admin's requests, one handler each
    Boot,           \* the boot, as an actor
    SanSets, Env,   \* SAN lists; the one MYCELIUM2_TLS_SANS asks for
    NoFile, Torn,
    MaxKeys,        \* bound: keys minted
    MaxStrikes      \* bound: crashes, disconnects and failed file operations

VARIABLES
    disk,       \* config/tls
    live,       \* the certificate the listener serves, NoFile when it is down
    req,        \* each actor: its kind, the operations left, what reload has read
    mount,      \* the certificate mounted by the environment, or NoFile
    minted,     \* the keys minted
    \* history
    clash,      \* "any": two requests ran at once; a kind: two of that kind did
    spoiled,    \* a request was cut short where the code cannot put back what it replaced
    strikes

tvars == <<disk, live, req, mount, minted, clash, spoiled, strikes>>

Files == {"cert", "key", "sans", "upcert", "upkey", "upmeta", "pkey", "pmeta"}
Key(n) == [key |-> n]
Certs == [id : {Key(n) : n \in 1 .. MaxKeys}, sans : SanSets, sound : BOOLEAN]
Kinds == {"upload", "csr", "discard", "regen", "reset", "boot"}

ASSUME TlsAssumption ==
    /\ Boot \notin Requests /\ Env \in SanSets /\ NoFile # Torn
    /\ MaxKeys \in Nat /\ MaxStrikes \in Nat
    /\ {NoFile, Torn} \cap (Certs \cup SanSets \cup {Key(n) : n \in 0 .. MaxKeys}) = {}

Strike == strikes < MaxStrikes /\ strikes' = strikes + 1
Calm   == UNCHANGED strikes

Missing(f) == disk[f] = NoFile
Written(f) == disk[f] \notin {NoFile, Torn}

-----------------------------------------------------------------------------
(* The handlers' file operations. *)

Op(what, f, v) == [do |-> what, file |-> f, val |-> v]
Write(f, v)  == Op("write", f, v)
Create(f, v) == Op("create", f, v)      \* create_new: fails on an existing file
Remove(f)    == Op("remove", f, NoFile)
Reload(c, k) == <<Op("readcert", c, NoFile), Op("readkey", k, NoFile), Op("swap", c, NoFile)>>

write_key_0600(f, k) == <<Remove(f), Create(f, k)>>

\* cert, key and sidecar, the certificate first.
upload_writes(c) ==
    <<Write("upcert", c)>> \o write_key_0600("upkey", c.id) \o <<Write("upmeta", c.id)>>

remove_uploaded_pair == <<Remove("upcert"), Remove("upkey"), Remove("upmeta")>>

\* Mutant: a stale key is left for the fresh write to replace.
regenerate_in_place(c) ==
    <<Remove("cert"), Write("cert", c), Create("key", c.id), Write("sans", c.sans)>>

\* The pair is minted before anything is removed; the sidecar comes last.
regenerate_managed_pair(c) ==
    <<Remove("cert"), Remove("key"), Write("cert", c), Create("key", c.id), Write("sans", c.sans)>>

\* The key first, the meta is the commit point.
save_pending(k) ==
    <<Remove("pkey"), Create("pkey", k), Write("pmeta", k)>>

clear_pending == <<Remove("pkey"), Remove("pmeta")>>

-----------------------------------------------------------------------------
(* Loading a pair. *)

\* rustls refuses a pair that does not parse or does not match.
Loads(c, k) == c \in Certs /\ c.sound /\ k = c.id

\* The sidecar reads as absent when it is blank.
ensure_regenerates(d) ==
    d["sans"] \in {NoFile, Torn} \/ NoFile \in {d["cert"], d["key"]}

\* What a boot from these files serves, if the managed pair needs no regeneration.
load_tls_config(d) ==
    IF mount # NoFile THEN mount
    ELSE IF Loads(d["upcert"], d["upkey"]) THEN d["upcert"]
    ELSE IF Loads(d["cert"], d["key"]) THEN d["cert"] ELSE NoFile

\* The active certificate as the card and the download show it.
active_cert == IF Missing("upcert") THEN disk["cert"] ELSE disk["upcert"]

-----------------------------------------------------------------------------
Idle == [kind |-> "new", todo |-> <<>>, got |-> NoFile, over |-> FALSE]

\* With some requests already made, and as many keys and strikes spent.
TlsInit(made, keys, hits) ==
    /\ disk = [f \in Files |-> NoFile]
    /\ live = NoFile
    /\ req = [r \in Requests \cup {Boot} |-> IF r \in made THEN [Idle EXCEPT !.kind = "done"] ELSE Idle]
    /\ mount \in {NoFile, [id |-> Key(0), sans |-> Env, sound |-> TRUE]}
    /\ minted = keys
    /\ clash = {} /\ spoiled = FALSE /\ strikes = hits

InFlight == {r \in Requests : req[r].todo # <<>>}

\* r goes on with these operations, or has ended.
Goes(r, ops, got) ==
    req' = [req EXCEPT ![r] = IF ops = <<>> /\ r # Boot THEN [Idle EXCEPT !.kind = "done"]
                              ELSE [@ EXCEPT !.todo = ops, !.got = got]]

\* r starts with these operations.
Begin(r, k, ops) ==
    /\ live # NoFile /\ req[r].kind = "new"
    /\ req' = [req EXCEPT ![r] = IF ops = <<>> THEN [Idle EXCEPT !.kind = "done"]
                                 ELSE [kind |-> k, todo |-> ops, got |-> NoFile, over |-> ~Missing("upcert")]]
    /\ clash' = clash \cup UNION {{"any"} \cup ({k} \cap {req[q].kind}) : q \in InFlight}
    /\ Calm
    /\ UNCHANGED <<disk, live, mount, spoiled>>

Mint == minted < MaxKeys /\ minted' = minted + 1

\* The admin brings a new key or the pending one.  The pair is checked in
\* memory, against the pending key too; a pending key that cannot be read
\* refuses the upload.  The pending CSR is cleared last.
tls_upload(r, c) ==
    /\ c.sans = Env
    /\ \/ Mint /\ c.id = Key(minted + 1)
       \/ c.id = disk["pkey"] /\ UNCHANGED minted
    /\ IF disk["pkey"] \in {NoFile, c.id}
       THEN Begin(r, "upload", upload_writes(c) \o Reload("upcert", "upkey")
                                 \o IF Missing("pkey") THEN <<>> ELSE clear_pending)
       ELSE Begin(r, "upload", <<>>)

\* build_csr mints the key; the CSR goes to the admin with the answer.
tls_csr(r) ==
    /\ Mint
    /\ Begin(r, "csr", save_pending(Key(minted + 1)))

tls_pending_discard(r) ==
    /\ UNCHANGED minted
    /\ Begin(r, "discard", clear_pending)

\* Mutant: the fresh pair is loaded whatever is being served.
regenerate_and_load(r, s) ==
    /\ Mint
    /\ Begin(r, "regen", regenerate_managed_pair([id |-> Key(minted + 1), sans |-> s, sound |-> TRUE])
                           \o Reload("cert", "key"))

\* Whether to reload is decided after the writes (Decide).
tls_regenerate(r, s) ==
    /\ Mint
    /\ Begin(r, "regen", regenerate_managed_pair([id |-> Key(minted + 1), sans |-> s, sound |-> TRUE])
                           \o <<Op("decide", "cert", NoFile)>>)

\* Reload unless a file could not be removed.
tls_reset(r) ==
    /\ UNCHANGED minted
    /\ Begin(r, "reset", remove_uploaded_pair \o Reload("cert", "key"))

-----------------------------------------------------------------------------
(* One operation. *)

Head1(r) == req[r].todo[1]

Done(r, got) ==
    /\ Goes(r, Tail(req[r].todo), got)
    /\ UNCHANGED spoiled

\* Mutant: an upload the listener cannot load stays for the next boot to try.
Fails_kept(r) ==
    /\ IF r = Boot THEN req' = [req EXCEPT ![r] = Idle] ELSE Goes(r, <<>>, NoFile)
    /\ spoiled' = TRUE

\* An upload is rolled back; anything else is left as it is, a boot fails.
Fails(r) ==
    LET k == req[r].kind IN
    /\ IF k = "boot" THEN req' = [req EXCEPT ![r] = Idle]
       ELSE Goes(r, IF k = "upload" THEN remove_uploaded_pair ELSE <<>>, NoFile)
    /\ spoiled' = (spoiled \/ k \in {"regen", "reset"} \/ (k = "upload" /\ req[r].over))

Same == UNCHANGED <<live, mount, minted, clash>>

FileOp(r) ==
    LET op == Head1(r) IN
    /\ op.do \in {"write", "create", "remove"}
    /\ op.do = "create" => Missing(op.file)
    /\ disk' = [disk EXCEPT ![op.file] = op.val]
    /\ Done(r, req[r].got)
    /\ Calm /\ Same

\* A write fails and may tear its file; a stale key blocks a create; an
\* uploaded file cannot be removed, which only tls_reset reports.
FileOpFails(r) ==
    LET op == Head1(r) IN
    /\ \/ /\ op.do = "create" /\ ~Missing(op.file)
          /\ Calm /\ UNCHANGED disk
       \/ /\ op.do \in {"write", "create"}
          /\ op.do = "create" => Missing(op.file)
          /\ Strike
          /\ disk' \in {disk, [disk EXCEPT ![op.file] = Torn]}
       \/ /\ op.do = "remove" /\ req[r].kind = "reset" /\ ~Missing(op.file)
          /\ Strike /\ UNCHANGED disk
    /\ Fails(r)
    /\ Same

\* Which pair is live is told from the files.
Decide(r) ==
    /\ Head1(r).do = "decide"
    /\ Goes(r, IF Missing("upcert") \/ Missing("upkey") THEN Reload("cert", "key") ELSE <<>>, NoFile)
    /\ Calm /\ Same /\ UNCHANGED <<disk, spoiled>>

\* reload_from_pem_file (axum-server): read one file, read the other, swap.
ReadPem(r) ==
    LET op == Head1(r) c == req[r].got IN
    /\ op.do \in {"readcert", "readkey"}
    /\ IF op.do = "readcert"
       THEN IF Written(op.file) THEN Done(r, disk[op.file]) ELSE Fails(r)
       ELSE IF Loads(c, disk[op.file]) THEN Done(r, c) ELSE Fails(r)
    /\ Calm /\ Same /\ UNCHANGED disk

Swap(r) ==
    /\ Head1(r).do = "swap"
    /\ live' = req[r].got
    /\ Done(r, NoFile)
    /\ Calm /\ UNCHANGED <<disk, mount, minted, clash>>

-----------------------------------------------------------------------------
(* Boot, crash, disconnect. *)

\* ensure_managed_pair, then the load.
ensure_managed_pair ==
    /\ live = NoFile /\ req[Boot].kind = "new"
    /\ IF mount = NoFile /\ ensure_regenerates(disk)
       THEN /\ Mint
            /\ LET s == IF Written("sans") THEN disk["sans"] ELSE Env
                   c == [id |-> Key(minted + 1), sans |-> s, sound |-> TRUE]
               IN req' = [req EXCEPT ![Boot] = [Idle EXCEPT !.kind = "boot", !.todo = regenerate_managed_pair(c)]]
       ELSE req' = [req EXCEPT ![Boot].kind = "boot"] /\ UNCHANGED minted
    /\ Calm
    /\ UNCHANGED <<disk, live, mount, clash, spoiled>>

\* A mounted pair beats an uploaded one, which beats the managed one; a managed
\* pair that does not load fails the boot.
load_or_create_tls_config ==
    /\ req[Boot].kind = "boot" /\ req[Boot].todo = <<>>
    /\ live' = load_tls_config(disk)
    /\ req' = [req EXCEPT ![Boot] = Idle]
    /\ Calm
    /\ UNCHANGED <<disk, mount, minted, clash, spoiled>>

\* The file that was being written may be torn.
Crash ==
    /\ Strike
    /\ live # NoFile \/ req[Boot].kind = "boot"
    /\ LET busy == {r \in DOMAIN req : req[r].todo # <<>> /\ Head1(r).do \in {"write", "create"}}
           tearable == {Head1(r).file : r \in {b \in busy : Head1(b).do = "write" \/ Missing(Head1(b).file)}}
       IN \E T \in SUBSET tearable : disk' = [f \in Files |-> IF f \in T THEN Torn ELSE disk[f]]
    /\ live' = NoFile
    /\ req' = [r \in DOMAIN req |-> IF r \in InFlight THEN [Idle EXCEPT !.kind = "done"]
                                     ELSE IF r = Boot THEN Idle ELSE req[r]]
    /\ spoiled' = (spoiled \/ \E r \in InFlight : req[r].kind = "upload")
    /\ UNCHANGED <<mount, minted, clash>>

\* The client goes away while its handler waits for the reload.
Disconnect(r) ==
    /\ Strike
    /\ Head1(r).do \in {"readcert", "readkey", "swap"}
    /\ Goes(r, <<>>, NoFile)
    /\ spoiled' = TRUE
    /\ UNCHANGED <<disk, live, mount, minted, clash>>

\* The rejected requests change nothing: an upload whose key does not match, a
\* list of SANs refused before the mint.
TlsNext ==
    \/ ensure_managed_pair
    \/ load_or_create_tls_config
    \/ Crash
    \/ \E r \in Requests :
          \/ \E c \in Certs : tls_upload(r, c)
          \/ tls_csr(r) \/ tls_pending_discard(r) \/ tls_reset(r)
          \/ \E s \in SanSets : tls_regenerate(r, s)
    \/ \E r \in DOMAIN req :
          /\ req[r].todo # <<>>
          /\ FileOp(r) \/ FileOpFails(r) \/ Decide(r) \/ ReadPem(r) \/ Swap(r) \/ Disconnect(r)

-----------------------------------------------------------------------------
(* Properties. *)

Quiet == live # NoFile /\ InFlight = {}

\* The server can be restarted at any moment, a crash inside a regeneration
\* included: the files then load, or are regenerated.  Two regenerations at
\* once, or a torn managed file, are the exceptions (ensure_managed_pair takes
\* two files that exist for a complete pair).
BootComesUp ==
    ("regen" \notin clash /\ Torn \notin {disk["cert"], disk["key"]})
        => mount # NoFile \/ ensure_regenerates(disk) \/ load_tls_config(disk) # NoFile

\* A restart changes nothing: what is being served is what a boot would load,
\* and what the card and the download show, once every request has run to its
\* end by itself (tls_upload, tls_regenerate, tls_reset keep disk and listener
\* together).
RestartChangesNothing ==
    (Quiet /\ mount = NoFile /\ clash = {} /\ ~spoiled)
        => /\ ~ensure_regenerates(disk)
           /\ live = load_tls_config(disk) /\ live = active_cert

\* Uploads that run at the same time may mix their files, but whoever wrote
\* last is undone by its own failed reload: once all are done, two uploaded
\* files that exist match (the comment before the writes of tls_upload).
UploadedPairMatches ==
    (InFlight = {} /\ strikes = 0 /\ ~Missing("upcert") /\ ~Missing("upkey"))
        => Loads(disk["upcert"], disk["upkey"])

============================================================================
