--------------------------- MODULE AccountsProofs ---------------------------
(***************************************************************************)
(* Theorems about Accounts, for any number of users, sessions, requests in *)
(* flight, restarts and throttle windows.                                  *)
(***************************************************************************)
EXTENDS Accounts, TLAPS, FiniteSetTheorems, WellFoundedInduction

-----------------------------------------------------------------------------
(* Types *)

Kinds == {"change", "rotate", "enroll", "disable", "begin", "finish", "forget", "mint", "revoke",
          "create", "tune"}

LEMMA SignedInKinds ==
    /\ DOMAIN SignedIn = Kinds
    /\ \A op \in Kinds : SignedIn[op] \in {"read", "write", "consume", "list", "insert"}
    /\ \A op \in Kinds : op \in {"change", "rotate"} => SignedIn[op] = "read"
    /\ \A op \in Kinds : SignedIn[op] = "insert" <=> op = "create"
    /\ SignedIn["finish"] = "consume"
BY DEF SignedIn, Kinds

\* What a request has with it at the statement it has come to.
Carries(r) ==
    /\ r.op \in {"change", "rotate", "create", "setup", "login"} => r.password \in Passwords
    /\ r.op = "change" => r.other \in Passwords
    /\ r.op \in {"create", "setup"} => r.other \in Users
    /\ r.op = "login" => r.other \in Nat \cup {None}
    /\ r.op \in {"change", "rotate"} /\ r.pc = "write" => r.record \in Seal
    /\ r.op \in Kinds \cup {"login", "setup"} =>
         /\ r.pc = "seal" => r.op \in {"login", "setup", "create", "rotate"}
         /\ r.pc = "seal" /\ r.op # "login" => r.record \in Seal
         /\ r.pc = "insert" => r.op \in {"create", "setup"}
    /\ r.op = "login" /\ r.pc \in {"succeed", "session", "seal"} => r.secret \in Secrets
    /\ r.op = "finish" /\ r.pc = "store" => r.secret \in Secrets

\* A signed-in request is of a user with an account: rows are never deleted.
OfMember(r, acc) ==
    \/ r.op \in Kinds \ {"begin", "finish"}
    \/ r.op = "login" /\ r.pc \in {"succeed", "session", "seal"}
    \/ r.op = "setup" /\ r.pc = "seal"
    => acc[r.user] # None

Typed == TypeOK /\ \A t \in Tasks : Carries(task[t])

\* Challenges carry numbers that were given out.
Numbered == \A u \in Users : \A c \in challenge[u] : c.id \in 0 .. minted

Types ==
    /\ Typed
    /\ \A t \in Tasks : OfMember(task[t], account)
    /\ Numbered

\* No step takes a row of the users table away.
Grows == \A u \in Users : account[u] # None => account'[u] \in Account

LEMMA IdleCarries == Carries(Idle)
BY DEF Carries, Idle, Kinds

LEMMA BusyTask ==
    ASSUME Types, NEW t \in Tasks, Busy(t)
    PROVE  task[t] \in Request /\ Carries(task[t]) /\ task[t].op \in Kinds \cup {"login", "setup"}
BY SignedInKinds DEF Types, Typed, TypeOK, Busy, Idle, Request

\* A step of one request, as far as the task goes.
LEMMA TaskTyped ==
    ASSUME Types, NEW t \in Tasks, NEW x \in Request \cup {Idle}, Carries(x),
           task' = [task EXCEPT ![t] = x]
    PROVE  /\ task' \in [Tasks -> Request \cup {Idle}]
           /\ \A j \in Tasks : Carries(task'[j])
           /\ task'[t] = x /\ \A j \in Tasks \ {t} : task'[j] = task[j]
BY DEF Types, Typed, TypeOK

\* The ending of a request.
LEMMA EndTyped ==
    ASSUME Types, NEW t \in Tasks, End(t)
    PROVE  task' \in [Tasks -> Request \cup {Idle}] /\ \A j \in Tasks : Carries(task'[j])
<1>1. task' = [task EXCEPT ![t] = Idle]
  BY DEF End
<1> QED
  BY <1>1, IdleCarries, TaskTyped

\* The larger of two numbers.
LEMMA MaxOfTwo ==
    ASSUME NEW a \in Nat, NEW b \in Nat
    PROVE  /\ Max({a, b}) \in {a, b} /\ Max({a, b}) >= a /\ Max({a, b}) >= b
<1>1. \E x \in {a, b} : \A y \in {a, b} : x >= y
  OBVIOUS
<1> QED
  BY <1>1 DEF Max

LEMMA InitTyped == Init => Typed
<1> SUFFICES ASSUME Init PROVE Typed
  OBVIOUS
<1>1. PICK start \in {Fresh} \cup {Installed(u, p, s) :
                        u \in Users, p \in Passwords, s \in SessionIds} :
          /\ account = start.account /\ cache = start.cache
          /\ session = start.session /\ minted = start.minted
          /\ cards = start.cards /\ current = start.cards
  BY DEF Init
<1> DEFINE Sound(st) ==
      /\ st.account \in [Users -> Account \cup {None}]
      /\ st.session \in [SessionIds -> [user : Users, generation : Nat, expired : BOOLEAN] \cup {None}]
      /\ st.cache \in [Users -> Secrets \cup {None}]
      /\ st.cards \in [Users -> SUBSET Secrets]
      /\ st.minted \in Nat
<1>2. Sound(Fresh)
  BY DEF Fresh
<1>3. ASSUME NEW u \in Users, NEW p \in Passwords, NEW s \in SessionIds
      PROVE  Sound(Installed(u, p, s))
  <2>1. [hash |-> p, service |-> 1, totp |-> None, role |-> "admin",
         seal |-> [password |-> p, inPassword |-> 1, recovery |-> 2, inRecovery |-> 1, made |-> 2]]
          \in Account
    BY DEF Account, Seal, Secrets
  <2>2. 1 \in Secrets /\ {2} \in SUBSET Secrets
    BY DEF Secrets
  <2>3. [user |-> u, generation |-> 0, expired |-> FALSE] \in [user : Users, generation : Nat, expired : BOOLEAN]
    OBVIOUS
  <2> QED
    BY <2>1, <2>2, <2>3 DEF Installed, Fresh
<1>4. Sound(start)
  BY <1>1, <1>2, <1>3
<1>5. /\ account \in [Users -> Account \cup {None}]
      /\ session \in [SessionIds -> [user : Users, generation : Nat, expired : BOOLEAN] \cup {None}]
      /\ cache \in [Users -> Secrets \cup {None}]
      /\ cards \in [Users -> SUBSET Secrets] /\ current \in [Users -> SUBSET Secrets]
      /\ minted \in Nat
  BY <1>1, <1>4
<1>6. LimitMin \in LimitMin .. LimitMax
  BY AccountsAssumption
<1>7. TypeOK
  BY <1>5, <1>6 DEF Init, TypeOK, Idle
<1>8. \A t \in Tasks : Carries(task[t])
  BY IdleCarries DEF Init
<1> QED
  BY <1>7, <1>8 DEF Typed

\* A request that arrives.
LEMMA StartTyped ==
    ASSUME Types, NEW t \in Tasks, NEW op \in Kinds \cup {"login", "setup"},
           NEW pc \in {"read", "write", "consume", "list", "insert", "authenticate"},
           NEW u \in Users, NEW p \in Passwords \cup {None},
           NEW q \in Passwords \cup Users \cup Nat \cup {None},
           op \in {"change", "rotate", "create", "setup", "login"} => p \in Passwords,
           op = "change" => q \in Passwords,
           op \in {"create", "setup"} => q \in Users,
           op = "login" => q \in Nat \cup {None},
           op \in {"change", "rotate"} => pc = "read",
           pc = "insert" => op \in {"create", "setup"},
           Start(t, op, pc, u, p, q)
    PROVE  /\ task' \in [Tasks -> Request \cup {Idle}]
           /\ \A j \in Tasks : Carries(task'[j])
           /\ requests' \in Nat
<1> DEFINE x == [op |-> op, pc |-> pc, user |-> u, password |-> p, other |-> q,
                 record |-> None, secret |-> None, generation |-> 0]
<1>1. task' = [task EXCEPT ![t] = x] /\ requests' = requests + 1
  BY DEF Start
<1>2. x \in Request
  BY SignedInKinds DEF Request
<1>3. Carries(x)
  BY DEF Carries
<1> HIDE DEF x
<1> QED
  BY <1>1, <1>2, <1>3, TaskTyped DEF Types, Typed, TypeOK

LEMMA FormsTyped ==
    ASSUME NEW op \in Kinds, NEW f \in Forms(op)
    PROVE  /\ f[1] \in Passwords \cup {None} /\ f[2] \in Passwords \cup Users \cup {None}
           /\ op \in {"change", "rotate", "create"} => f[1] \in Passwords
           /\ op = "change" => f[2] \in Passwords
           /\ op = "create" => f[2] \in Users
BY DEF Forms, Kinds

LEMMA ArriveTypes ==
    ASSUME Types, NEW t \in Tasks, Arrive(t)
    PROVE  Typed'
<1>1. ASSUME NEW s \in SessionIds, NEW token, NEW op \in Kinds, NEW f \in Forms(op),
             Admit(t, s, token, op, f[1], f[2])
      PROVE  Typed'
  <2>1. session[s].user \in Users
    BY <1>1 DEF Admit, Lives, Types, Typed, TypeOK
  <2>2. /\ SignedIn[op] \in {"read", "write", "consume", "list", "insert", "authenticate"}
        /\ op \in {"change", "rotate"} => SignedIn[op] = "read"
        /\ SignedIn[op] = "insert" => op \in {"create", "setup"}
        /\ op # "setup" /\ op # "login"
    BY SignedInKinds DEF Kinds
  <2>3. Start(t, op, SignedIn[op], session[s].user, f[1], f[2])
    BY <1>1 DEF Admit
  <2>4. /\ task' \in [Tasks -> Request \cup {Idle}]
        /\ \A j \in Tasks : Carries(task'[j])
        /\ requests' \in Nat
    <3> DEFINE p == f[1]
               q == f[2]
    <3>1. /\ p \in Passwords \cup {None} /\ q \in Passwords \cup Users \cup {None}
          /\ op \in {"change", "rotate", "create"} => p \in Passwords
          /\ op = "change" => q \in Passwords
          /\ op = "create" => q \in Users
          /\ Start(t, op, SignedIn[op], session[s].user, p, q)
      BY <2>3, FormsTyped
    <3> HIDE DEF p, q
    <3> QED
      BY <2>1, <2>2, <3>1, StartTyped
  <2> QED
    BY <1>1, <2>4 DEF Admit, Types, Typed, TypeOK, tables, memory, history
<1>2. ASSUME NEW k \in KeyIds, NEW op \in Kinds, AdmitBearer(t, k, op)
      PROVE  Typed'
  <2>1. apiKey[k].user \in Users /\ op \in {"begin", "finish"}
    BY <1>2 DEF AdmitBearer, Verified, Types, Typed, TypeOK
  <2>2. /\ SignedIn[op] \in {"read", "write", "consume", "list", "insert", "authenticate"}
        /\ SignedIn[op] # "insert"
    BY <2>1, SignedInKinds
  <2>3. Start(t, op, SignedIn[op], apiKey[k].user, None, None)
    BY <1>2 DEF AdmitBearer
  <2>4. /\ task' \in [Tasks -> Request \cup {Idle}]
        /\ \A j \in Tasks : Carries(task'[j])
        /\ requests' \in Nat
    BY <2>1, <2>2, <2>3, StartTyped
  <2> QED
    BY <1>2, <2>4 DEF AdmitBearer, Types, Typed, TypeOK, tables, memory, history
<1>3. ASSUME NEW u \in Users, NEW p \in Passwords, SetupStart(t, u, p)
      PROVE  Typed'
  <2>1. Start(t, "setup", "insert", u, p, u)
    BY <1>3 DEF SetupStart
  <2>2. /\ task' \in [Tasks -> Request \cup {Idle}]
        /\ \A j \in Tasks : Carries(task'[j])
        /\ requests' \in Nat
    BY <2>1, StartTyped
  <2> QED
    BY <1>3, <2>2 DEF SetupStart, Types, Typed, TypeOK, tables, memory, history
<1>4. ASSUME NEW u \in Users, NEW p \in Passwords, NEW q \in Codes(u), LoginStart(t, u, p, q)
      PROVE  Typed'
  <2>1. Start(t, "login", "authenticate", u, p, q)
    BY <1>4 DEF LoginStart
  <2>2. q \in Nat \cup {None}
    BY DEF Codes, Exists, Types, Typed, TypeOK, Account, Secrets
  <2>3. /\ task' \in [Tasks -> Request \cup {Idle}]
        /\ \A j \in Tasks : Carries(task'[j])
        /\ requests' \in Nat
    BY <2>1, <2>2, StartTyped
  <2>a. loosest \in Nat /\ config \in Nat
    BY AccountsAssumption DEF Types, Typed, TypeOK
  <2>4. limit' = config /\ loosest' \in {loosest, config}
    BY <1>4, <2>a, MaxOfTwo DEF LoginStart
  <2> QED
    BY <1>4, <2>3, <2>4 DEF LoginStart, Types, Typed, TypeOK, tables
<1> QED
  BY <1>1, <1>2, <1>3, <1>4, SignedInKinds DEF Arrive

LEMMA LoginTypes ==
    ASSUME Types, NEW t \in Tasks, Authenticate(t) \/ RecordFailure(t) \/ RecordSuccess(t)
    PROVE  Typed'
<1>1. Busy(t) /\ task[t].op = "login"
  BY DEF Authenticate, RecordFailure, RecordSuccess, At, Busy
<1>2. task[t] \in Request /\ Carries(task[t])
  BY <1>1, BusyTask
<1> DEFINE r == account[task[t].user]
           Moved(pc) == [task[t] EXCEPT !.pc = pc]
           passed == [task[t] EXCEPT !.pc = "succeed", !.secret = r.seal.inPassword]
<1>3. ASSUME NEW x \in Request \cup {Idle}, Carries(x), task' = [task EXCEPT ![t] = x]
      PROVE  task' \in [Tasks -> Request \cup {Idle}] /\ \A j \in Tasks : Carries(task'[j])
  BY <1>3, TaskTyped
<1>4. Moved("fail") \in Request /\ Carries(Moved("fail"))
  BY <1>1, <1>2 DEF Request, Carries
<1>5. task[t].pc = "succeed" => Moved("session") \in Request /\ Carries(Moved("session"))
  BY <1>1, <1>2 DEF Request, Carries
<1>6. r # None => passed \in Request /\ Carries(passed)
  <2> SUFFICES ASSUME r # None PROVE passed \in Request /\ Carries(passed)
    OBVIOUS
  <2>1. r \in Account
    BY <1>2 DEF Types, Typed, TypeOK, Request
  <2>2. r.seal.inPassword \in Secrets
    BY <2>1 DEF Account, Seal
  <2> QED
    BY <1>1, <1>2, <2>2, ZenonT(30) DEF Request, Carries, Secrets
<1>7. CASE Authenticate(t)
  <2>1. \/ task' = [task EXCEPT ![t] = Moved("fail")]
        \/ End(t)
        \/ r # None /\ task' = [task EXCEPT ![t] = passed]
    BY <1>7 DEF Authenticate, Goto, Known, Opens
  <2>2. task' \in [Tasks -> Request \cup {Idle}] /\ \A j \in Tasks : Carries(task'[j])
    BY <1>3, <1>4, <1>6, <2>1, EndTyped
  <2> QED
    BY <1>7, <2>2 DEF Authenticate, Types, Typed, TypeOK, tables, memory, bounds, history
<1>8. CASE RecordFailure(t)
  <2>1. throttle' \in [Users -> [failures : Nat, cool : BOOLEAN]]
    BY <1>2, <1>8 DEF RecordFailure, Failed, Types, Typed, TypeOK, Request
  <2> QED
    BY <1>8, <2>1, EndTyped DEF RecordFailure, Types, Typed, TypeOK, tables, bounds, history
<1>9. CASE RecordSuccess(t)
  <2>1. throttle' \in [Users -> [failures : Nat, cool : BOOLEAN]]
    BY <1>2, <1>9 DEF RecordSuccess, Succeeded, Types, Typed, TypeOK, Request
  <2>2. task' \in [Tasks -> Request \cup {Idle}] /\ \A j \in Tasks : Carries(task'[j])
    BY <1>3, <1>5, <1>9 DEF RecordSuccess, At, Goto
  <2> QED
    BY <1>9, <2>1, <2>2 DEF RecordSuccess, Types, Typed, TypeOK, tables, bounds, history
<1> QED
  BY <1>7, <1>8, <1>9

LEMMA SessionTypes ==
    ASSUME Types, NEW t \in Tasks, NEW s \in SessionIds, CreateSession(t, s)
    PROVE  Typed'
<1>1. Busy(t) /\ task[t].op = "login" /\ task[t].pc = "session"
  BY DEF CreateSession, At, Busy
<1>2. task[t] \in Request /\ Carries(task[t])
  BY <1>1, BusyTask
<1> DEFINE x == [task[t] EXCEPT !.pc = "seal"]
<1>3. x \in Request /\ Carries(x)
  BY <1>1, <1>2 DEF Request, Carries
<1>4. task' = [task EXCEPT ![t] = x]
  BY DEF CreateSession, Goto
<1>5. session' \in [SessionIds -> [user : Users, generation : Nat, expired : BOOLEAN] \cup {None}]
  BY <1>2 DEF CreateSession, NewSession, Types, Typed, TypeOK, Request
<1> HIDE DEF x
<1>6. task' \in [Tasks -> Request \cup {Idle}] /\ \A j \in Tasks : Carries(task'[j])
  BY <1>3, <1>4, TaskTyped
<1> QED
  BY <1>5, <1>6 DEF CreateSession, Types, Typed, TypeOK, memory, bounds, history

\* The key a request is about to seal, and the card it is about to show.
LEMMA SealingTask ==
    ASSUME Types, NEW t \in Tasks, Busy(t), task[t].pc = "seal"
    PROVE  /\ task[t].user \in Users /\ task[t].op \in {"login", "setup", "create", "rotate"}
           /\ Key(t) \in Secrets
           /\ task[t].op # "login" => task[t].record \in Seal /\ task[t].record.recovery \in Secrets
<1>1. task[t] \in Request /\ Carries(task[t]) /\ task[t].op \in Kinds \cup {"login", "setup"}
  BY BusyTask
<1>2. task[t].op \in {"login", "setup", "create", "rotate"}
  BY <1>1 DEF Carries
<1>3. CASE task[t].op = "login"
  BY <1>1, <1>2, <1>3 DEF Carries, Key, Request
<1>4. CASE task[t].op # "login"
  <2>1. task[t].record \in Seal
    BY <1>1, <1>2, <1>4 DEF Carries
  <2> QED
    BY <1>1, <1>2, <1>4, <2>1 DEF Key, Request, Seal
<1> QED
  BY <1>3, <1>4

LEMMA RowKept ==
    ASSUME Types, NEW u \in Users, account[u] # None, NEW a \in Account,
           account' = [account EXCEPT ![u] = a]
    PROVE  account' \in [Users -> Account \cup {None}] /\ Grows
BY DEF Types, Typed, TypeOK, Grows

LEMMA SealTypes ==
    ASSUME Types, NEW t \in Tasks, NEW written \in BOOLEAN, ServiceSeal(t, written)
    PROVE  Typed' /\ Grows
<1> DEFINE u == task[t].user
<1>1. Busy(t) /\ task[t].pc = "seal" /\ End(t)
  BY DEF ServiceSeal
<1>2. /\ u \in Users /\ Key(t) \in Secrets
      /\ Shows(t) => task[t].record.recovery \in Secrets
      /\ task[t].op \in {"login", "setup", "create", "rotate"}
  BY <1>1, SealingTask DEF Shows
<1>3. account' \in [Users -> Account \cup {None}] /\ unsealed' \subseteq Users /\ Grows
  <2>1. CASE ~written
    BY <1>2, <2>1 DEF ServiceSeal, Types, Typed, TypeOK, Grows
  <2>2. CASE written
    <3> DEFINE a == [account[u] EXCEPT !.service = Key(t)]
    <3>1. account' = [account EXCEPT ![u] = a] /\ unsealed' = unsealed \ {u}
      BY <2>2 DEF ServiceSeal
    <3>2. account[u] # None
      BY <1>1, <1>2 DEF Types, OfMember, Kinds
    <3>a. account[u] \in Account
      BY <1>2, <3>2 DEF Types, Typed, TypeOK
    <3>3. a \in Account
      BY <1>2, <3>a DEF Account
    <3> HIDE DEF a
    <3>4. account' \in [Users -> Account \cup {None}] /\ Grows
      BY <1>2, <3>1, <3>2, <3>3, RowKept
    <3> QED
      BY <3>1, <3>4 DEF Types, Typed, TypeOK
  <2> QED
    BY <2>1, <2>2
<1>4. cache' \in [Users -> Secrets \cup {None}]
  BY <1>2 DEF ServiceSeal, Types, Typed, TypeOK
<1>5. cards' \in [Users -> SUBSET Secrets]
  BY <1>2 DEF ServiceSeal, Types, Typed, TypeOK
<1> QED
  BY <1>1, <1>3, <1>4, <1>5, EndTyped DEF ServiceSeal, Types, Typed, TypeOK, bounds

LEMMA CreateTypes ==
    ASSUME Types, NEW t \in Tasks, NEW role \in {"admin", "user"}, CreateLocal(t, role)
    PROVE  Typed' /\ Grows
<1> DEFINE u == task[t].other
           new == NewAccount(task[t].password, role, minted + 1)
           x == [task[t] EXCEPT !.pc = "seal", !.user = u, !.record = new.seal]
<1>1. Busy(t) /\ task[t].pc = "insert" /\ minted' = minted + 2
  BY DEF CreateLocal
<1>2. /\ task[t] \in Request /\ Carries(task[t]) /\ task[t].op \in {"create", "setup"}
      /\ u \in Users /\ task[t].password \in Passwords
  BY <1>1, BusyTask DEF Carries
<1>3. minted \in Nat /\ minted + 1 \in Secrets /\ minted + 2 \in Secrets
  BY DEF Types, Typed, TypeOK, Secrets
<1>4. new \in Account /\ new.seal \in Seal /\ new.seal.recovery \in Secrets
  BY <1>2, <1>3 DEF NewAccount, NewSeal, Account, Seal, Secrets
<1>5. x \in Request /\ Carries(x)
  <2> HIDE DEF new, u
  <2> QED
    BY <1>2, <1>4 DEF Request, Carries
<1>6. /\ account' \in [Users -> Account \cup {None}] /\ Grows
      /\ current' \in [Users -> SUBSET Secrets]
      /\ task' \in [Tasks -> Request \cup {Idle}] /\ \A j \in Tasks : Carries(task'[j])
  <2>1. CASE Exists(u)
    <3>1. End(t) /\ account' = account /\ current' = current
      BY <2>1 DEF CreateLocal
    <3> QED
      BY <3>1, EndTyped DEF Types, Typed, TypeOK, Grows
  <2>2. CASE ~Exists(u)
    <3>1. /\ account' = [account EXCEPT ![u] = new]
          /\ current' = [current EXCEPT ![u] = {new.seal.recovery}]
          /\ task' = [task EXCEPT ![t] = x]
      BY <2>2 DEF CreateLocal
    <3> HIDE DEF x, new, u
    <3>2. task' \in [Tasks -> Request \cup {Idle}] /\ \A j \in Tasks : Carries(task'[j])
      BY <1>5, <3>1, TaskTyped
    <3>3. /\ account' \in [Users -> Account \cup {None}] /\ Grows
          /\ current' \in [Users -> SUBSET Secrets]
      BY <1>2, <1>4, <3>1 DEF Types, Typed, TypeOK, Grows
    <3> QED
      BY <3>2, <3>3
  <2> QED
    BY <2>1, <2>2
<1> QED
  BY <1>1, <1>3, <1>6 DEF CreateLocal, Types, Typed, TypeOK, memory, Secrets

LEMMA ReadTypes ==
    ASSUME Types, NEW t \in Tasks, ReadRecord(t)
    PROVE  Typed'
<1> DEFINE r == account[task[t].user]
           x == [task[t] EXCEPT !.record = r.seal, !.pc = "write"]
<1>1. Busy(t) /\ task[t].op \in {"change", "rotate"}
  BY DEF ReadRecord
<1>2. task[t] \in Request /\ Carries(task[t]) /\ r # None
  BY <1>1, BusyTask DEF Types, OfMember, Kinds
<1>3. r \in Account
  BY <1>2 DEF Types, Typed, TypeOK, Request
<1>4. r.seal \in Seal
  BY <1>3 DEF Account
<1>5. x \in Request /\ Carries(x)
  BY <1>1, <1>2, <1>4 DEF Request, Carries
<1>6. End(t) \/ task' = [task EXCEPT ![t] = x]
  BY DEF ReadRecord
<1> HIDE DEF x
<1>7. task' \in [Tasks -> Request \cup {Idle}] /\ \A j \in Tasks : Carries(task'[j])
  BY <1>5, <1>6, TaskTyped, EndTyped
<1> QED
  BY <1>7 DEF ReadRecord, Types, Typed, TypeOK, tables, memory, bounds, history

LEMMA PasswordTypes ==
    ASSUME Types, NEW t \in Tasks, WritePassword(t)
    PROVE  Typed' /\ Grows
<1> DEFINE u == task[t].user
           n == generation[u] + 1
           a == [account[u] EXCEPT !.hash = task[t].other, !.seal = Resealed(t)]
           x == [task[t] EXCEPT !.pc = "purge", !.generation = n]
<1>1. Busy(t) /\ task[t].op = "change" /\ task[t].pc = "write" /\ minted' = minted + 1
  BY DEF WritePassword, At, Busy
<1>2. task[t] \in Request /\ Carries(task[t]) /\ account[u] # None
  BY <1>1, BusyTask DEF Types, OfMember, Kinds
<1>3. u \in Users /\ task[t].record \in Seal /\ task[t].other \in Passwords
  BY <1>1, <1>2 DEF Request, Carries
<1>4. minted \in Nat /\ n \in Nat
  BY <1>3 DEF Types, Typed, TypeOK
<1>5. Resealed(t) \in Seal
  <2> DEFINE k == minted + 1
             p == task[t].other
             r == task[t].record
  <2>1. k \in Nat /\ p \in Passwords /\ r \in Seal
    BY <1>3, <1>4
  <2>2. Resealed(t) = [r EXCEPT !.password = p, !.made = k]
    BY DEF Resealed
  <2> HIDE DEF k, p, r
  <2> QED
    BY <2>1, <2>2 DEF Seal
<1>6. account[u] \in Account
  BY <1>2, <1>3 DEF Types, Typed, TypeOK
<1>7. a \in Account
  BY <1>3, <1>5, <1>6 DEF Account
<1>8. /\ account' = [account EXCEPT ![u] = a] /\ generation' = [generation EXCEPT ![u] = n]
      /\ task' = [task EXCEPT ![t] = x]
  BY <1>3 DEF WritePassword, Types, Typed, TypeOK
<1> HIDE DEF n
<1>9. x \in Request /\ Carries(x)
  BY <1>1, <1>2, <1>4 DEF Request, Carries
<1> HIDE DEF a, x
<1>10. account' \in [Users -> Account \cup {None}] /\ Grows
  BY <1>2, <1>3, <1>7, <1>8, RowKept
<1>11. task' \in [Tasks -> Request \cup {Idle}] /\ \A j \in Tasks : Carries(task'[j])
  BY <1>8, <1>9, TaskTyped
<1>12. generation' \in [Users -> Nat]
  BY <1>3, <1>4, <1>8 DEF Types, Typed, TypeOK
<1>13. minted' \in Nat
  BY <1>1, <1>4
<1> QED
  BY <1>10, <1>11, <1>12, <1>13 DEF WritePassword, Types, Typed, TypeOK, memory

LEMMA PurgeTypes ==
    ASSUME Types, NEW t \in Tasks, PurgeSessions(t)
    PROVE  Typed'
<1> DEFINE u == task[t].user
           n == task[t].generation
<1>1. Busy(t)
  BY DEF PurgeSessions, At, Busy
<1>2. u \in Users /\ n \in Nat
  BY <1>1, BusyTask DEF Request
<1>3. reported[u] \in Nat
  BY <1>2 DEF Types, Typed, TypeOK
<1>4. Max({reported[u], n}) \in Nat
  BY <1>2, <1>3, MaxOfTwo
<1>5. reported' \in [Users -> Nat]
  BY <1>2, <1>4 DEF PurgeSessions, Types, Typed, TypeOK
<1>6. session' \in [SessionIds -> [user : Users, generation : Nat, expired : BOOLEAN] \cup {None}]
  BY DEF PurgeSessions, Without, Types, Typed, TypeOK
<1> QED
  BY <1>5, <1>6, EndTyped DEF PurgeSessions, Types, Typed, TypeOK, memory, bounds

LEMMA RotateTypes ==
    ASSUME Types, NEW t \in Tasks, WriteRecovery(t)
    PROVE  Typed' /\ Grows
<1> DEFINE u == task[t].user
           a == [account[u] EXCEPT !.seal = Rotated(t)]
           x == [task[t] EXCEPT !.pc = "seal", !.record = Rotated(t)]
<1>1. Busy(t) /\ task[t].op = "rotate" /\ task[t].pc = "write" /\ minted' = minted + 1
  BY DEF WriteRecovery, At, Busy
<1>2. task[t] \in Request /\ Carries(task[t]) /\ account[u] # None
  BY <1>1, BusyTask DEF Types, OfMember, Kinds
<1>3. u \in Users /\ task[t].record \in Seal
  BY <1>1, <1>2 DEF Request, Carries
<1>4. minted \in Nat /\ minted + 1 \in Secrets
  BY DEF Types, Typed, TypeOK, Secrets
<1>5. Rotated(t) \in Seal
  BY <1>3, <1>4 DEF Rotated, Seal, Secrets
<1>6. account[u] \in Account
  BY <1>2, <1>3 DEF Types, Typed, TypeOK
<1>7. a \in Account
  BY <1>5, <1>6 DEF Account
<1>8. x \in Request /\ Carries(x)
  BY <1>1, <1>2, <1>5 DEF Request, Carries
<1>9. \/ End(t) /\ account' = account /\ current' = current
      \/ /\ account' = [account EXCEPT ![u] = a]
         /\ current' = [current EXCEPT ![u] = @ \cup {minted + 1}]
         /\ task' = [task EXCEPT ![t] = x]
  BY <1>3 DEF WriteRecovery, Types, Typed, TypeOK
<1> HIDE DEF a, x
<1>10. account' \in [Users -> Account \cup {None}] /\ Grows
  BY <1>2, <1>3, <1>7, <1>9, RowKept DEF Types, Typed, TypeOK, Grows
<1>11. task' \in [Tasks -> Request \cup {Idle}] /\ \A j \in Tasks : Carries(task'[j])
  BY <1>8, <1>9, TaskTyped, EndTyped
<1>12. current' \in [Users -> SUBSET Secrets]
  BY <1>3, <1>4, <1>9 DEF Types, Typed, TypeOK
<1> QED
  BY <1>1, <1>4, <1>10, <1>11, <1>12 DEF WriteRecovery, Types, Typed, TypeOK, memory

LEMMA TotpTypes ==
    ASSUME Types, NEW t \in Tasks, TotpEnroll(t) \/ TotpDisable(t)
    PROVE  Typed' /\ Grows
<1> DEFINE u == task[t].user
           secret == IF TotpEnroll(t) THEN minted + 1 ELSE None
           a == [account[u] EXCEPT !.totp = secret]
<1>1. Busy(t) /\ task[t].op \in {"enroll", "disable"} /\ End(t)
  BY DEF TotpEnroll, TotpDisable, Writes, At, Busy
<1>2. task[t] \in Request /\ account[u] # None
  BY <1>1, BusyTask DEF Types, OfMember, Kinds
<1>3. u \in Users /\ minted \in Nat
  BY <1>2 DEF Request, Types, Typed, TypeOK
<1>4. secret \in Secrets \cup {None}
  BY <1>3 DEF Secrets
<1>5. account[u] \in Account
  BY <1>2, <1>3 DEF Types, Typed, TypeOK
<1>6. account' = [account EXCEPT ![u] = a]
  BY <1>3 DEF TotpEnroll, TotpDisable, Writes, At, SetSecret, Types, Typed, TypeOK
<1> HIDE DEF secret
<1>7. a \in Account
  BY <1>4, <1>5 DEF Account
<1> HIDE DEF a
<1>8. account' \in [Users -> Account \cup {None}] /\ Grows
  BY <1>2, <1>3, <1>6, <1>7, RowKept
<1>9. minted' \in Nat
  BY <1>3 DEF TotpEnroll, TotpDisable, bounds
<1> QED
  BY <1>1, <1>8, <1>9, EndTyped DEF TotpEnroll, TotpDisable, Types, Typed, TypeOK, memory, bounds, history

-----------------------------------------------------------------------------
\* A set of numbers below a bound has a greatest one.
LEMMA Greatest ==
    ASSUME NEW n \in Nat, NEW S \in SUBSET (0 .. n), S # {}
    PROVE  \E m \in S : \A k \in S : k <= m
<1> DEFINE T == {n - m : m \in S}
<1>a. \A m \in S : m \in Nat /\ n - m \in Nat
  OBVIOUS
<1>1. T \subseteq Nat /\ T # {}
  BY <1>a
<1>2. \E x \in T : \A y \in T : ~(<<y, x>> \in OpToRel(<, Nat))
  <2> HIDE DEF T
  <2> QED
    BY <1>1, WFMin, NatLessThanWellFounded
<1>3. PICK x \in T : \A y \in T : ~(y < x)
  BY <1>1, <1>2 DEF OpToRel
<1>4. PICK m \in S : x = n - m
  OBVIOUS
<1>5. ASSUME NEW k \in S PROVE k <= m
  <2>1. ~(n - k < n - m)
    BY <1>3, <1>4
  <2> QED
    BY <1>a, <2>1
<1> QED
  BY <1>5

LEMMA NewestLives ==
    ASSUME Types, NEW u \in Users, Live(u) # {}
    PROVE  Newest(u) \in Live(u)
<1>1. Live(u) \subseteq challenge[u] /\ \A c \in challenge[u] : c.id \in 0 .. minted
  BY DEF Live, Types, Numbered
<1> DEFINE S == {c.id : c \in Live(u)}
<1>2. S \in SUBSET (0 .. minted) /\ S # {} /\ minted \in Nat
  BY <1>1 DEF Types, Typed, TypeOK
<1>3. \E m \in S : \A k \in S : k <= m
  BY <1>2, Greatest
<1>4. \E c \in Live(u) : \A d \in Live(u) : d.id <= c.id
  BY <1>3
<1> QED
  BY <1>4 DEF Newest

LEMMA PasskeyTypes ==
    ASSUME Types, NEW t \in Tasks,
           \/ StartEnrollment(t)
           \/ ConsumeChallenge(t)
           \/ \E c \in 1 .. minted : StorePasskey(t, c) \/ RemovePasskey(t, c)
    PROVE  Typed'
<1> DEFINE u == task[t].user
           Challenges == [id : Secrets, expired : BOOLEAN]
<1>1. Busy(t)
  BY DEF StartEnrollment, ConsumeChallenge, StorePasskey, RemovePasskey, Writes, At, Busy
<1>2. task[t] \in Request /\ Carries(task[t]) /\ u \in Users
  BY <1>1, BusyTask DEF Request
<1>3. /\ minted \in Nat /\ Live(u) \subseteq challenge[u] /\ challenge[u] \subseteq Challenges
  BY <1>2 DEF Types, Typed, TypeOK, Live
<1>4. CASE StartEnrollment(t)
  <2>1. [id |-> minted + 1, expired |-> FALSE] \in Challenges
    BY <1>3 DEF Secrets
  <2>2. challenge' \in [Users -> SUBSET Challenges]
    BY <1>2, <1>3, <1>4, <2>1 DEF StartEnrollment, Types, Typed, TypeOK
  <2>3. minted' \in Nat
    BY <1>3, <1>4 DEF StartEnrollment
  <2> QED
    BY <1>4, <2>2, <2>3, EndTyped DEF StartEnrollment, Types, Typed, TypeOK, memory, history
<1>5. CASE ConsumeChallenge(t)
  <2>1. CASE Live(u) = {}
    BY <1>5, <2>1, EndTyped DEF ConsumeChallenge, Types, Typed, TypeOK, memory, bounds, history
  <2>2. CASE Live(u) # {}
    <3> DEFINE c == Newest(u)
               x == [task[t] EXCEPT !.pc = "store", !.secret = c.id]
    <3>1. /\ challenge' = [challenge EXCEPT ![u] = @ \ {c}]
          /\ task' = [task EXCEPT ![t] = x] /\ task[t].op = "finish"
      BY <1>5, <2>2 DEF ConsumeChallenge, At
    <3>2. c \in Live(u)
      BY <1>2, <2>2, NewestLives
    <3>3. c.id \in Secrets
      BY <1>3, <3>2
    <3> HIDE DEF c
    <3>4. x \in Request /\ Carries(x)
      BY <1>2, <3>1, <3>3, ZenonT(30) DEF Request, Carries, Secrets
    <3> HIDE DEF x
    <3>5. challenge' \in [Users -> SUBSET Challenges]
      BY <1>2, <1>3, <3>1 DEF Types, Typed, TypeOK
    <3>6. task' \in [Tasks -> Request \cup {Idle}] /\ \A j \in Tasks : Carries(task'[j])
      BY <3>1, <3>4, TaskTyped
    <3> QED
      BY <1>5, <3>5, <3>6 DEF ConsumeChallenge, Types, Typed, TypeOK, memory, bounds, history
  <2> QED
    BY <2>1, <2>2
<1>6. ASSUME NEW c \in 1 .. minted, StorePasskey(t, c) \/ RemovePasskey(t, c)
      PROVE  Typed'
  <2>1. c \in Secrets
    BY <1>3 DEF Secrets
  <2>2. passkey' \in [Users -> SUBSET Secrets]
    BY <1>2, <1>6, <2>1 DEF StorePasskey, RemovePasskey, Types, Typed, TypeOK
  <2> QED
    BY <1>6, <2>2, EndTyped DEF StorePasskey, RemovePasskey, Types, Typed, TypeOK, memory, bounds, history
<1> QED
  BY <1>4, <1>5, <1>6

LEMMA SettingTypes ==
    ASSUME Types, NEW t \in Tasks,
           \/ \E k \in KeyIds : MintKey(t, k) \/ RevokeKey(t, k)
           \/ \E n \in FailureLimits : SaveSecurity(t, n)
    PROVE  Typed'
<1>1. Busy(t)
  BY DEF MintKey, RevokeKey, SaveSecurity, Writes, At, Busy
<1>2. task[t] \in Request /\ task[t].user \in Users
  BY <1>1, BusyTask DEF Request
<1>3. ASSUME NEW k \in KeyIds, MintKey(t, k)
      PROVE  Typed'
  <2>1. apiKey' \in [KeyIds -> [user : Users, revoked : BOOLEAN] \cup {None}]
    BY <1>2, <1>3 DEF MintKey, NewKey, Types, Typed, TypeOK
  <2> QED
    BY <1>3, <2>1, EndTyped DEF MintKey, Types, Typed, TypeOK, memory, bounds, history
<1>4. ASSUME NEW k \in KeyIds, RevokeKey(t, k)
      PROVE  Typed'
  <2>1. apiKey' \in [KeyIds -> [user : Users, revoked : BOOLEAN] \cup {None}]
    <3> DEFINE a == [apiKey[k] EXCEPT !.revoked = TRUE]
    <3>1. apiKey' = apiKey \/ (apiKey[k] # None /\ apiKey' = [apiKey EXCEPT ![k] = a])
      BY <1>4 DEF RevokeKey, Revoked, Listed
    <3>2. apiKey[k] # None => a \in [user : Users, revoked : BOOLEAN]
      BY DEF Types, Typed, TypeOK
    <3> HIDE DEF a
    <3> QED
      BY <3>1, <3>2 DEF Types, Typed, TypeOK
  <2> QED
    BY <1>4, <2>1, EndTyped DEF RevokeKey, Types, Typed, TypeOK, memory, bounds, history
<1>5. ASSUME NEW n \in FailureLimits, SaveSecurity(t, n)
      PROVE  Typed'
  <2>1. config' \in LimitMin .. LimitMax
    BY <1>5, AccountsAssumption DEF SaveSecurity, Clamped
  <2> QED
    BY <1>5, <2>1, EndTyped DEF SaveSecurity, Types, Typed, TypeOK, memory, bounds, history
<1> QED
  BY <1>3, <1>4, <1>5

LEMMA AbortTypes ==
    ASSUME Types, NEW t \in Tasks, Abort(t)
    PROVE  Typed'
<1>1. unsealed' \subseteq Users /\ unshown' \subseteq Users
  BY DEF Abort, Gone, GoneCard, Types, Typed, TypeOK
<1> QED
  BY <1>1, EndTyped DEF Abort, Types, Typed, TypeOK, tables, memory, bounds

LEMMA RestartTypes ==
    ASSUME Types, Restart
    PROVE  Typed'
<1>1. unsealed' \subseteq Users /\ unshown' \subseteq Users
  BY DEF Restart, Gone, GoneCard, Types, Typed, TypeOK
<1>2. task' \in [Tasks -> Request \cup {Idle}] /\ \A j \in Tasks : Carries(task'[j])
  BY IdleCarries DEF Restart
<1>3. throttle' \in [Users -> [failures : Nat, cool : BOOLEAN]] /\ restarts' \in Nat
  BY DEF Restart, Types, Typed, TypeOK
<1>4. limit' \in LimitMin .. LimitMax /\ cache' \in [Users -> Secrets \cup {None}]
  BY AccountsAssumption DEF Restart
<1> QED
  BY <1>1, <1>2, <1>3, <1>4 DEF Restart, Types, Typed, TypeOK, tables

LEMMA WorldTypes ==
    ASSUME Types,
           \/ \E s \in SessionIds : MeetExpired(s) \/ Logout(s) \/ SessionExpires(s)
           \/ \E u \in Users : FetchKey(u) \/ WindowElapses(u)
                                  \/ \E c \in Live(u) : ChallengeExpires(u, c)
    PROVE  Typed'
<1>1. ASSUME NEW s \in SessionIds, MeetExpired(s) \/ Logout(s) \/ SessionExpires(s)
      PROVE  Typed'
  <2>1. session' \in [SessionIds -> [user : Users, generation : Nat, expired : BOOLEAN] \cup {None}]
    BY <1>1, ZenonT(30) DEF MeetExpired, Logout, SessionExpires, Types, Typed, TypeOK
  <2> QED
    BY <1>1, <2>1 DEF MeetExpired, Logout, SessionExpires, Types, Typed, TypeOK, memory, bounds, history
<1>2. ASSUME NEW u \in Users, FetchKey(u)
      PROVE  Typed'
  <2>1. account[u].service \in Secrets
    BY <1>2 DEF FetchKey, Exists, Types, Typed, TypeOK, Account
  <2>2. cache' \in [Users -> Secrets \cup {None}]
    BY <1>2, <2>1 DEF FetchKey, Types, Typed, TypeOK
  <2> QED
    BY <1>2, <2>2 DEF FetchKey, Types, Typed, TypeOK, tables, bounds, history
<1>3. ASSUME NEW u \in Users, WindowElapses(u)
      PROVE  Typed'
  <2>1. throttle' \in [Users -> [failures : Nat, cool : BOOLEAN]] /\ windows' \in Nat
    <3> DEFINE a == [throttle[u] EXCEPT !.cool = TRUE]
    <3>1. throttle' = [throttle EXCEPT ![u] = a] /\ windows' = windows + 1
      BY <1>3 DEF WindowElapses
    <3>2. a \in [failures : Nat, cool : BOOLEAN]
      BY DEF Types, Typed, TypeOK
    <3> HIDE DEF a
    <3> QED
      BY <3>1, <3>2 DEF Types, Typed, TypeOK
  <2> QED
    BY <1>3, <2>1 DEF WindowElapses, Types, Typed, TypeOK, tables, history
<1>4. ASSUME NEW u \in Users, NEW c \in Live(u), ChallengeExpires(u, c)
      PROVE  Typed'
  <2>1. c \in [id : Secrets, expired : BOOLEAN]
    BY DEF Live, Types, Typed, TypeOK
  <2>2. [c EXCEPT !.expired = TRUE] \in [id : Secrets, expired : BOOLEAN]
    BY <2>1
  <2>3. challenge' \in [Users -> SUBSET [id : Secrets, expired : BOOLEAN]]
    BY <1>4, <2>2 DEF ChallengeExpires, Types, Typed, TypeOK
  <2> QED
    BY <1>4, <2>3 DEF ChallengeExpires, Types, Typed, TypeOK, memory, bounds, history
<1> QED
  BY <1>1, <1>2, <1>3, <1>4

\* The tasks another request left alone, the rows it left in place.
LEMMA MembersStay ==
    ASSUME Types, Typed', Grows, NEW t \in Tasks, NEW x, OfMember(x, account'),
           task' = [task EXCEPT ![t] = x]
    PROVE  \A j \in Tasks : OfMember(task'[j], account')
<1>1. ASSUME NEW j \in Tasks, j # t PROVE OfMember(task[j], account')
  <2>1. OfMember(task[j], account)
    BY DEF Types
  <2>2. CASE Busy(j)
    <3>1. task[j].user \in Users
      BY <2>2, BusyTask DEF Request
    <3> QED
      BY <2>1, <3>1, NoRowIsNone DEF Grows, OfMember
  <2>3. CASE ~Busy(j)
    BY <2>3 DEF Busy, OfMember, Kinds
  <2> QED
    BY <2>2, <2>3
<1>2. task'[t] = x /\ \A j \in Tasks \ {t} : task'[j] = task[j]
  BY DEF Types, Typed, TypeOK
<1> QED
  BY <1>1, <1>2

LEMMA HandleMembers ==
    ASSUME Types, Typed', Grows, NEW t \in Tasks, Handle(t)
    PROVE  \A j \in Tasks : OfMember(task'[j], account')
<1> DEFINE r == task[t]
<1>0. Busy(t)
  BY DEF Handle, Authenticate, RecordFailure, RecordSuccess, CreateSession, ServiceSeal, CreateLocal,
     ReadRecord, WritePassword, PurgeSessions, WriteRecovery, TotpEnroll, TotpDisable, StartEnrollment,
     ConsumeChallenge, StorePasskey, RemovePasskey, MintKey, RevokeKey, SaveSecurity, Abort, Writes, At, Busy
<1>1. r \in Request /\ r.user \in Users /\ Carries(r)
  BY <1>0, BusyTask DEF Request
<1>2. OfMember(r, account) /\ (account[r.user] # None => account'[r.user] # None)
  BY <1>1, NoRowIsNone DEF Types, Grows
<1>3. ASSUME NEW x, task' = [task EXCEPT ![t] = x], OfMember(x, account')
      PROVE  \A j \in Tasks : OfMember(task'[j], account')
  BY <1>3, MembersStay
<1>4. CASE End(t)
  <2>1. OfMember(Idle, account')
    BY DEF OfMember, Idle, Kinds
  <2> QED
    BY <1>3, <1>4, <2>1 DEF End
<1>5. CASE Authenticate(t)
  <2> DEFINE x == [r EXCEPT !.pc = "fail"]
             y == [r EXCEPT !.pc = "succeed", !.secret = account[r.user].seal.inPassword]
  <2>1. \/ task' = [task EXCEPT ![t] = x]
        \/ End(t)
        \/ account[r.user] # None /\ task' = [task EXCEPT ![t] = y]
    BY <1>5 DEF Authenticate, Goto, Known, Opens
  <2>2. r.op = "login"
    BY <1>5 DEF Authenticate, At
  <2>3. OfMember(x, account')
    BY <1>1, <2>2 DEF OfMember, Request, Kinds
  <2>4. account[r.user] # None => OfMember(y, account')
    BY <1>1, <1>2 DEF OfMember, Request
  <2> HIDE DEF x, y
  <2> QED
    BY <1>3, <1>4, <2>1, <2>3, <2>4
<1>6. CASE RecordSuccess(t) \/ \E s \in SessionIds : CreateSession(t, s)
  <2>1. PICK pc : task' = [task EXCEPT ![t] = [r EXCEPT !.pc = pc]] /\ r.op = "login"
                    /\ r.pc \in {"succeed", "session"}
    BY <1>6 DEF RecordSuccess, CreateSession, Goto, At
  <2> DEFINE x == [r EXCEPT !.pc = pc]
  <2>2. OfMember(x, account')
    BY <1>1, <1>2, <2>1 DEF OfMember, Request
  <2> HIDE DEF x
  <2>3. task' = [task EXCEPT ![t] = x]
    BY <2>1 DEF x
  <2> QED
    BY <1>3, <2>2, <2>3
<1>7. ASSUME NEW role \in {"admin", "user"}, CreateLocal(t, role)
      PROVE  \A j \in Tasks : OfMember(task'[j], account')
  <2> DEFINE u == r.other
             new == NewAccount(r.password, role, minted + 1)
             x == [r EXCEPT !.pc = "seal", !.user = u, !.record = new.seal]
  <2>1. CASE Exists(u)
    BY <1>4, <1>7, <2>1 DEF CreateLocal
  <2>2. CASE ~Exists(u)
    <3>1. account' = [account EXCEPT ![u] = new] /\ task' = [task EXCEPT ![t] = x] /\ r.pc = "insert"
      BY <1>7, <2>2 DEF CreateLocal
    <3>2. u \in Users
      BY <1>0, <1>1, <3>1, BusyTask DEF Carries
    <3>3. new # None
      <4>1. new = [hash |-> r.password, seal |-> NewSeal(r.password, minted + 1), service |-> None,
                   totp |-> None, role |-> role]
        BY DEF NewAccount
      <4>2. new \in Account
        <5>1. r.password \in Passwords /\ minted \in Nat
          BY <1>0, <1>1, <3>1, BusyTask DEF Carries, Types, Typed, TypeOK
        <5>2. NewSeal(r.password, minted + 1) \in Seal
          BY <5>1 DEF NewSeal, Seal, Secrets
        <5> QED
          BY <4>1, <5>1, <5>2 DEF Account
      <4> QED
        BY <4>2, NoRowIsNone
    <3> HIDE DEF new
    <3>4. x.user = u
      BY <1>1 DEF Request
    <3> HIDE DEF x
    <3>5. account'[u] # None
      BY <3>1, <3>2, <3>3 DEF Types, Typed, TypeOK
    <3>6. OfMember(x, account')
      BY <3>4, <3>5 DEF OfMember
    <3> QED
      BY <1>3, <3>1, <3>6
  <2> QED
    BY <2>1, <2>2
<1>8. CASE ReadRecord(t) \/ WritePassword(t) \/ WriteRecovery(t)
  <2>1. r.op \in {"change", "rotate"}
    BY <1>8 DEF ReadRecord, WritePassword, WriteRecovery, At
  <2>2. account'[r.user] # None
    BY <1>2, <2>1 DEF OfMember, Kinds
  <2>3. PICK x : (task' = [task EXCEPT ![t] = x] /\ x.user = r.user) \/ End(t)
    <3>2. CASE ReadRecord(t)
      <4>1. PICK v : task' = [task EXCEPT ![t] = [r EXCEPT !.record = v, !.pc = "write"]] \/ End(t)
        BY <3>2 DEF ReadRecord
      <4> DEFINE y == [r EXCEPT !.record = v, !.pc = "write"]
      <4>2. y.user = r.user
        BY <1>1 DEF Request
      <4>3. task' = [task EXCEPT ![t] = y] \/ End(t)
        BY <4>1
      <4> HIDE DEF y
      <4> QED
        BY <4>2, <4>3
    <3>3. CASE WritePassword(t)
      <4>1. PICK v : task' = [task EXCEPT ![t] = [r EXCEPT !.pc = "purge", !.generation = v]]
        BY <3>3 DEF WritePassword
      <4> DEFINE y == [r EXCEPT !.pc = "purge", !.generation = v]
      <4>2. y.user = r.user
        BY <1>1 DEF Request
      <4>3. task' = [task EXCEPT ![t] = y] \/ End(t)
        BY <4>1
      <4> HIDE DEF y
      <4> QED
        BY <4>2, <4>3
    <3>4. CASE WriteRecovery(t)
      <4>1. PICK v : task' = [task EXCEPT ![t] = [r EXCEPT !.pc = "seal", !.record = v]] \/ End(t)
        BY <3>4 DEF WriteRecovery
      <4> DEFINE y == [r EXCEPT !.pc = "seal", !.record = v]
      <4>2. y.user = r.user
        BY <1>1 DEF Request
      <4>3. task' = [task EXCEPT ![t] = y] \/ End(t)
        BY <4>1
      <4> HIDE DEF y
      <4> QED
        BY <4>2, <4>3
    <3> QED
      BY <1>8, <3>2, <3>3, <3>4
  <2>4. OfMember(x, account') \/ End(t)
    BY <2>2, <2>3 DEF OfMember
  <2> QED
    BY <1>3, <1>4, <2>3, <2>4
<1>9. CASE ConsumeChallenge(t)
  <2>1. r.op = "finish"
    BY <1>9 DEF ConsumeChallenge, At
  <2>2. End(t) \/ task' = [task EXCEPT ![t] = [r EXCEPT !.pc = "store", !.secret = Newest(r.user).id]]
    BY <1>9 DEF ConsumeChallenge
  <2> DEFINE x == [r EXCEPT !.pc = "store", !.secret = Newest(r.user).id]
  <2>3. x.op = "finish"
    BY <1>1, <2>1 DEF Request
  <2> HIDE DEF x
  <2>4. OfMember(x, account')
    BY <2>3 DEF OfMember
  <2> QED
    BY <1>3, <1>4, <2>2, <2>4 DEF x
<1> QED
  BY <1>4, <1>5, <1>6, <1>7, <1>8, <1>9
  DEF Handle, RecordFailure, ServiceSeal, PurgeSessions, TotpEnroll, TotpDisable, StartEnrollment,
      StorePasskey, RemovePasskey, MintKey, RevokeKey, SaveSecurity, Abort

LEMMA ArriveMembers ==
    ASSUME Types, Typed', Grows, NEW t \in Tasks, Arrive(t)
    PROVE  \A j \in Tasks : OfMember(task'[j], account')
<1>1. ASSUME NEW op, NEW pc, NEW u, NEW p, NEW q, Start(t, op, pc, u, p, q),
             \/ op \in {"begin", "finish"}
             \/ account'[u] # None
             \/ op = "login" /\ pc = "authenticate"
             \/ op = "setup" /\ pc = "insert"
      PROVE  \A j \in Tasks : OfMember(task'[j], account')
  <2> DEFINE x == [op |-> op, pc |-> pc, user |-> u, password |-> p, other |-> q,
                   record |-> None, secret |-> None, generation |-> 0]
  <2>1. task' = [task EXCEPT ![t] = x]
    BY <1>1 DEF Start
  <2>2. OfMember(x, account')
    BY <1>1 DEF OfMember, Kinds
  <2> HIDE DEF x
  <2> QED
    BY <2>1, <2>2, MembersStay
<1>2. ASSUME NEW s \in SessionIds, NEW token, NEW op, NEW p, NEW q, Admit(t, s, token, op, p, q)
      PROVE  \A j \in Tasks : OfMember(task'[j], account')
  BY <1>1, <1>2 DEF Admit, Permitted, Exists, tables
<1>3. ASSUME NEW k \in KeyIds, NEW op, AdmitBearer(t, k, op)
      PROVE  \A j \in Tasks : OfMember(task'[j], account')
  BY <1>1, <1>3 DEF AdmitBearer
<1>4. ASSUME NEW u, NEW p, NEW q, SetupStart(t, u, p) \/ LoginStart(t, u, p, q)
      PROVE  \A j \in Tasks : OfMember(task'[j], account')
  BY <1>1, <1>4 DEF SetupStart, LoginStart
<1> QED
  BY <1>2, <1>3, <1>4 DEF Arrive

\* No step but these touches the challenges, and none takes a number back.
LEMMA NumberedStep ==
    ASSUME Types, Typed', [Next]_vars
    PROVE  Numbered'
<1>0. minted \in Nat
  BY DEF Types, Typed, TypeOK
<1>1. CASE challenge' = challenge /\ (minted' = minted \/ minted' = minted + 1 \/ minted' = minted + 2)
  BY <1>0, <1>1 DEF Types, Numbered
<1>2. ASSUME NEW t \in Tasks, StartEnrollment(t) PROVE Numbered'
  <2> DEFINE u == task[t].user
  <2>1. /\ challenge' = [challenge EXCEPT ![u] = Live(u) \cup {[id |-> minted + 1, expired |-> FALSE]}]
        /\ minted' = minted + 1
    BY <1>2 DEF StartEnrollment
  <2>2. \A v \in Users : challenge'[v] \subseteq challenge[v] \cup {[id |-> minted + 1, expired |-> FALSE]}
    BY <2>1 DEF Live, Types, Typed, TypeOK
  <2>3. \A v \in Users : \A c \in challenge[v] : c.id \in 0 .. minted + 1
    BY <1>0 DEF Types, Numbered
  <2> QED
    BY <1>0, <2>1, <2>2, <2>3 DEF Numbered
<1>3. ASSUME NEW t \in Tasks, ConsumeChallenge(t) PROVE Numbered'
  <2>1. minted' = minted /\ \A v \in Users : challenge'[v] \subseteq challenge[v]
    <3> DEFINE u == task[t].user
    <3>1. /\ minted' = minted /\ challenge = [v \in Users |-> challenge[v]]
          /\ challenge' = challenge \/ challenge' = [challenge EXCEPT ![u] = @ \ {Newest(u)}]
      BY <1>3 DEF ConsumeChallenge, bounds, Types, Typed, TypeOK
    <3>2. CASE challenge' = challenge
      BY <3>1, <3>2
    <3>3. CASE challenge' = [challenge EXCEPT ![u] = @ \ {Newest(u)}]
      <4> HIDE DEF u
      <4>1. ASSUME NEW v \in Users PROVE challenge'[v] \subseteq challenge[v]
        BY <3>1, <3>3
      <4> QED
        BY <3>1, <4>1
    <3> QED
      BY <3>1, <3>2, <3>3
  <2> QED
    BY <2>1 DEF Types, Numbered
<1>4. ASSUME NEW u \in Users, NEW c \in Live(u), ChallengeExpires(u, c) PROVE Numbered'
  <2> DEFINE d == [c EXCEPT !.expired = TRUE]
  <2>1. c \in challenge[u] /\ c \in [id : Secrets, expired : BOOLEAN]
    BY DEF Live, Types, Typed, TypeOK
  <2>2. d.id = c.id
    BY <2>1
  <2>3. minted' = minted /\ challenge' = [challenge EXCEPT ![u] = (@ \ {c}) \cup {d}]
    BY <1>4 DEF ChallengeExpires, bounds
  <2> HIDE DEF d
  <2>4. \A v \in Users : challenge'[v] \subseteq challenge[v] \cup (IF v = u THEN {d} ELSE {})
    BY <2>3 DEF Types, Typed, TypeOK
  <2> QED
    BY <2>1, <2>2, <2>3, <2>4 DEF Types, Numbered
<1>5. ASSUME NEW t \in Tasks, Arrive(t)
      PROVE  challenge' = challenge /\ minted' = minted
  BY <1>5 DEF Arrive, Admit, AdmitBearer, SetupStart, LoginStart, tables
<1>6. ASSUME NEW t \in Tasks, Handle(t), ~StartEnrollment(t), ~ConsumeChallenge(t)
      PROVE  challenge' = challenge /\ (minted' = minted \/ minted' = minted + 1 \/ minted' = minted + 2)
  BY <1>6 DEF Handle, Authenticate, RecordFailure, RecordSuccess, CreateSession, ServiceSeal, CreateLocal,
     ReadRecord, WritePassword, PurgeSessions, WriteRecovery, TotpEnroll, TotpDisable,
     StorePasskey, RemovePasskey, MintKey, RevokeKey, SaveSecurity, Abort, tables, bounds
<1>7. CASE \/ Restart
           \/ \E s \in SessionIds : MeetExpired(s) \/ Logout(s) \/ SessionExpires(s)
           \/ \E u \in Users : FetchKey(u) \/ WindowElapses(u)
           \/ UNCHANGED vars
  BY <1>1, <1>7 DEF Restart, MeetExpired, Logout, SessionExpires, FetchKey, WindowElapses, vars, tables, bounds
<1> QED
  BY <1>1, <1>2, <1>3, <1>4, <1>5, <1>6, <1>7 DEF Next

\* The two halves of Handle: the steps that write a row of the users table,
\* and those that leave the table alone.
LEMMA HandleTypes ==
    ASSUME Types, NEW t \in Tasks, Handle(t)
    PROVE  Typed' /\ Grows
<1>1. CASE \/ \E written \in BOOLEAN : ServiceSeal(t, written)
           \/ \E role \in {"admin", "user"} : CreateLocal(t, role)
           \/ WritePassword(t) \/ WriteRecovery(t) \/ TotpEnroll(t) \/ TotpDisable(t)
  BY <1>1, SealTypes, CreateTypes, PasswordTypes, RotateTypes, TotpTypes
<1>2. CASE account' = account
  <2>1. Grows
    BY <1>2 DEF Grows, Types, Typed, TypeOK
  <2>2. Typed'
    BY <1>1, LoginTypes, SessionTypes, ReadTypes, PurgeTypes, PasskeyTypes, SettingTypes, AbortTypes DEF Handle
  <2> QED
    BY <2>1, <2>2
<1>3. account' = account \/ (/\ \/ \E written \in BOOLEAN : ServiceSeal(t, written)
                                \/ \E role \in {"admin", "user"} : CreateLocal(t, role)
                                \/ WritePassword(t) \/ WriteRecovery(t) \/ TotpEnroll(t) \/ TotpDisable(t))
  BY DEF Handle, Authenticate, RecordFailure, RecordSuccess, CreateSession,
     ReadRecord, PurgeSessions, StartEnrollment, ConsumeChallenge,
     StorePasskey, RemovePasskey, MintKey, RevokeKey, SaveSecurity, Abort, tables
<1> QED
  BY <1>1, <1>2, <1>3

LEMMA NextTypes == Types /\ [Next]_vars => Types' /\ Grows
<1> SUFFICES ASSUME Types, [Next]_vars PROVE Types' /\ Grows
  OBVIOUS
<1>1. ASSUME NEW t \in Tasks, Handle(t) PROVE Types' /\ Grows
  <2>1. Typed' /\ Grows
    BY <1>1, HandleTypes
  <2>2. \A j \in Tasks : OfMember(task'[j], account')
    BY <1>1, <2>1, HandleMembers
  <2>3. Numbered'
    BY <2>1, NumberedStep
  <2> QED
    BY <2>1, <2>2, <2>3 DEF Types
<1>2. ASSUME NEW t \in Tasks, Arrive(t) PROVE Types' /\ Grows
  <2>1. Typed'
    BY <1>2, ArriveTypes
  <2>2. Grows
    BY <1>2 DEF Arrive, Admit, AdmitBearer, SetupStart, LoginStart, tables, Grows, Types, Typed, TypeOK
  <2>3. \A j \in Tasks : OfMember(task'[j], account')
    BY <1>2, <2>1, <2>2, ArriveMembers
  <2>4. Numbered'
    BY <2>1, NumberedStep
  <2> QED
    BY <2>1, <2>2, <2>3, <2>4 DEF Types
<1>3. CASE Restart
  <2>1. Typed'
    BY <1>3, RestartTypes
  <2>2. account' = account /\ task' = [t \in Tasks |-> Idle]
    BY <1>3 DEF Restart, tables
  <2>3. Grows
    BY <2>2 DEF Grows, Types, Typed, TypeOK
  <2>4. \A j \in Tasks : OfMember(task'[j], account')
    BY <2>2 DEF OfMember, Idle, Kinds
  <2>5. Numbered'
    BY <2>1, NumberedStep
  <2> QED
    BY <2>1, <2>3, <2>4, <2>5 DEF Types
<1>4. CASE \/ \E s \in SessionIds : MeetExpired(s) \/ Logout(s) \/ SessionExpires(s)
           \/ \E u \in Users : FetchKey(u) \/ WindowElapses(u)
                                  \/ \E c \in Live(u) : ChallengeExpires(u, c)
           \/ UNCHANGED vars
  <2>1. Typed'
    BY <1>4, WorldTypes DEF vars, tables, memory, bounds, history, Types, Typed, TypeOK
  <2>2. account' = account /\ task' = task
    BY <1>4 DEF MeetExpired, Logout, SessionExpires, FetchKey, WindowElapses, ChallengeExpires, vars, tables
  <2>3. Grows
    BY <2>2 DEF Grows, Types, Typed, TypeOK
  <2>4. \A j \in Tasks : OfMember(task'[j], account')
    BY <2>2 DEF Types
  <2>5. Numbered'
    BY <2>1, NumberedStep
  <2> QED
    BY <2>1, <2>3, <2>4, <2>5 DEF Types
<1> QED
  BY <1>1, <1>2, <1>3, <1>4 DEF Next

LEMMA InitTypes == Init => Types
<1> SUFFICES ASSUME Init PROVE Types
  OBVIOUS
<1>1. Typed
  BY InitTyped
<1>2. \A t \in Tasks : OfMember(task[t], account)
  BY DEF Init, OfMember, Idle, Kinds
<1>3. Numbered
  BY DEF Init, Numbered
<1> QED
  BY <1>1, <1>2, <1>3 DEF Types

\* Every row, request and counter has its type in every reachable state: in
\* particular a seal is never half written and no row of a user disappears.
THEOREM TypeCorrect == Spec => []TypeOK
<1>1. Init => Types
  BY InitTypes
<1>2. Types /\ [Next]_vars => Types'
  BY NextTypes
<1>3. Types => TypeOK
  BY DEF Types, Typed
<1> QED
  BY <1>1, <1>2, <1>3, PTL DEF Spec

-----------------------------------------------------------------------------
(* Where a request can have got to in one step *)

LEMMA OneMoves ==
    ASSUME Types, NEW t \in Tasks, Arrive(t) \/ Handle(t), NEW j \in Tasks, j # t
    PROVE  task'[j] = task[j]
<1>1. CASE Arrive(t)
  BY <1>1 DEF Arrive, Admit, AdmitBearer, SetupStart, LoginStart, Start, Types, Typed, TypeOK
<1>2. CASE Handle(t)
  <2>1. task = [i \in Tasks |-> task[i]]
    BY DEF Types, Typed, TypeOK
  <2> QED
    BY <1>2, <2>1 DEF Handle, Authenticate, RecordFailure, RecordSuccess, CreateSession, ServiceSeal, CreateLocal,
     ReadRecord, WritePassword, PurgeSessions, WriteRecovery, TotpEnroll, TotpDisable, StartEnrollment,
     ConsumeChallenge, StorePasskey, RemovePasskey, MintKey, RevokeKey, SaveSecurity, Abort, Goto, End
<1> QED
  BY <1>1, <1>2

LEMMA Arrival ==
    ASSUME Types, NEW j \in Tasks, Arrive(j)
    PROVE  LET s == task'[j]
           IN  /\ s.pc \in {"read", "write", "consume", "list", "insert", "authenticate"}
               /\ s.op \in {"change", "rotate"} => s.pc = "read"
               /\ s.op = "login" <=> s.pc = "authenticate"
               /\ task[j].op = "idle"
<1>1. ASSUME NEW op, NEW pc, NEW u, NEW p, NEW q, Start(j, op, pc, u, p, q)
      PROVE  task'[j].op = op /\ task'[j].pc = pc /\ task[j].op = "idle"
  BY <1>1 DEF Start, Busy, Types, Typed, TypeOK
<1>2. ASSUME NEW s, NEW token, NEW op \in Kinds, NEW p, NEW q, Admit(j, s, token, op, p, q)
      PROVE  task'[j].op = op /\ task'[j].pc = SignedIn[op] /\ task[j].op = "idle"
  BY <1>1, <1>2 DEF Admit
<1>3. ASSUME NEW k, NEW op \in Kinds, AdmitBearer(j, k, op)
      PROVE  task'[j].op = op /\ task'[j].pc = SignedIn[op] /\ task[j].op = "idle"
  BY <1>1, <1>3 DEF AdmitBearer
<1>4. ASSUME NEW op \in Kinds, task'[j].op = op, task'[j].pc = SignedIn[op]
      PROVE  /\ task'[j].pc \in {"read", "write", "consume", "list", "insert"}
             /\ task'[j].op \in {"change", "rotate"} => task'[j].pc = "read"
             /\ task'[j].op # "login"
  BY <1>4, SignedInKinds DEF Kinds
<1>5. ASSUME NEW u, NEW p, NEW q, SetupStart(j, u, p) \/ LoginStart(j, u, p, q)
      PROVE  /\ task[j].op = "idle"
             /\ \/ task'[j].op = "setup" /\ task'[j].pc = "insert"
                \/ task'[j].op = "login" /\ task'[j].pc = "authenticate"
  BY <1>1, <1>5 DEF SetupStart, LoginStart
<1> QED
  BY <1>2, <1>3, <1>4, <1>5, SignedInKinds DEF Arrive

\* The statements after which a request goes on, with what it then has.
GoesOn(j) ==
    LET r == task[j]
        s == task'[j]
    IN  /\ s.op = r.op
        /\ \/ /\ Authenticate(j) /\ s.op = "login" /\ s.user = r.user /\ r.pc = "authenticate"
              /\ \/ s.pc = "fail"
                 \/ /\ s.pc = "succeed" /\ account[r.user] # None
                    /\ s.secret = account[r.user].seal.inPassword
           \/ /\ RecordSuccess(j) \/ \E sid \in SessionIds : CreateSession(j, sid)
              /\ s.op = "login" /\ s.user = r.user /\ s.secret = r.secret
              /\ r.pc \in {"succeed", "session"} /\ s.pc \in {"session", "seal"}
           \/ /\ \E role \in {"admin", "user"} :
                    /\ CreateLocal(j, role) /\ ~Exists(s.user)
                    /\ account' = [account EXCEPT ![s.user] = NewAccount(r.password, role, minted + 1)]
                    /\ s.record = NewSeal(r.password, minted + 1)
              /\ s.op \in {"create", "setup"} /\ s.user = r.other /\ s.user \in Users /\ s.pc = "seal"
              /\ current' = [current EXCEPT ![s.user] = {minted + 2}]
           \/ /\ ReadRecord(j) /\ s.op \in {"change", "rotate"} /\ s.user = r.user /\ s.pc = "write"
              /\ s.record = account[r.user].seal
           \/ /\ WritePassword(j) /\ s.op = "change" /\ s.user = r.user /\ s.pc = "purge"
              /\ s.generation = generation[r.user] + 1
           \/ /\ WriteRecovery(j) /\ s.op = "rotate" /\ s.user = r.user /\ s.pc = "seal"
              /\ Matches(r.user, r.record) /\ s.record = Rotated(j)
           \/ /\ ConsumeChallenge(j) /\ s.op = "finish" /\ s.user = r.user /\ s.pc = "store"
              /\ Live(r.user) # {} /\ s.secret = Newest(r.user).id

LEMMA HandledTask ==
    ASSUME Types, NEW j \in Tasks, Handle(j)
    PROVE  task'[j] = Idle \/ GoesOn(j)
<1> DEFINE r == task[j]
           s == task'[j]
<1>0. Busy(j)
  BY DEF Handle, Authenticate, RecordFailure, RecordSuccess, CreateSession, ServiceSeal, CreateLocal,
     ReadRecord, WritePassword, PurgeSessions, WriteRecovery, TotpEnroll, TotpDisable, StartEnrollment,
     ConsumeChallenge, StorePasskey, RemovePasskey, MintKey, RevokeKey, SaveSecurity, Abort, Writes, At, Busy
<1>1. r \in Request /\ Carries(r) /\ r.op \in Kinds \cup {"login", "setup"}
  BY <1>0, BusyTask
<1>2. ASSUME NEW x, task' = [task EXCEPT ![j] = x] PROVE s = x
  BY <1>2 DEF Types, Typed, TypeOK
<1>3. CASE End(j)
  BY <1>2, <1>3 DEF End
<1>4. CASE Authenticate(j)
  <2> DEFINE x == [r EXCEPT !.pc = "fail"]
             y == [r EXCEPT !.pc = "succeed", !.secret = account[r.user].seal.inPassword]
  <2>1. \/ task' = [task EXCEPT ![j] = x]
        \/ End(j)
        \/ account[r.user] # None /\ task' = [task EXCEPT ![j] = y]
    BY <1>4 DEF Authenticate, Goto, Known, Opens
  <2>2. r.op = "login" /\ r.pc = "authenticate"
    BY <1>4 DEF Authenticate, At
  <2>3. /\ x.op = "login" /\ x.user = r.user /\ x.pc = "fail"
        /\ y.op = "login" /\ y.user = r.user /\ y.pc = "succeed" /\ y.secret = account[r.user].seal.inPassword
    BY <1>1, <2>2 DEF Request
  <2> HIDE DEF x, y
  <2> QED
    BY <1>2, <1>3, <1>4, <2>1, <2>2, <2>3 DEF GoesOn
<1>5. CASE RecordSuccess(j) \/ \E sid \in SessionIds : CreateSession(j, sid)
  <2>1. PICK pc \in {"session", "seal"} : /\ task' = [task EXCEPT ![j] = [r EXCEPT !.pc = pc]] /\ r.op = "login"
                                          /\ r.pc \in {"succeed", "session"}
    BY <1>5 DEF RecordSuccess, CreateSession, Goto, At
  <2> DEFINE x == [r EXCEPT !.pc = pc]
  <2>2. x.op = r.op /\ x.user = r.user /\ x.secret = r.secret /\ x.pc = pc
    BY <1>1 DEF Request
  <2>3. task' = [task EXCEPT ![j] = x]
    BY <2>1
  <2> HIDE DEF x
  <2>4. s = x
    BY <1>2, <2>3
  <2> QED
    BY <1>5, <2>1, <2>2, <2>4 DEF GoesOn
<1>6. ASSUME NEW role \in {"admin", "user"}, CreateLocal(j, role)
      PROVE  s = Idle \/ GoesOn(j)
  <2> DEFINE u == r.other
             new == NewAccount(r.password, role, minted + 1)
             x == [r EXCEPT !.pc = "seal", !.user = u, !.record = new.seal]
  <2>1. CASE Exists(u)
    BY <1>3, <1>6, <2>1 DEF CreateLocal
  <2>2. CASE ~Exists(u)
    <3>1. /\ account' = [account EXCEPT ![u] = new] /\ task' = [task EXCEPT ![j] = x] /\ r.pc = "insert"
          /\ current' = [current EXCEPT ![u] = {new.seal.recovery}]
      BY <1>6, <2>2 DEF CreateLocal
    <3>2. r.op \in {"create", "setup"} /\ u \in Users
      BY <1>1, <3>1 DEF Carries
    <3>3. /\ new.seal = NewSeal(r.password, minted + 1)
          /\ new.seal.recovery = minted + 2
      <4>1. minted \in Nat
        BY DEF Types, Typed, TypeOK
      <4>2. new.seal = NewSeal(r.password, minted + 1)
        BY DEF NewAccount
      <4>3. NewSeal(r.password, minted + 1).recovery = minted + 1 + 1
        BY DEF NewSeal
      <4> HIDE DEF new
      <4> QED
        BY <4>1, <4>2, <4>3
    <3>4. x.op = r.op /\ x.pc = "seal" /\ x.user = u /\ x.record = new.seal
      <4> HIDE DEF new, u
      <4> QED
        BY <1>1 DEF Request
    <3> HIDE DEF x
    <3>5. s = x
      BY <1>2, <3>1
    <3>6. account' = [account EXCEPT ![s.user] = NewAccount(r.password, role, minted + 1)] /\ s.user = r.other
      BY <3>1, <3>4, <3>5
    <3> HIDE DEF new
    <3> QED
      BY <1>6, <2>2, <3>1, <3>2, <3>3, <3>4, <3>5, <3>6 DEF GoesOn
  <2> QED
    BY <2>1, <2>2
<1>7. CASE ReadRecord(j)
  <2> DEFINE x == [r EXCEPT !.record = account[r.user].seal, !.pc = "write"]
  <2>1. (End(j) \/ task' = [task EXCEPT ![j] = x]) /\ r.op \in {"change", "rotate"}
    BY <1>7 DEF ReadRecord
  <2>2. x.op = r.op /\ x.user = r.user /\ x.pc = "write" /\ x.record = account[r.user].seal
    BY <1>1 DEF Request
  <2> HIDE DEF x
  <2> QED
    BY <1>2, <1>3, <1>7, <2>1, <2>2 DEF GoesOn
<1>8. CASE WritePassword(j)
  <2> DEFINE n == generation[r.user] + 1
             x == [r EXCEPT !.pc = "purge", !.generation = n]
  <2>1. task' = [task EXCEPT ![j] = x] /\ r.op = "change"
    BY <1>8 DEF WritePassword, At
  <2> HIDE DEF n
  <2>2. x.op = r.op /\ x.user = r.user /\ x.pc = "purge" /\ x.generation = n
    BY <1>1 DEF Request
  <2> HIDE DEF x
  <2>3. s = x
    BY <1>2, <2>1
  <2> QED
    BY <1>8, <2>1, <2>2, <2>3 DEF GoesOn, n
<1>9. CASE WriteRecovery(j)
  <2> DEFINE x == [r EXCEPT !.pc = "seal", !.record = Rotated(j)]
  <2>1. (End(j) \/ (Matches(r.user, r.record) /\ task' = [task EXCEPT ![j] = x])) /\ r.op = "rotate"
    BY <1>9 DEF WriteRecovery, At
  <2>2. x.op = r.op /\ x.user = r.user /\ x.pc = "seal" /\ x.record = Rotated(j)
    BY <1>1 DEF Request
  <2> HIDE DEF x
  <2> QED
    BY <1>2, <1>3, <1>9, <2>1, <2>2 DEF GoesOn
<1>10. CASE ConsumeChallenge(j)
  <2> DEFINE x == [r EXCEPT !.pc = "store", !.secret = Newest(r.user).id]
  <2>1. (End(j) \/ (Live(r.user) # {} /\ task' = [task EXCEPT ![j] = x])) /\ r.op = "finish"
    BY <1>10 DEF ConsumeChallenge, At
  <2>2. x.op = r.op /\ x.user = r.user /\ x.pc = "store" /\ x.secret = Newest(r.user).id
    BY <1>1 DEF Request
  <2> HIDE DEF x
  <2> QED
    BY <1>2, <1>3, <1>10, <2>1, <2>2 DEF GoesOn
<1> QED
  BY <1>3, <1>4, <1>5, <1>6, <1>7, <1>8, <1>9, <1>10
  DEF Handle, RecordFailure, ServiceSeal, PurgeSessions, TotpEnroll, TotpDisable, StartEnrollment,
      StorePasskey, RemovePasskey, MintKey, RevokeKey, SaveSecurity, Abort

LEMMA Reaches ==
    ASSUME Types, [Next]_vars, NEW j \in Tasks, task'[j] # task[j]
    PROVE  task'[j] = Idle \/ Arrive(j) \/ GoesOn(j)
<1>1. CASE \E t \in Tasks : Arrive(t) \/ Handle(t)
  BY <1>1, OneMoves, HandledTask
<1>2. CASE Restart
  BY <1>2 DEF Restart
<1>3. CASE \/ \E s \in SessionIds : MeetExpired(s) \/ Logout(s) \/ SessionExpires(s)
           \/ \E u \in Users : FetchKey(u) \/ WindowElapses(u)
                                  \/ \E c \in Live(u) : ChallengeExpires(u, c)
           \/ UNCHANGED vars
  BY <1>3 DEF MeetExpired, Logout, SessionExpires, FetchKey, WindowElapses, ChallengeExpires, vars
<1> QED
  BY <1>1, <1>2, <1>3 DEF Next

-----------------------------------------------------------------------------
(* What a step leaves alone *)

LEMMA ArriveFrame ==
    ASSUME NEW t, Arrive(t)
    PROVE  UNCHANGED <<tables, throttle, cache, minted, windows, generation, reported, cards, current,
                       unshown, unsealed>>
BY DEF Arrive, Admit, AdmitBearer, SetupStart, LoginStart, memory, history

\* The steps of the world outside the requests.
World ==
    \/ \E s \in SessionIds : MeetExpired(s) \/ Logout(s) \/ SessionExpires(s)
    \/ \E u \in Users : FetchKey(u) \/ WindowElapses(u)
                           \/ \E c \in Live(u) : ChallengeExpires(u, c)
    \/ Restart
    \/ UNCHANGED vars

LEMMA WorldFrame ==
    ASSUME World
    PROVE  UNCHANGED <<account, passkey, minted, generation, reported, cards, current>>
<1>1. ASSUME NEW s, MeetExpired(s) \/ Logout(s) \/ SessionExpires(s)
      PROVE  UNCHANGED <<account, passkey, minted, generation, reported, cards, current>>
  BY <1>1 DEF MeetExpired, Logout, SessionExpires, bounds, history
<1>2. ASSUME NEW u, FetchKey(u) \/ WindowElapses(u)
      PROVE  UNCHANGED <<account, passkey, minted, generation, reported, cards, current>>
  BY <1>2 DEF FetchKey, WindowElapses, bounds, history, tables
<1>3. ASSUME NEW u, NEW c, ChallengeExpires(u, c)
      PROVE  UNCHANGED <<account, passkey, minted, generation, reported, cards, current>>
  BY <1>3 DEF ChallengeExpires, bounds, history
<1>4. CASE Restart
  BY <1>4 DEF Restart, tables
<1>5. CASE UNCHANGED vars
  BY <1>5 DEF vars, tables, bounds, history
<1> QED
  BY <1>1, <1>2, <1>3, <1>4, <1>5 DEF World

LEMMA ThreeKinds == [Next]_vars => World \/ \E t \in Tasks : Arrive(t) \/ Handle(t)
BY DEF Next, World

-----------------------------------------------------------------------------
(* A reported password change ends every older session *)

\* A change that is about to be reported has been counted.
Counted(r, gen) == r.op = "change" /\ r.pc = "purge" => r.generation <= gen[r.user]

SessionInv ==
    /\ ChangeEndsSessions
    /\ \A u \in Users : reported[u] <= generation[u]
    /\ \A t \in Tasks : Counted(task[t], generation)

LEMMA GenerationSteps ==
    ASSUME Types, [Next]_vars
    PROVE  \A u \in Users : generation'[u] \in Nat /\ generation[u] \in Nat /\ generation'[u] >= generation[u]
<1>1. ASSUME NEW t \in Tasks, WritePassword(t)
      PROVE  \A u \in Users : generation'[u] >= generation[u]
  BY <1>1 DEF WritePassword, Types, Typed, TypeOK
<1>2. (\E t \in Tasks : WritePassword(t)) \/ generation' = generation
  <2>1. ASSUME NEW t \in Tasks, Handle(t)
        PROVE  WritePassword(t) \/ generation' = generation
    BY <2>1 DEF Handle, Authenticate, RecordFailure, RecordSuccess, CreateSession, ServiceSeal, CreateLocal,
       ReadRecord, PurgeSessions, WriteRecovery, TotpEnroll, TotpDisable, StartEnrollment,
       ConsumeChallenge, StorePasskey, RemovePasskey, MintKey, RevokeKey, SaveSecurity, Abort, history
  <2> QED
    BY <2>1, ThreeKinds, ArriveFrame, WorldFrame
<1>3. Types'
  BY NextTypes
<1>4. \A u \in Users : generation'[u] \in Nat /\ generation[u] \in Nat
  BY <1>3 DEF Types, Typed, TypeOK
<1> QED
  BY <1>1, <1>2, <1>4

LEMMA NextSessions == Types /\ SessionInv /\ [Next]_vars => SessionInv'
<1> SUFFICES ASSUME Types, SessionInv, [Next]_vars PROVE SessionInv'
  OBVIOUS
<1>1. \A u \in Users : generation'[u] \in Nat /\ generation[u] \in Nat /\ generation'[u] >= generation[u]
  BY GenerationSteps
<1>2. Types'
  BY NextTypes
<1>3. ASSUME NEW t \in Tasks PROVE Counted(task'[t], generation')
  <2> SUFFICES ASSUME task'[t].op = "change", task'[t].pc = "purge"
               PROVE  task'[t].generation <= generation'[task'[t].user]
    BY DEF Counted
  <2>1. task'[t].user \in Users /\ task'[t].generation \in Nat
    BY <1>2 DEF Types, Typed, TypeOK, Request, Idle
  <2>2. CASE task'[t] = task[t]
    <3>1. task'[t].generation <= generation[task'[t].user]
      BY <2>2 DEF SessionInv, Counted
    <3> QED
      BY <1>1, <2>1, <3>1
  <2>3. CASE task'[t] # task[t]
    <3>1. GoesOn(t)
      BY <2>3, Reaches, Arrival DEF Idle
    <3>2. /\ WritePassword(t) /\ task'[t].user = task[t].user
          /\ task'[t].generation = generation[task[t].user] + 1
      BY <3>1 DEF GoesOn
    <3>3. generation'[task[t].user] = generation[task[t].user] + 1
      BY <2>1, <3>2 DEF WritePassword, Types, Typed, TypeOK
    <3> QED
      BY <1>1, <2>1, <3>2, <3>3
  <2> QED
    BY <2>2, <2>3
<1>4. ASSUME NEW t \in Tasks, PurgeSessions(t)
      PROVE  /\ \A u \in Users : reported'[u] <= generation'[u]
             /\ ChangeEndsSessions'
  <2> DEFINE v == task[t].user
             n == task[t].generation
  <2>1. task[t].op = "change" /\ task[t].pc = "purge" /\ Busy(t)
    BY <1>4 DEF PurgeSessions, At, Busy
  <2>2. v \in Users /\ n \in Nat /\ n <= generation[v]
    BY <2>1, BusyTask DEF Request, SessionInv, Counted
  <2>3. reported[v] \in Nat /\ reported[v] <= generation[v]
    BY <2>2 DEF Types, Typed, TypeOK, SessionInv
  <2>4. Max({reported[v], n}) <= generation[v]
    BY <2>2, <2>3, MaxOfTwo
  <2>5. /\ reported' = [reported EXCEPT ![v] = Max({reported[v], n})] /\ generation' = generation
        /\ session' = Without(v)
    BY <1>4 DEF PurgeSessions
  <2>6. \A u \in Users : reported'[u] <= generation'[u]
    BY <2>2, <2>4, <2>5 DEF SessionInv, Types, Typed, TypeOK
  <2>7. ASSUME NEW s \in SessionIds, session'[s] # None
        PROVE  session'[s].generation >= reported'[session'[s].user]
    <3>1. session'[s] = session[s] /\ session[s].user # v /\ session[s] # None
      BY <2>5, <2>7 DEF Without
    <3>2. session[s].user \in Users
      BY <3>1 DEF Types, Typed, TypeOK
    <3> QED
      BY <2>2, <2>5, <3>1, <3>2 DEF SessionInv, ChangeEndsSessions, Types, Typed, TypeOK
  <2> QED
    BY <2>6, <2>7 DEF ChangeEndsSessions
<1>5. ASSUME reported' = reported,
             \A s \in SessionIds : session'[s] # None =>
               \/ /\ session[s] # None /\ session'[s].user = session[s].user
                  /\ session'[s].generation = session[s].generation
               \/ session'[s].user \in Users /\ session'[s].generation = generation[session'[s].user]
      PROVE  /\ \A u \in Users : reported'[u] <= generation'[u]
             /\ ChangeEndsSessions'
  <2>1. \A u \in Users : reported[u] \in Nat /\ reported[u] <= generation[u]
    BY DEF SessionInv, Types, Typed, TypeOK
  <2>2. \A u \in Users : reported'[u] <= generation'[u]
    BY <1>1, <1>5, <2>1
  <2>3. \A s \in SessionIds : session[s] # None => session[s].generation >= reported[session[s].user]
    BY DEF SessionInv, ChangeEndsSessions
  <2>4. ASSUME NEW s \in SessionIds, session'[s] # None
        PROVE  session'[s].generation >= reported'[session'[s].user]
    BY <1>1, <1>5, <2>1, <2>3, <2>4
  <2> QED
    BY <2>2, <2>4 DEF ChangeEndsSessions
<1>6. ASSUME NEW t \in Tasks, NEW s \in SessionIds, CreateSession(t, s)
      PROVE  /\ \A u \in Users : reported'[u] <= generation'[u]
             /\ ChangeEndsSessions'
  <2>1. task[t].user \in Users
    BY <1>6, BusyTask DEF CreateSession, At, Busy, Request
  <2>2. /\ session' = [session EXCEPT ![s] = NewSession(task[t].user)]
        /\ reported' = reported
    BY <1>6 DEF CreateSession, history
  <2> QED
    BY <1>5, <2>1, <2>2 DEF NewSession, Types, Typed, TypeOK
<1>7. ASSUME NEW s \in SessionIds, MeetExpired(s) \/ Logout(s) \/ SessionExpires(s)
      PROVE  /\ \A u \in Users : reported'[u] <= generation'[u]
             /\ ChangeEndsSessions'
  <2>1. reported' = reported
    BY <1>7 DEF MeetExpired, Logout, SessionExpires, history
  <2>2. CASE session' = [session EXCEPT ![s] = None]
    BY <1>5, <2>1, <2>2 DEF Types, Typed, TypeOK
  <2>3. CASE session[s] # None /\ session' = [session EXCEPT ![s].expired = TRUE]
    <3>1. session[s] \in [user : Users, generation : Nat, expired : BOOLEAN]
      BY <2>3 DEF Types, Typed, TypeOK
    <3> DEFINE a == [session[s] EXCEPT !.expired = TRUE]
    <3>2. a.user = session[s].user /\ a.generation = session[s].generation
      BY <3>1
    <3>3. session' = [session EXCEPT ![s] = a]
      BY <2>3
    <3> HIDE DEF a
    <3>4. session'[s] = a /\ \A x \in SessionIds : x # s => session'[x] = session[x]
      BY <3>3 DEF Types, Typed, TypeOK
    <3> QED
      BY <1>5, <2>1, <2>3, <3>2, <3>4
  <2> QED
    BY <1>7, <2>2, <2>3 DEF MeetExpired, Logout, SessionExpires
<1>8. \/ \E t \in Tasks : PurgeSessions(t) \/ \E s \in SessionIds : CreateSession(t, s)
      \/ \E s \in SessionIds : MeetExpired(s) \/ Logout(s) \/ SessionExpires(s)
      \/ reported' = reported /\ session' = session
  <2>1. ASSUME NEW t \in Tasks, Handle(t)
        PROVE  \/ PurgeSessions(t)
               \/ \E s \in SessionIds : CreateSession(t, s)
               \/ reported' = reported /\ session' = session
    BY <2>1 DEF Handle, Authenticate, RecordFailure, RecordSuccess, ServiceSeal, CreateLocal,
       ReadRecord, WritePassword, WriteRecovery, TotpEnroll, TotpDisable, StartEnrollment,
       ConsumeChallenge, StorePasskey, RemovePasskey, MintKey, RevokeKey, SaveSecurity, Abort,
       tables, history
  <2>2. ASSUME NEW t \in Tasks, Arrive(t)
        PROVE  reported' = reported /\ session' = session
    BY <2>2, ArriveFrame DEF tables
  <2>3. ASSUME World
        PROVE  \/ \E s \in SessionIds : MeetExpired(s) \/ Logout(s) \/ SessionExpires(s)
               \/ reported' = reported /\ session' = session
    BY <2>3 DEF World, Restart, FetchKey, WindowElapses, ChallengeExpires, vars, tables, history
  <2> QED
    BY <2>1, <2>2, <2>3, ThreeKinds
<1>9. /\ \A u \in Users : reported'[u] <= generation'[u]
      /\ ChangeEndsSessions'
  BY <1>4, <1>5, <1>6, <1>7, <1>8
<1> QED
  BY <1>3, <1>9 DEF SessionInv

LEMMA InitSessions == Init => SessionInv
<1> SUFFICES ASSUME Init PROVE SessionInv
  OBVIOUS
<1>1. PICK start \in {Fresh} \cup {Installed(u, p, s) :
                        u \in Users, p \in Passwords, s \in SessionIds} : session = start.session
  BY DEF Init
<1>2. ASSUME NEW s \in SessionIds, session[s] # None
      PROVE  session[s].generation = 0 /\ session[s].user \in Users
  BY <1>1, <1>2 DEF Fresh, Installed
<1>3. ChangeEndsSessions
  BY <1>2 DEF ChangeEndsSessions, Init
<1> QED
  BY <1>3 DEF Init, SessionInv, Counted, Idle

\* Once change_password_min has answered, no session that was there when the
\* new password was written is left, whatever logins, changes and lost
\* requests came in between.
THEOREM ChangeEndsSessionsHolds == Spec => []ChangeEndsSessions
<1>1. Init => Types /\ SessionInv
  BY InitTypes, InitSessions
<1>2. Types /\ SessionInv /\ [Next]_vars => (Types /\ SessionInv)'
  BY NextTypes, NextSessions
<1>3. SessionInv => ChangeEndsSessions
  BY DEF SessionInv
<1> QED
  BY <1>1, <1>2, <1>3, PTL DEF Spec

-----------------------------------------------------------------------------
(* One master key per user *)

\* The key a request holds is the one its user's record holds.
HoldsKey(r, acc) ==
    /\ r.op = "login" /\ r.pc \in {"succeed", "session", "seal"} =>
         r.secret = acc[r.user].seal.inPassword
    /\ \/ r.op \in {"change", "rotate"} /\ r.pc = "write"
       \/ r.op \in {"setup", "create", "rotate"} /\ r.pc = "seal"
       => /\ r.record.inPassword = acc[r.user].seal.inPassword
          /\ r.record.inRecovery = r.record.inPassword

\* A row whose seals agree.
RowAgrees(a) ==
    /\ a.hash = a.seal.password /\ a.seal.inRecovery = a.seal.inPassword
    /\ a.service \in {None, a.seal.inPassword}

KeyInv ==
    /\ \A u \in Users : account[u] # None => RowAgrees(account[u])
    /\ \A u \in Users : cache[u] = None \/ (account[u] # None /\ cache[u] = account[u].seal.inPassword)
    /\ \A u \in Users : account[u] # None /\ account[u].service = None =>
         u \in unsealed \/ Sealing(u) # {}
    /\ \A t \in Tasks : HoldsKey(task[t], account)

\* The key in a user's record never changes.
KeyStays ==
    \A u \in Users : account[u] # None => account'[u].seal.inPassword = account[u].seal.inPassword

\* The steps that write the users table.
LEMMA AccountSteps ==
    ASSUME [Next]_vars
    PROVE  \/ account' = account
           \/ \E t \in Tasks :
                \/ ServiceSeal(t, TRUE)
                \/ \E role \in {"admin", "user"} : CreateLocal(t, role)
                \/ WritePassword(t) \/ WriteRecovery(t) \/ TotpEnroll(t) \/ TotpDisable(t)
<1>1. ASSUME NEW t \in Tasks, Handle(t)
      PROVE  \/ account' = account
             \/ ServiceSeal(t, TRUE)
             \/ \E role \in {"admin", "user"} : CreateLocal(t, role)
             \/ WritePassword(t) \/ WriteRecovery(t) \/ TotpEnroll(t) \/ TotpDisable(t)
  <2>1. ServiceSeal(t, FALSE) => account' = account
    BY DEF ServiceSeal
  <2> QED
    BY <1>1, <2>1 DEF Handle, Authenticate, RecordFailure, RecordSuccess, CreateSession,
       ReadRecord, PurgeSessions, StartEnrollment,
       ConsumeChallenge, StorePasskey, RemovePasskey, MintKey, RevokeKey, SaveSecurity, Abort, tables
<1>2. ASSUME NEW t \in Tasks, Arrive(t) PROVE account' = account
  BY <1>2, ArriveFrame DEF tables
<1> QED
  BY <1>1, <1>2, ThreeKinds, WorldFrame

\* What such a step does to a row that was there.
LEMMA RowSteps ==
    ASSUME Types, KeyInv, [Next]_vars, NEW u \in Users, account[u] # None
    PROVE  /\ account'[u].seal.inPassword = account[u].seal.inPassword
           /\ RowAgrees(account'[u])
           /\ account'[u].service = account[u].service \/ \E t \in Tasks : ServiceSeal(t, TRUE)
<1> DEFINE a == account[u]
<1>1. a \in Account /\ a.seal \in Seal /\ RowAgrees(a)
  BY DEF Types, Typed, TypeOK, Account, KeyInv
<1>2. CASE account'[u] = a
  BY <1>1, <1>2
<1>3. ASSUME NEW t \in Tasks, ServiceSeal(t, TRUE), account'[u] # a
      PROVE  account'[u].seal.inPassword = a.seal.inPassword /\ RowAgrees(account'[u])
  <2>1. Busy(t) /\ task[t].pc = "seal" /\ account' = [account EXCEPT ![task[t].user].service = Key(t)]
    BY <1>3 DEF ServiceSeal
  <2>2. u = task[t].user
    BY <1>3, <2>1 DEF Types, Typed, TypeOK
  <2>3. task[t].op \in {"login", "setup", "create", "rotate"}
    BY <2>1, SealingTask
  <2>4. Key(t) = a.seal.inPassword
    BY <2>1, <2>2, <2>3 DEF KeyInv, HoldsKey, Key
  <2>5. account'[u] = [a EXCEPT !.service = Key(t)]
    BY <2>1, <2>2 DEF Types, Typed, TypeOK
  <2>6. /\ account'[u].seal = a.seal /\ account'[u].hash = a.hash /\ account'[u].service = Key(t)
    BY <1>1, <2>5 DEF Account
  <2> QED
    BY <1>1, <2>4, <2>6 DEF RowAgrees
<1>4. ASSUME NEW t \in Tasks, NEW role, CreateLocal(t, role)
      PROVE  account'[u] = a
  BY <1>4 DEF CreateLocal, Exists, Types, Typed, TypeOK
<1>5. ASSUME NEW t \in Tasks, WritePassword(t), account'[u] # a
      PROVE  /\ account'[u].seal.inPassword = a.seal.inPassword /\ RowAgrees(account'[u])
             /\ account'[u].service = a.service
  <2> DEFINE r == task[t]
             p == r.other
             k == minted + 1
  <2>1. /\ r.op = "change" /\ r.pc = "write" /\ Busy(t)
        /\ account' = [account EXCEPT ![r.user].hash = p, ![r.user].seal = Resealed(t)]
    BY <1>5 DEF WritePassword, At, Busy
  <2>2. u = r.user
    BY <1>5, <2>1 DEF Types, Typed, TypeOK
  <2>3. r.record \in Seal /\ r.record.inPassword = a.seal.inPassword /\ r.record.inRecovery = r.record.inPassword
    BY <2>1, <2>2, BusyTask DEF Carries, KeyInv, HoldsKey
  <2>4. account'[u] = [a EXCEPT !.hash = p, !.seal = Resealed(t)]
    BY <2>1, <2>2 DEF Types, Typed, TypeOK
  <2>5. Resealed(t) = [r.record EXCEPT !.password = p, !.made = k]
    BY DEF Resealed
  <2> HIDE DEF p, k
  <2>6. /\ Resealed(t).password = p /\ Resealed(t).inPassword = r.record.inPassword
        /\ Resealed(t).inRecovery = r.record.inRecovery
    BY <2>3, <2>5 DEF Seal
  <2>7. account'[u].hash = p /\ account'[u].seal = Resealed(t) /\ account'[u].service = a.service
    BY <1>1, <2>4 DEF Account
  <2> QED
    BY <1>1, <2>3, <2>6, <2>7 DEF RowAgrees
<1>6. ASSUME NEW t \in Tasks, WriteRecovery(t), account'[u] # a
      PROVE  /\ account'[u].seal.inPassword = a.seal.inPassword /\ RowAgrees(account'[u])
             /\ account'[u].service = a.service
  <2> DEFINE r == task[t]
             k == minted + 1
  <2>1. /\ r.op = "rotate" /\ r.pc = "write" /\ Busy(t)
        /\ account' = account \/ (/\ account' = [account EXCEPT ![r.user].seal = Rotated(t)]
                                  /\ Matches(r.user, r.record))
    BY <1>6 DEF WriteRecovery, At, Busy
  <2>2. u = r.user /\ Matches(r.user, r.record)
    BY <1>6, <2>1 DEF Types, Typed, TypeOK
  <2>3. r.record \in Seal /\ r.record = a.seal
    BY <2>1, <2>2, BusyTask DEF Carries, Matches
  <2>4. account'[u] = [a EXCEPT !.seal = Rotated(t)]
    BY <1>6, <2>1, <2>2 DEF Types, Typed, TypeOK
  <2>5. Rotated(t) = [r.record EXCEPT !.recovery = k, !.made = k, !.inRecovery = r.record.inPassword]
    BY DEF Rotated
  <2> HIDE DEF k
  <2>6. /\ Rotated(t).password = r.record.password /\ Rotated(t).inPassword = r.record.inPassword
        /\ Rotated(t).inRecovery = r.record.inPassword
    BY <2>3, <2>5 DEF Seal
  <2>7. account'[u].hash = a.hash /\ account'[u].seal = Rotated(t) /\ account'[u].service = a.service
    BY <1>1, <2>4 DEF Account
  <2> QED
    BY <1>1, <2>3, <2>6, <2>7 DEF RowAgrees
<1>7. ASSUME NEW t \in Tasks, TotpEnroll(t) \/ TotpDisable(t), account'[u] # a
      PROVE  /\ account'[u].seal.inPassword = a.seal.inPassword /\ RowAgrees(account'[u])
             /\ account'[u].service = a.service
  <2>1. PICK x : account' = [account EXCEPT ![task[t].user].totp = x]
    BY <1>7 DEF TotpEnroll, TotpDisable, SetSecret
  <2>2. account'[u] = [a EXCEPT !.totp = x]
    BY <1>7, <2>1 DEF Types, Typed, TypeOK
  <2>3. account'[u].hash = a.hash /\ account'[u].seal = a.seal /\ account'[u].service = a.service
    BY <1>1, <2>2 DEF Account
  <2> QED
    BY <1>1, <2>3 DEF RowAgrees
<1>8. \/ account' = account
      \/ \E t \in Tasks :
           \/ ServiceSeal(t, TRUE)
           \/ \E role \in {"admin", "user"} : CreateLocal(t, role)
           \/ WritePassword(t) \/ WriteRecovery(t) \/ TotpEnroll(t) \/ TotpDisable(t)
  BY AccountSteps
<1> QED
  BY <1>2, <1>3, <1>4, <1>5, <1>6, <1>7, <1>8

\* A row that is new.
LEMMA NewRows ==
    ASSUME Types, [Next]_vars, NEW u \in Users, account[u] = None, account'[u] # None
    PROVE  \E t \in Tasks :
             /\ GoesOn(t) /\ task'[t].pc = "seal" /\ task'[t].user = u
             /\ task'[t].op \in {"create", "setup"}
             /\ \E role : account'[u] = NewAccount(task[t].password, role, minted + 1)
             /\ task'[t].record = account'[u].seal /\ current' = [current EXCEPT ![u] = {minted + 2}]
             /\ \E role : CreateLocal(t, role)
<1>1. ASSUME NEW t \in Tasks, NEW v, NEW x, Busy(t),
             account' = [account EXCEPT ![v] = x], task[t].user = v, OfMember(task[t], account),
             \/ task[t].op \in Kinds \ {"begin", "finish"}
             \/ task[t].pc = "seal" /\ task[t].op \in {"login", "setup"}
      PROVE  FALSE
  BY <1>1 DEF OfMember, Types, Typed, TypeOK
<1>2. ASSUME NEW t \in Tasks, ServiceSeal(t, TRUE) PROVE FALSE
  <2>1. /\ Busy(t) /\ task[t].pc = "seal"
        /\ account' = [account EXCEPT ![task[t].user] = [account[task[t].user] EXCEPT !.service = Key(t)]]
    BY <1>2 DEF ServiceSeal
  <2>2. task[t].op \in {"login", "setup", "create", "rotate"}
    BY <2>1, SealingTask
  <2> QED
    BY <1>1, <2>1, <2>2 DEF Types, Kinds
<1>3. ASSUME NEW t \in Tasks, WritePassword(t) \/ WriteRecovery(t) \/ TotpEnroll(t) \/ TotpDisable(t) PROVE FALSE
  <2>1. Busy(t) /\ task[t].op \in {"change", "rotate", "enroll", "disable"}
    BY <1>3 DEF WritePassword, WriteRecovery, TotpEnroll, TotpDisable, Writes, At, Busy
  <2>2. \E x : account' = account \/ account' = [account EXCEPT ![task[t].user] = x]
    BY <1>3 DEF WritePassword, WriteRecovery, TotpEnroll, TotpDisable, SetSecret
  <2> QED
    BY <1>1, <2>1, <2>2 DEF Types, Kinds
<1>4. PICK t \in Tasks : \E role \in {"admin", "user"} : CreateLocal(t, role)
  BY <1>2, <1>3, AccountSteps
<1>5. PICK role \in {"admin", "user"} : CreateLocal(t, role)
  BY <1>4
<1> DEFINE r == task[t]
           s == task'[t]
           new == NewAccount(r.password, role, minted + 1)
           x == [r EXCEPT !.pc = "seal", !.user = r.other, !.record = new.seal]
<1>6. Handle(t) /\ Busy(t) /\ r.pc = "insert"
  BY <1>5 DEF Handle, CreateLocal
<1>7. account' = [account EXCEPT ![r.other] = new] /\ task' = [task EXCEPT ![t] = x]
  BY <1>5 DEF CreateLocal
<1>8. u = r.other
  BY <1>7
<1>9. r \in Request /\ r.op \in {"create", "setup"}
  BY <1>6, BusyTask DEF Carries
<1>10. x.op = r.op /\ x.pc = "seal"
  <2> HIDE DEF new
  <2> QED
    BY <1>9 DEF Request
<1> HIDE DEF x
<1>11. s = x
  BY <1>7 DEF Types, Typed, TypeOK
<1>12. GoesOn(t)
  BY <1>6, <1>9, <1>10, <1>11, HandledTask DEF Idle
<1>13. /\ s.op \in {"create", "setup"} /\ s.pc = "seal"
  BY <1>9, <1>10, <1>11
<1>14. /\ \E role1 : /\ account' = [account EXCEPT ![s.user] = NewAccount(r.password, role1, minted + 1)]
                     /\ s.record = NewSeal(r.password, minted + 1)
       /\ s.user = r.other /\ current' = [current EXCEPT ![s.user] = {minted + 2}]
  BY <1>12, <1>13 DEF GoesOn
<1>15. PICK role1 : account'[u] = NewAccount(r.password, role1, minted + 1)
  BY <1>8, <1>14 DEF Types, Typed, TypeOK
<1>16. s.record = account'[u].seal
  BY <1>14, <1>15 DEF NewAccount
<1> QED
  BY <1>5, <1>8, <1>12, <1>13, <1>14, <1>15, <1>16


\* The key goes with the request.
LEMMA HoldsStep ==
    ASSUME Types, KeyInv, [Next]_vars, NEW t \in Tasks
    PROVE  HoldsKey(task'[t], account')
<1>0. Types' /\ Grows
  BY NextTypes
<1> DEFINE s == task'[t]
<1>1. ASSUME NEW u \in Users, account[u] # None
      PROVE  account'[u].seal.inPassword = account[u].seal.inPassword
  BY <1>1, RowSteps
<1>2. CASE s = task[t]
  <2>1. HoldsKey(s, account) /\ OfMember(s, account)
    BY <1>2 DEF KeyInv, Types
  <2>2. s.op # "idle" => s.user \in Users
    BY <1>0 DEF Types, Typed, TypeOK, Request, Idle
  <2> QED
    BY <1>1, <2>1, <2>2 DEF HoldsKey, OfMember, Kinds
<1>3. CASE s = Idle
  BY <1>3 DEF HoldsKey, Idle
<1>4. CASE Arrive(t)
  BY <1>4, Arrival DEF HoldsKey
<1>5. CASE GoesOn(t)
  <2> DEFINE r == task[t]
  <2>0. HoldsKey(r, account) /\ OfMember(r, account) /\ s.op = r.op
    BY <1>5 DEF KeyInv, Types, GoesOn
  <2>1. CASE s.op = "login"
    <3>1. s.user = r.user /\ \/ s.pc = "fail"
                             \/ s.pc = "succeed" /\ account[r.user] # None /\ s.secret = account[r.user].seal.inPassword
                             \/ s.secret = r.secret /\ r.pc \in {"succeed", "session"}
      BY <1>5, <2>1 DEF GoesOn
    <3>2. s.user \in Users
      BY <1>0, <2>1 DEF Types, Typed, TypeOK, Request, Idle
    <3>3. s.pc = "fail" \/ (account[r.user] # None /\ s.secret = account[r.user].seal.inPassword)
      BY <2>0, <2>1, <3>1 DEF HoldsKey, OfMember
    <3> QED
      BY <1>1, <2>1, <3>1, <3>2, <3>3 DEF HoldsKey
  <2>2. CASE s.op \in {"create", "setup"}
    <3>1. /\ \E role : account' = [account EXCEPT ![s.user] = NewAccount(r.password, role, minted + 1)]
          /\ s.user \in Users /\ s.record = NewSeal(r.password, minted + 1)
      BY <1>5, <2>2 DEF GoesOn
    <3>2. account'[s.user].seal = s.record
      BY <3>1 DEF NewAccount, Types, Typed, TypeOK
    <3>3. s.record.inRecovery = s.record.inPassword
      BY <3>1 DEF NewSeal
    <3> QED
      BY <2>2, <3>2, <3>3 DEF HoldsKey
  <2>3. CASE s.op \in {"change", "rotate"}
    <3>1. s.user = r.user /\ s.user \in Users
      BY <1>0, <1>5, <2>3 DEF GoesOn, Types, Typed, TypeOK, Request, Idle
    <3>2. account[s.user] # None
      BY <2>0, <2>3, <3>1 DEF OfMember, Kinds
    <3>3. account[s.user] \in Account /\ RowAgrees(account[s.user])
      BY <3>1, <3>2 DEF Types, Typed, TypeOK, KeyInv
    <3>4. CASE ReadRecord(t) /\ s.record = account[r.user].seal
      BY <1>1, <2>3, <3>1, <3>2, <3>3, <3>4 DEF HoldsKey, RowAgrees
    <3>5. CASE s.pc = "purge"
      BY <2>3, <3>5 DEF HoldsKey
    <3>6. CASE WriteRecovery(t) /\ s.record = Rotated(t)
      <4> DEFINE k == minted + 1
      <4>1. r.op = "rotate" /\ r.pc = "write" /\ Busy(t)
        BY <3>6 DEF WriteRecovery, At, Busy
      <4>2. r.record \in Seal /\ r.record.inPassword = account[r.user].seal.inPassword
        BY <2>0, <4>1, BusyTask DEF Carries, HoldsKey
      <4>3. s.record = [r.record EXCEPT !.recovery = k, !.made = k, !.inRecovery = r.record.inPassword]
        BY <3>6 DEF Rotated
      <4> HIDE DEF k
      <4>4. s.record.inPassword = r.record.inPassword /\ s.record.inRecovery = r.record.inPassword
        BY <4>2, <4>3 DEF Seal
      <4> QED
        BY <1>1, <2>3, <3>1, <3>2, <4>2, <4>4 DEF HoldsKey
    <3> QED
      BY <1>5, <2>3, <3>4, <3>5, <3>6 DEF GoesOn
  <2>4. CASE s.op = "finish"
    BY <2>4 DEF HoldsKey
  <2> QED
    BY <1>5, <2>1, <2>2, <2>3, <2>4 DEF GoesOn
<1> QED
  BY <1>2, <1>3, <1>4, <1>5, Reaches

\* A request that was about to seal, and moved, has sealed or was lost.
LEMMA SealingEnds ==
    ASSUME Types, [Next]_vars, NEW t \in Tasks, Busy(t), task[t].pc = "seal", task'[t] # task[t]
    PROVE  (\E written \in BOOLEAN : ServiceSeal(t, written)) \/ Abort(t) \/ Restart
<1>1. task[t].op \in {"login", "setup", "create", "rotate"}
  BY SealingTask
<1>2. CASE \E j \in Tasks : Arrive(j) \/ Handle(j)
  <2>1. Arrive(t) \/ Handle(t)
    BY <1>2, OneMoves
  <2>2. ~Arrive(t)
    BY Arrival DEF Busy
  <2> QED
    BY <1>1, <2>1, <2>2 DEF Handle, Authenticate, RecordFailure, RecordSuccess, CreateSession, CreateLocal,
       ReadRecord, WritePassword, PurgeSessions, WriteRecovery, TotpEnroll, TotpDisable, StartEnrollment,
       ConsumeChallenge, StorePasskey, RemovePasskey, MintKey, RevokeKey, SaveSecurity, Writes, At
<1>3. CASE World
  BY <1>3 DEF World, MeetExpired, Logout, SessionExpires, FetchKey, WindowElapses, ChallengeExpires, vars
<1> QED
  BY <1>2, <1>3, ThreeKinds

\* Nobody else takes a name off the list of those without a service seal.
LEMMA UnsealedSteps ==
    ASSUME [Next]_vars, NEW u, u \in unsealed, u \notin unsealed'
    PROVE  \E t \in Tasks : ServiceSeal(t, TRUE) /\ task[t].user = u
<1>1. ASSUME NEW t \in Tasks, Handle(t)
      PROVE  ServiceSeal(t, TRUE) /\ task[t].user = u
  <2>1. ASSUME ServiceSeal(t, FALSE) PROVE FALSE
    BY <2>1 DEF ServiceSeal
  <2>2. ServiceSeal(t, TRUE)
    BY <1>1, <2>1 DEF Handle, Authenticate, RecordFailure, RecordSuccess, CreateSession, CreateLocal,
     ReadRecord, WritePassword, PurgeSessions, WriteRecovery, TotpEnroll, TotpDisable, StartEnrollment,
     ConsumeChallenge, StorePasskey, RemovePasskey, MintKey, RevokeKey, SaveSecurity, Abort, history
  <2> QED
    BY <2>2 DEF ServiceSeal
<1>2. ASSUME NEW t \in Tasks, Arrive(t) PROVE FALSE
  BY <1>2, ArriveFrame
<1>3. ASSUME World PROVE FALSE
  BY <1>3 DEF World, MeetExpired, Logout, SessionExpires, FetchKey, WindowElapses, ChallengeExpires,
     Restart, vars, history
<1> QED
  BY <1>1, <1>2, <1>3, ThreeKinds

LEMMA CacheStep ==
    ASSUME Types, KeyInv, [Next]_vars, NEW u \in Users
    PROVE  cache'[u] = None \/ (account'[u] # None /\ cache'[u] = account'[u].seal.inPassword)
<1>0. ASSUME account[u] # None
      PROVE  account'[u] # None /\ account'[u].seal.inPassword = account[u].seal.inPassword
  BY <1>0, NextTypes, RowSteps, NoRowIsNone DEF Grows
<1>1. CASE cache'[u] = cache[u]
  BY <1>0, <1>1 DEF KeyInv
<1>2. ASSUME NEW t \in Tasks, NEW written \in BOOLEAN, ServiceSeal(t, written), cache'[u] # cache[u]
      PROVE  account[u] # None /\ cache'[u] = account[u].seal.inPassword
  <2>1. Busy(t) /\ task[t].pc = "seal" /\ cache' = [cache EXCEPT ![task[t].user] = Key(t)]
    BY <1>2 DEF ServiceSeal
  <2>2. u = task[t].user /\ cache'[u] = Key(t)
    BY <1>2, <2>1 DEF Types, Typed, TypeOK
  <2>3. task[t].op \in {"login", "setup", "create", "rotate"}
    BY <2>1, SealingTask
  <2>4. HoldsKey(task[t], account) /\ OfMember(task[t], account)
    BY DEF KeyInv, Types
  <2> QED
    BY <2>1, <2>2, <2>3, <2>4 DEF HoldsKey, OfMember, Key, Kinds
<1>3. ASSUME NEW v \in Users, FetchKey(v), cache'[u] # cache[u]
      PROVE  account[u] # None /\ cache'[u] = account[u].seal.inPassword
  <2>1. v = u /\ account[u] # None /\ cache'[u] = account[u].service /\ account[u].service # None
    BY <1>3 DEF FetchKey, Exists, Types, Typed, TypeOK
  <2> QED
    BY <2>1 DEF KeyInv, RowAgrees
<1>4. CASE Restart
  BY <1>4 DEF Restart
<1>5. ASSUME NEW t \in Tasks, Handle(t)
      PROVE  cache' = cache \/ \E written \in BOOLEAN : ServiceSeal(t, written)
  BY <1>5 DEF Handle, Authenticate, RecordFailure, RecordSuccess, CreateSession, CreateLocal,
     ReadRecord, WritePassword, PurgeSessions, WriteRecovery, TotpEnroll, TotpDisable, StartEnrollment,
     ConsumeChallenge, StorePasskey, RemovePasskey, MintKey, RevokeKey, SaveSecurity, Abort, memory
<1>6. ASSUME NEW t \in Tasks, Arrive(t) PROVE cache' = cache
  BY <1>6, ArriveFrame
<1>7. ASSUME World PROVE cache' = cache \/ Restart \/ \E v \in Users : FetchKey(v)
  BY <1>7 DEF World, MeetExpired, Logout, SessionExpires, WindowElapses, ChallengeExpires, vars, memory
<1> QED
  BY <1>0, <1>1, <1>2, <1>3, <1>4, <1>5, <1>6, <1>7, ThreeKinds

LEMMA ServiceStep ==
    ASSUME Types, KeyInv, [Next]_vars, NEW u \in Users, account'[u] # None, account'[u].service = None
    PROVE  u \in unsealed' \/ (Sealing(u))' # {}
<1>1. CASE account[u] = None
  <2>1. PICK t \in Tasks : task'[t].pc = "seal" /\ task'[t].user = u /\ task'[t].op \in {"create", "setup"}
    BY <1>1, NewRows
  <2>2. t \in (Sealing(u))'
    BY <2>1 DEF Sealing, Busy
  <2> QED
    BY <2>2
<1>2. CASE account[u] # None
  <2>1. ASSUME NEW t \in Tasks, ServiceSeal(t, TRUE) PROVE task[t].user # u
    <3> SUFFICES ASSUME task[t].user = u PROVE FALSE
      OBVIOUS
    <3>1. /\ Busy(t) /\ task[t].pc = "seal"
          /\ account' = [account EXCEPT ![u].service = Key(t)]
      BY <2>1 DEF ServiceSeal
    <3>2. Key(t) \in Secrets
      BY <3>1, SealingTask
    <3>3. account[u] \in Account /\ account'[u] = [account[u] EXCEPT !.service = Key(t)]
      BY <1>2, <3>1 DEF Types, Typed, TypeOK
    <3>4. account'[u].service = Key(t)
      BY <3>3 DEF Account
    <3> QED
      BY <3>2, <3>4, AccountsAssumption DEF Secrets
  <2>2. account[u].service = None
    <3>1. ASSUME NEW t \in Tasks, ServiceSeal(t, TRUE) PROVE account'[u] = account[u]
      <4>1. task[t].user # u /\ account' = [account EXCEPT ![task[t].user].service = Key(t)]
        BY <2>1, <3>1 DEF ServiceSeal
      <4> QED
        BY <4>1 DEF Types, Typed, TypeOK
    <3> QED
      BY <1>2, <3>1, RowSteps
  <2>3. CASE u \in unsealed
    BY <2>1, <2>3, UnsealedSteps
  <2>4. ASSUME NEW t \in Sealing(u) PROVE u \in unsealed' \/ (Sealing(u))' # {}
    <3>1. t \in Tasks /\ Busy(t) /\ task[t].pc = "seal" /\ task[t].user = u
      BY <2>4 DEF Sealing
    <3>2. CASE task'[t] = task[t]
      <4>1. t \in (Sealing(u))'
        BY <3>1, <3>2 DEF Sealing, Busy
      <4> QED
        BY <4>1
    <3>3. CASE ServiceSeal(t, FALSE)
      BY <3>1, <3>3 DEF ServiceSeal
    <3>4. CASE Abort(t)
      <4>1. u \in Gone({t})
        BY <2>4 DEF Gone
      <4> QED
        BY <3>4, <4>1 DEF Abort
    <3>5. CASE Restart
      <4>1. u \in Gone(Tasks)
        BY <2>4, <3>1 DEF Gone
      <4> QED
        BY <3>5, <4>1 DEF Restart
    <3> QED
      BY <2>1, <3>1, <3>2, <3>3, <3>4, <3>5, SealingEnds
  <2> QED
    BY <1>2, <2>2, <2>3, <2>4 DEF KeyInv
<1> QED
  BY <1>1, <1>2

LEMMA NextKeys == Types /\ KeyInv /\ [Next]_vars => KeyInv' /\ KeyStays
<1> SUFFICES ASSUME Types, KeyInv, [Next]_vars PROVE KeyInv' /\ KeyStays
  OBVIOUS
<1>1. KeyStays
  BY RowSteps DEF KeyStays
<1>2. ASSUME NEW u \in Users, account'[u] # None PROVE RowAgrees(account'[u])
  <2>1. CASE account[u] # None
    BY <2>1, RowSteps
  <2>2. CASE account[u] = None
    <3>a. PICK t \in Tasks : \E role : account'[u] = NewAccount(task[t].password, role, minted + 1)
      BY <1>2, <2>2, NewRows
    <3>1. PICK role : account'[u] = NewAccount(task[t].password, role, minted + 1)
      BY <3>a
    <3> QED
      BY <3>1 DEF NewAccount, NewSeal, RowAgrees
  <2> QED
    BY <2>1, <2>2
<1>3. \A u \in Users : cache'[u] = None \/ (account'[u] # None /\ cache'[u] = account'[u].seal.inPassword)
  BY CacheStep
<1>4. \A u \in Users : account'[u] # None /\ account'[u].service = None => u \in unsealed' \/ (Sealing(u))' # {}
  BY ServiceStep
<1>5. \A t \in Tasks : HoldsKey(task'[t], account')
  BY HoldsStep
<1> QED
  BY <1>1, <1>2, <1>3, <1>4, <1>5 DEF KeyInv

LEMMA InitKeys == Init => KeyInv
<1> SUFFICES ASSUME Init PROVE KeyInv
  OBVIOUS
<1>1. PICK start \in {Fresh} \cup {Installed(u, p, s) :
                        u \in Users, p \in Passwords, s \in SessionIds} :
        account = start.account /\ cache = start.cache
  BY DEF Init
<1>2. \A t \in Tasks : HoldsKey(task[t], account)
  BY DEF Init, HoldsKey, Idle
<1>3. CASE start = Fresh
  <2>1. \A u \in Users : account[u] = None /\ cache[u] = None
    BY <1>1, <1>3 DEF Fresh
  <2> QED
    BY <1>2, <2>1 DEF KeyInv
<1>4. ASSUME NEW u \in Users, NEW p \in Passwords, NEW s \in SessionIds, start = Installed(u, p, s)
      PROVE  KeyInv
  <2> DEFINE seal == [password |-> p, inPassword |-> 1, recovery |-> 2, inRecovery |-> 1, made |-> 2]
             a == [hash |-> p, service |-> 1, totp |-> None, role |-> "admin", seal |-> seal]
  <2>1. /\ account = [[v \in Users |-> None] EXCEPT ![u] = a]
        /\ cache = [[v \in Users |-> None] EXCEPT ![u] = 1]
    BY <1>1, <1>4 DEF Installed, Fresh
  <2>2. /\ a.hash = p /\ a.service = 1 /\ a.seal = seal
        /\ seal.password = p /\ seal.inPassword = 1 /\ seal.inRecovery = 1
    OBVIOUS
  <2>3. a \in Account
    BY DEF Account, Seal, Secrets
  <2> HIDE DEF a, seal
  <2>4. /\ account[u] = a /\ cache[u] = 1 /\ a # None /\ 1 # None
        /\ \A v \in Users : v # u => account[v] = None /\ cache[v] = None
    BY <2>1, <2>3, NoRowIsNone, AccountsAssumption
  <2>5. RowAgrees(a)
    BY <2>2 DEF RowAgrees
  <2> QED
    BY <1>2, <2>2, <2>4, <2>5 DEF KeyInv
<1> QED
  BY <1>1, <1>3, <1>4

LEMMA AllKeys == Spec => [](Types /\ KeyInv)
<1>1. Init => Types /\ KeyInv
  BY InitTypes, InitKeys
<1>2. Types /\ KeyInv /\ [Next]_vars => (Types /\ KeyInv)'
  BY NextTypes, NextKeys
<1> QED
  BY <1>1, <1>2, PTL DEF Spec

\* The password seal, the recovery seal, the service seal and the cache of a
\* user hold one master key, under any interleaving of logins, password
\* changes, rotations and their losses.
THEOREM OneMasterKeyHolds == Spec => []OneMasterKey
<1>1. KeyInv => OneMasterKey
  BY DEF KeyInv, RowAgrees, OneMasterKey, Exists
<1> QED
  BY <1>1, AllKeys, PTL

\* What a user's files are encrypted under is fixed when the account is
\* made: no step changes the key in a record, and no record disappears.
THEOREM MasterKeyNeverChanges ==
    Spec => [][\A u \in Users : Exists(u) =>
                 /\ account'[u] # None
                 /\ account'[u].seal.inPassword = account[u].seal.inPassword]_vars
<1>1. Types /\ KeyInv /\ [Next]_vars =>
        [\A u \in Users : Exists(u) =>
           /\ account'[u] # None
           /\ account'[u].seal.inPassword = account[u].seal.inPassword]_vars
  BY NextTypes, NextKeys, NoRowIsNone DEF Grows, KeyStays, Exists
<1> QED
  BY <1>1, AllKeys, PTL DEF Spec

-----------------------------------------------------------------------------
(* Recovery keys: what was shown and what is in force *)

\* A request that is about to show the recovery key k to u.
Showing(r, u, k) ==
    /\ r.op \in {"setup", "create", "rotate"} /\ r.pc = "seal" /\ r.user = u /\ r.record.recovery = k

\* The recovery key k of u was shown, will be, or its response was lost.
Accounted(u, k, shown, lost, tk) ==
    \/ k \in shown[u]
    \/ u \in lost
    \/ \E t \in Tasks : Showing(tk[t], u, k)

\* What a request has of recovery keys: a key to show was in force, one read
\* for a password change is accounted for.
HoldsCard(r, held, shown, lost, tk) ==
    /\ r.op \in {"setup", "create", "rotate"} /\ r.pc = "seal" => r.record.recovery \in held[r.user]
    /\ r.op = "change" /\ r.pc = "write" => Accounted(r.user, r.record.recovery, shown, lost, tk)

CardInv ==
    /\ \A u \in Users : cards[u] \subseteq current[u]
    /\ \A u \in Users : account[u] = None => cards[u] = {}
    /\ \A u \in Users : account[u] # None => Accounted(u, account[u].seal.recovery, cards, unshown, task)
    /\ \A t \in Tasks : HoldsCard(task[t], current, cards, unshown, task)

LEMMA ShowingTask ==
    ASSUME Types, NEW t \in Tasks, NEW u, NEW k, Showing(task[t], u, k)
    PROVE  t \in Sealing(u) /\ Shows(t) /\ Busy(t) /\ task[t].pc = "seal" /\ u \in Users
<1>1. Busy(t)
  BY DEF Busy, Showing
<1> QED
  BY <1>1, SealingTask DEF Showing, Sealing, Shows

\* The cards and the lists only grow, and only so.
LEMMA CardSteps ==
    ASSUME Types, [Next]_vars
    PROVE  /\ unshown \subseteq unshown'
           /\ \A u \in Users : cards[u] \subseteq cards'[u]
           /\ \A u \in Users : \A k \in cards'[u] : k \in cards[u] \/ \E t \in Tasks : Showing(task[t], u, k)
           /\ \A u \in Users : current[u] \subseteq current'[u] \/ (account[u] = None /\ account'[u] # None)
<1>1. ASSUME NEW t \in Tasks, NEW written \in BOOLEAN, ServiceSeal(t, written)
      PROVE  /\ unshown' = unshown /\ current' = current
             /\ \A u \in Users : cards[u] \subseteq cards'[u]
             /\ \A u \in Users : \A k \in cards'[u] : k \in cards[u] \/ Showing(task[t], u, k)
  <2> DEFINE v == task[t].user
             k1 == task[t].record.recovery
  <2>1. /\ unshown' = unshown /\ current' = current /\ task[t].pc = "seal"
        /\ \/ cards' = cards
           \/ Shows(t) /\ cards' = [cards EXCEPT ![v] = @ \cup {k1}]
    BY <1>1 DEF ServiceSeal
  <2>2. Shows(t) => Showing(task[t], v, k1)
    BY <2>1 DEF Shows, Showing
  <2>3. cards = [u \in Users |-> cards[u]]
    BY DEF Types, Typed, TypeOK
  <2> HIDE DEF v, k1
  <2>4. CASE Shows(t) /\ cards' = [cards EXCEPT ![v] = @ \cup {k1}]
    <3>1. \A u \in Users : cards'[u] = IF u = v THEN cards[u] \cup {k1} ELSE cards[u]
      BY <2>3, <2>4
    <3> QED
      BY <2>1, <2>2, <2>4, <3>1
  <2> QED
    BY <2>1, <2>4
<1>2. ASSUME NEW t \in Tasks, Handle(t)
      PROVE  \/ \E written \in BOOLEAN : ServiceSeal(t, written)
             \/ cards' = cards /\ unshown \subseteq unshown'
  BY <1>2 DEF Handle, Authenticate, RecordFailure, RecordSuccess, CreateSession, CreateLocal,
     ReadRecord, WritePassword, PurgeSessions, WriteRecovery, TotpEnroll, TotpDisable, StartEnrollment,
     ConsumeChallenge, StorePasskey, RemovePasskey, MintKey, RevokeKey, SaveSecurity, Abort, history
<1>3. ASSUME NEW t \in Tasks, Handle(t)
      PROVE  \/ current' = current
             \/ WriteRecovery(t)
             \/ \E role \in {"admin", "user"} : CreateLocal(t, role)
  BY <1>3 DEF Handle, Authenticate, RecordFailure, RecordSuccess, CreateSession, ServiceSeal,
     ReadRecord, WritePassword, PurgeSessions, TotpEnroll, TotpDisable, StartEnrollment,
     ConsumeChallenge, StorePasskey, RemovePasskey, MintKey, RevokeKey, SaveSecurity, Abort, history
<1>4. ASSUME NEW t \in Tasks, WriteRecovery(t), NEW u \in Users
      PROVE  current[u] \subseteq current'[u]
  BY <1>4 DEF WriteRecovery, Types, Typed, TypeOK
<1>5. ASSUME NEW t \in Tasks, NEW role \in {"admin", "user"}, CreateLocal(t, role), NEW u \in Users
      PROVE  current[u] \subseteq current'[u] \/ (account[u] = None /\ account'[u] # None)
  <2> DEFINE new == NewAccount(task[t].password, role, minted + 1)
             v == task[t].other
  <2>1. \/ current' = current
        \/ /\ account[v] = None /\ account' = [account EXCEPT ![v] = new]
           /\ \E x : current' = [current EXCEPT ![v] = x]
    BY <1>5 DEF CreateLocal, Exists
  <2>2. Typed'
    BY NextTypes DEF Types
  <2>3. new # None
    <3>1. Busy(t) /\ task[t].pc = "insert"
      BY <1>5 DEF CreateLocal
    <3>2. task[t].password \in Passwords /\ minted \in Nat
      BY <3>1, BusyTask DEF Carries, Types, Typed, TypeOK
    <3>3. NewSeal(task[t].password, minted + 1) \in Seal
      BY <3>2 DEF NewSeal, Seal, Secrets
    <3>4. new \in Account
      BY <3>2, <3>3 DEF NewAccount, Account
    <3> QED
      BY <3>4, NoRowIsNone
  <2> HIDE DEF new
  <2> QED
    BY <2>1, <2>3 DEF Types, Typed, TypeOK
<1>6. ASSUME NEW t \in Tasks, Arrive(t)
      PROVE  cards' = cards /\ current' = current /\ unshown' = unshown
  BY <1>6, ArriveFrame
<1>7. ASSUME World
      PROVE  cards' = cards /\ current' = current /\ unshown \subseteq unshown'
  BY <1>7, WorldFrame DEF World, MeetExpired, Logout, SessionExpires, FetchKey, WindowElapses, ChallengeExpires,
     Restart, vars, history
<1> QED
  BY <1>1, <1>2, <1>3, <1>4, <1>5, <1>6, <1>7, ThreeKinds

\* What is accounted for stays so.
LEMMA StaysAccounted ==
    ASSUME Types, [Next]_vars, NEW u \in Users, NEW k, Accounted(u, k, cards, unshown, task)
    PROVE  Accounted(u, k, cards', unshown', task')
<1>1. CASE k \in cards[u] \/ u \in unshown
  BY <1>1, CardSteps DEF Accounted
<1>2. ASSUME NEW t \in Tasks, Showing(task[t], u, k) PROVE Accounted(u, k, cards', unshown', task')
  <2>1. t \in Sealing(u) /\ Shows(t) /\ Busy(t) /\ task[t].pc = "seal"
    BY <1>2, ShowingTask
  <2>2. CASE task'[t] = task[t]
    BY <1>2, <2>2 DEF Accounted
  <2>3. ASSUME NEW written \in BOOLEAN, ServiceSeal(t, written) PROVE k \in cards'[u]
    <3>1. cards' = [cards EXCEPT ![task[t].user] = @ \cup {task[t].record.recovery}]
      BY <2>1, <2>3 DEF ServiceSeal
    <3> QED
      BY <1>2, <3>1 DEF Showing, Types, Typed, TypeOK
  <2>4. CASE Abort(t)
    <3>1. u \in GoneCard({t})
      BY <2>1 DEF GoneCard
    <3> QED
      BY <2>4, <3>1 DEF Abort, Accounted
  <2>5. CASE Restart
    <3>1. u \in GoneCard(Tasks)
      BY <2>1 DEF GoneCard, Sealing
    <3> QED
      BY <2>5, <3>1 DEF Restart, Accounted
  <2> QED
    BY <2>1, <2>2, <2>3, <2>4, <2>5, SealingEnds DEF Accounted
<1> QED
  BY <1>1, <1>2 DEF Accounted

\* A row that changes its recovery key takes one that is accounted for.
LEMMA RecoveryStep ==
    ASSUME Types, CardInv, [Next]_vars, NEW u \in Users, account'[u] # None
    PROVE  Accounted(u, account'[u].seal.recovery, cards', unshown', task')
<1>0. account[u] # None => account[u] \in Account
  BY DEF Types, Typed, TypeOK
<1>1. CASE account[u] = None
  <2>1. PICK t \in Tasks : /\ task'[t].pc = "seal" /\ task'[t].user = u /\ task'[t].op \in {"create", "setup"}
                           /\ task'[t].record = account'[u].seal
    BY <1>1, NewRows
  <2>2. Showing(task'[t], u, account'[u].seal.recovery)
    BY <2>1 DEF Showing
  <2> QED
    BY <2>2 DEF Accounted
<1>2. CASE account[u] # None /\ account'[u].seal = account[u].seal
  BY <1>2, StaysAccounted DEF CardInv
<1>3. ASSUME NEW t \in Tasks, WritePassword(t), account'[u].seal # account[u].seal
      PROVE  Accounted(u, account'[u].seal.recovery, cards', unshown', task')
  <2> DEFINE r == task[t]
             p == r.other
             k == minted + 1
  <2>1. /\ r.op = "change" /\ r.pc = "write" /\ Busy(t)
        /\ account' = [account EXCEPT ![r.user].hash = p, ![r.user].seal = Resealed(t)]
    BY <1>3 DEF WritePassword, At, Busy
  <2>2. u = r.user
    BY <1>3, <2>1 DEF Types, Typed, TypeOK
  <2>3. r.record \in Seal /\ account[u] # None
    BY <2>1, <2>2, BusyTask DEF Carries, Types, OfMember, Kinds
  <2>4. account'[u] = [account[u] EXCEPT !.hash = p, !.seal = Resealed(t)]
    BY <2>1, <2>2 DEF Types, Typed, TypeOK
  <2>5. Resealed(t) = [r.record EXCEPT !.password = p, !.made = k]
    BY DEF Resealed
  <2> HIDE DEF p, k
  <2>6. Resealed(t).recovery = r.record.recovery
    BY <2>3, <2>5 DEF Seal
  <2>7. account'[u].seal = Resealed(t)
    BY <1>0, <2>3, <2>4 DEF Account
  <2>8. Accounted(u, r.record.recovery, cards, unshown, task)
    BY <2>1, <2>2 DEF CardInv, HoldsCard
  <2> QED
    BY <2>6, <2>7, <2>8, StaysAccounted
<1>4. ASSUME NEW t \in Tasks, WriteRecovery(t), account'[u].seal # account[u].seal
      PROVE  Accounted(u, account'[u].seal.recovery, cards', unshown', task')
  <2> DEFINE r == task[t]
  <2>1. r.op = "rotate" /\ Busy(t)
    BY <1>4 DEF WriteRecovery, At, Busy
  <2>2. /\ account' = [account EXCEPT ![r.user].seal = Rotated(t)]
        /\ task' = [task EXCEPT ![t].pc = "seal", ![t].record = Rotated(t)]
    BY <1>4 DEF WriteRecovery
  <2>3. u = r.user
    BY <1>4, <2>2 DEF Types, Typed, TypeOK
  <2>4. r \in Request /\ account[u] # None
    BY <2>1, <2>3, BusyTask DEF Types, OfMember, Kinds
  <2>5. account'[u].seal = Rotated(t)
    <3>1. account'[u] = [account[u] EXCEPT !.seal = Rotated(t)]
      BY <2>2, <2>3 DEF Types, Typed, TypeOK
    <3> QED
      BY <1>0, <2>4, <3>1 DEF Account
  <2> DEFINE x == [r EXCEPT !.pc = "seal", !.record = Rotated(t)]
  <2>6. x.op = "rotate" /\ x.pc = "seal" /\ x.user = u /\ x.record = Rotated(t)
    BY <2>1, <2>3, <2>4 DEF Request
  <2>7. task'[t] = x
    BY <2>2 DEF Types, Typed, TypeOK
  <2> HIDE DEF x
  <2>8. Showing(task'[t], u, account'[u].seal.recovery)
    BY <2>5, <2>6, <2>7 DEF Showing
  <2> QED
    BY <2>8 DEF Accounted
<1>5. ASSUME NEW t \in Tasks, ServiceSeal(t, TRUE) \/ TotpEnroll(t) \/ TotpDisable(t), account[u] # None
      PROVE  account'[u].seal = account[u].seal
  <2>1. PICK x : \/ account' = [account EXCEPT ![task[t].user].totp = x]
                 \/ account' = [account EXCEPT ![task[t].user].service = x]
    BY <1>5 DEF ServiceSeal, TotpEnroll, TotpDisable, SetSecret
  <2>2. \/ account'[u] = account[u]
        \/ account'[u] = [account[u] EXCEPT !.totp = x]
        \/ account'[u] = [account[u] EXCEPT !.service = x]
    BY <2>1 DEF Types, Typed, TypeOK
  <2> QED
    BY <1>0, <1>5, <2>2 DEF Account
<1>6. ASSUME NEW t \in Tasks, NEW role, CreateLocal(t, role), account[u] # None
      PROVE  account'[u] = account[u]
  BY <1>6 DEF CreateLocal, Exists, Types, Typed, TypeOK
<1>7. \/ account' = account
      \/ \E t \in Tasks :
           \/ ServiceSeal(t, TRUE)
           \/ \E role \in {"admin", "user"} : CreateLocal(t, role)
           \/ WritePassword(t) \/ WriteRecovery(t) \/ TotpEnroll(t) \/ TotpDisable(t)
  BY AccountSteps
<1> QED
  BY <1>1, <1>2, <1>3, <1>4, <1>5, <1>6, <1>7

LEMMA HoldsCardStep ==
    ASSUME Types, CardInv, [Next]_vars, NEW t \in Tasks
    PROVE  HoldsCard(task'[t], current', cards', unshown', task')
<1>0. Types'
  BY NextTypes
<1> DEFINE s == task'[t]
           r == task[t]
<1>1. s # Idle => s.user \in Users
  BY <1>0 DEF Types, Typed, TypeOK, Request
<1>2. CASE s = Idle
  BY <1>2 DEF HoldsCard, Idle
<1>3. CASE s = r /\ s # Idle
  <2>1. HoldsCard(r, current, cards, unshown, task) /\ OfMember(r, account)
    BY DEF CardInv, Types
  <2>2. ASSUME r.op \in {"setup", "create", "rotate"}, r.pc = "seal" PROVE r.record.recovery \in current'[r.user]
    <3>1. account[r.user] # None
      BY <2>1, <2>2 DEF OfMember, Kinds
    <3> QED
      BY <1>1, <1>3, <2>1, <2>2, <3>1, CardSteps DEF HoldsCard
  <2>3. ASSUME r.op = "change", r.pc = "write"
        PROVE  Accounted(r.user, r.record.recovery, cards', unshown', task')
    BY <1>1, <1>3, <2>1, <2>3, StaysAccounted DEF HoldsCard
  <2> QED
    BY <1>3, <2>2, <2>3 DEF HoldsCard
<1>4. CASE Arrive(t)
  BY <1>4, Arrival DEF HoldsCard
<1>5. CASE GoesOn(t) /\ s # Idle
  <2>1. CASE s.op \in {"create", "setup"}
    <3>1. /\ s.record = NewSeal(r.password, minted + 1)
          /\ current' = [current EXCEPT ![s.user] = {minted + 2}]
      BY <1>5, <2>1 DEF GoesOn
    <3>2. s.record.recovery = minted + 2
      <4>1. minted \in Nat
        BY DEF Types, Typed, TypeOK
      <4>2. NewSeal(r.password, minted + 1).recovery = minted + 1 + 1
        BY DEF NewSeal
      <4> QED
        BY <3>1, <4>1, <4>2
    <3>3. s.record.recovery \in current'[s.user]
      BY <1>1, <1>5, <3>1, <3>2 DEF Types, Typed, TypeOK
    <3> QED
      BY <2>1, <3>3 DEF HoldsCard
  <2>2. CASE s.op = "rotate" /\ s.pc = "seal"
    <3> DEFINE k == minted + 1
    <3>1. WriteRecovery(t) /\ s.record = Rotated(t) /\ s.user = r.user
      BY <1>5, <2>2 DEF GoesOn
    <3>2. Busy(t) /\ r.op = "rotate" /\ r.pc = "write"
      BY <3>1 DEF WriteRecovery, At, Busy
    <3>3. r.record \in Seal
      BY <3>2, BusyTask DEF Carries
    <3>4. s.record = [r.record EXCEPT !.recovery = k, !.made = k, !.inRecovery = r.record.inPassword]
      BY <3>1 DEF Rotated
    <3>5. current' = [current EXCEPT ![r.user] = @ \cup {k}]
      <4>1. ~End(t)
        BY <1>5 DEF End, Types, Typed, TypeOK
      <4> QED
        BY <3>1, <4>1 DEF WriteRecovery
    <3> HIDE DEF k
    <3>6. s.record.recovery = k
      BY <3>3, <3>4 DEF Seal
    <3>7. s.record.recovery \in current'[s.user]
      BY <1>1, <1>5, <3>1, <3>5, <3>6 DEF Types, Typed, TypeOK
    <3> QED
      BY <2>2, <3>7 DEF HoldsCard
  <2>3. CASE s.op = "change" /\ s.pc = "write"
    <3>1. s.record = account[r.user].seal /\ s.user = r.user /\ r.op = "change"
      BY <1>5, <2>3 DEF GoesOn
    <3>2. s.user \in Users /\ account[s.user] # None
      BY <1>1, <1>5, <3>1 DEF Types, OfMember, Kinds
    <3>3. Accounted(s.user, s.record.recovery, cards, unshown, task)
      BY <3>1, <3>2 DEF CardInv
    <3>4. Accounted(s.user, s.record.recovery, cards', unshown', task')
      BY <3>2, <3>3, StaysAccounted
    <3> QED
      BY <2>3, <3>4 DEF HoldsCard
  <2> QED
    BY <2>1, <2>2, <2>3 DEF HoldsCard
<1> QED
  BY <1>2, <1>3, <1>4, <1>5, Reaches

LEMMA NextCards == Types /\ CardInv /\ [Next]_vars => CardInv'
<1> SUFFICES ASSUME Types, CardInv, [Next]_vars PROVE CardInv'
  OBVIOUS
<1>1. \A u \in Users : account'[u] # None => Accounted(u, account'[u].seal.recovery, cards', unshown', task')
  BY RecoveryStep
<1>2. \A t \in Tasks : HoldsCard(task'[t], current', cards', unshown', task')
  BY HoldsCardStep
<1>3. ASSUME NEW t \in Tasks, NEW u \in Users, NEW k, Showing(task[t], u, k)
      PROVE  account[u] # None /\ k \in current[u]
  <2>1. OfMember(task[t], account) /\ HoldsCard(task[t], current, cards, unshown, task)
    BY DEF Types, CardInv
  <2> QED
    BY <1>3, <2>1 DEF OfMember, Showing, HoldsCard, Kinds
<1>4. ASSUME NEW u \in Users PROVE cards'[u] \subseteq current'[u]
  <2>1. CASE current[u] \subseteq current'[u]
    BY <1>3, <2>1, CardSteps DEF CardInv
  <2>2. CASE account[u] = None
    BY <1>3, <2>2, CardSteps DEF CardInv
  <2> QED
    BY <2>1, <2>2, CardSteps
<1>5. ASSUME NEW u \in Users, account'[u] = None PROVE cards'[u] = {}
  <2>1. account[u] = None
    BY <1>5, NextTypes, NoRowIsNone DEF Grows
  <2> QED
    BY <1>3, <2>1, CardSteps DEF CardInv
<1> QED
  BY <1>1, <1>2, <1>4, <1>5 DEF CardInv

LEMMA InitCards == Init => CardInv
<1> SUFFICES ASSUME Init PROVE CardInv
  OBVIOUS
<1>1. PICK start \in {Fresh} \cup {Installed(u, p, s) :
                        u \in Users, p \in Passwords, s \in SessionIds} :
        account = start.account /\ cards = start.cards /\ current = start.cards
  BY DEF Init
<1>2. \A t \in Tasks : HoldsCard(task[t], current, cards, unshown, task)
  BY DEF Init, HoldsCard, Idle
<1>3. CASE start = Fresh
  <2>1. \A u \in Users : account[u] = None /\ cards[u] = {}
    BY <1>1, <1>3 DEF Fresh
  <2> QED
    BY <1>2, <2>1 DEF CardInv
<1>4. ASSUME NEW u \in Users, NEW p \in Passwords, NEW s \in SessionIds, start = Installed(u, p, s)
      PROVE  CardInv
  <2> DEFINE seal == [password |-> p, inPassword |-> 1, recovery |-> 2, inRecovery |-> 1, made |-> 2]
             a == [hash |-> p, service |-> 1, totp |-> None, role |-> "admin", seal |-> seal]
  <2>1. /\ account = [[v \in Users |-> None] EXCEPT ![u] = a]
        /\ cards = [[v \in Users |-> {}] EXCEPT ![u] = {2}]
        /\ current = cards
    BY <1>1, <1>4 DEF Installed, Fresh
  <2>2. a.seal = seal /\ seal.recovery = 2
    OBVIOUS
  <2>3. a \in Account
    BY DEF Account, Seal, Secrets
  <2> HIDE DEF a, seal
  <2>4. /\ account[u] = a /\ cards[u] = {2} /\ a # None
        /\ \A v \in Users : v # u => account[v] = None /\ cards[v] = {}
    BY <2>1, <2>3, NoRowIsNone
  <2>5. account[u].seal.recovery = 2
    BY <2>2, <2>4
  <2>6. Accounted(u, account[u].seal.recovery, cards, unshown, task)
    BY <2>4, <2>5 DEF Accounted
  <2>7. ASSUME NEW v \in Users
        PROVE  /\ account[v] # None => Accounted(v, account[v].seal.recovery, cards, unshown, task)
               /\ account[v] = None => cards[v] = {}
               /\ cards[v] \subseteq current[v]
    BY <2>1, <2>4, <2>6
  <2> QED
    BY <1>2, <2>7 DEF CardInv
<1> QED
  BY <1>1, <1>3, <1>4

\* No recovery key is shown that was never in force, and the one in force is
\* on a card, on its way to one, or its response was lost, although rotations
\* and password changes of a user overlap and write back what they read.
THEOREM CardsHonestHolds == Spec => []CardsHonest
<1>1. Init => Types /\ CardInv
  BY InitTypes, InitCards
<1>2. Types /\ CardInv /\ [Next]_vars => (Types /\ CardInv)'
  BY NextTypes, NextCards
<1>3. Types /\ CardInv => CardsHonest
  <2> SUFFICES ASSUME Types, CardInv, NEW u \in Users, account[u] # None
               PROVE  /\ cards[u] \subseteq current[u]
                      /\ \/ account[u].seal.recovery \in cards[u]
                         \/ u \in unshown
                         \/ \E t \in Sealing(u) : Shows(t) /\ task[t].record.recovery = account[u].seal.recovery
    BY DEF CardsHonest, Exists
  <2>1. Accounted(u, account[u].seal.recovery, cards, unshown, task)
    BY DEF CardInv
  <2>2. ASSUME NEW t \in Tasks, Showing(task[t], u, account[u].seal.recovery)
        PROVE  t \in Sealing(u) /\ Shows(t) /\ task[t].record.recovery = account[u].seal.recovery
    BY <2>2, ShowingTask DEF Showing
  <2> QED
    BY <2>1, <2>2 DEF CardInv, Accounted
<1> QED
  BY <1>1, <1>2, <1>3, PTL DEF Spec

-----------------------------------------------------------------------------
(* A passkey challenge is used once *)

\* A request of u that was handed a challenge and has not used it yet.
Holding(r, u) == r.op = "finish" /\ r.pc = "store" /\ r.user = u

\* A number that was given out, is not on a passkey and not up for grabs.
Reserved(n, used, up, last) == n <= last /\ n \notin used /\ \A c \in up : c.id # n

OnceInv ==
    /\ \A u \in Users : \A c, d \in challenge[u] : c.id = d.id => c = d
    /\ \A u \in Users : \A n \in passkey[u] : n <= minted
    /\ \A u \in Users : \A c \in challenge[u] : c.id \notin passkey[u]
    /\ \A t \in Tasks : \A u \in Users : Holding(task[t], u) =>
          Reserved(task[t].secret, passkey[u], challenge[u], minted)
    /\ \A t, j \in Tasks : \A u \in Users :
          Holding(task[t], u) /\ Holding(task[j], u) /\ task[t].secret = task[j].secret => t = j

\* Only consume_challenge hands one out.
LEMMA HoldersStay ==
    ASSUME Types, [Next]_vars, NEW j \in Tasks, NEW u \in Users, Holding(task'[j], u), ~ConsumeChallenge(j)
    PROVE  task'[j] = task[j]
<1> SUFFICES ASSUME task'[j] # task[j] PROVE FALSE
  OBVIOUS
<1>1. CASE task'[j] = Idle
  BY <1>1 DEF Holding, Idle
<1>2. CASE Arrive(j)
  BY <1>2, Arrival DEF Holding
<1>3. CASE GoesOn(j)
  BY <1>3 DEF GoesOn, Holding
<1> QED
  BY <1>1, <1>2, <1>3, Reaches

LEMMA MintedGrows ==
    ASSUME Types, [Next]_vars
    PROVE  minted \in Nat /\ minted' \in Nat /\ minted <= minted'
<1>1. minted \in Nat
  BY DEF Types, Typed, TypeOK
<1>2. ASSUME NEW t \in Tasks, Handle(t)
      PROVE  minted' = minted \/ minted' = minted + 1 \/ minted' = minted + 2
  BY <1>2 DEF Handle, Authenticate, RecordFailure, RecordSuccess, CreateSession, ServiceSeal, CreateLocal,
     ReadRecord, WritePassword, PurgeSessions, WriteRecovery, TotpEnroll, TotpDisable, StartEnrollment,
     ConsumeChallenge, StorePasskey, RemovePasskey, MintKey, RevokeKey, SaveSecurity, Abort, bounds
<1>3. minted' = minted \/ minted' = minted + 1 \/ minted' = minted + 2
  BY <1>2, ThreeKinds, ArriveFrame, WorldFrame
<1> QED
  BY <1>1, <1>3

\* The steps that touch neither the challenges nor, but for removals, the passkeys.
Quiet ==
    /\ challenge' = challenge
    /\ \A u \in Users : passkey'[u] \subseteq passkey[u]

LEMMA PasskeySteps ==
    ASSUME Types, [Next]_vars
    PROVE  \/ Quiet /\ \A t \in Tasks : ConsumeChallenge(t) => Live(task[t].user) = {}
           \/ \E t \in Tasks : StartEnrollment(t)
           \/ \E t \in Tasks : ConsumeChallenge(t) /\ Handle(t) /\ Live(task[t].user) # {}
           \/ \E t \in Tasks : \E n \in 1 .. minted : StorePasskey(t, n)
           \/ \E u \in Users : \E c \in Live(u) : ChallengeExpires(u, c)
<1>1. ASSUME NEW t \in Tasks, NEW n \in 1 .. minted, RemovePasskey(t, n)
      PROVE  Quiet
  <2>1. passkey' = [passkey EXCEPT ![task[t].user] = @ \ {n}] /\ challenge' = challenge
    BY <1>1 DEF RemovePasskey
  <2>2. passkey = [v \in Users |-> passkey[v]]
    BY DEF Types, Typed, TypeOK
  <2> QED
    BY <2>1, <2>2 DEF Quiet
<1>2. ASSUME NEW t \in Tasks, Handle(t), ~StartEnrollment(t), ~ConsumeChallenge(t),
             ~\E n \in 1 .. minted : StorePasskey(t, n) \/ RemovePasskey(t, n)
      PROVE  Quiet
  BY <1>2 DEF Handle, Authenticate, RecordFailure, RecordSuccess, CreateSession, ServiceSeal, CreateLocal,
     ReadRecord, WritePassword, PurgeSessions, WriteRecovery, TotpEnroll, TotpDisable,
     MintKey, RevokeKey, SaveSecurity, Abort, tables, Quiet
<1>3. ASSUME NEW t \in Tasks, ConsumeChallenge(t), Live(task[t].user) = {}
      PROVE  Quiet
  BY <1>3 DEF ConsumeChallenge, Quiet
<1>4. ASSUME NEW t \in Tasks, Arrive(t) PROVE Quiet
  BY <1>4, ArriveFrame DEF Quiet, tables
<1>5. CASE World /\ ~\E u \in Users : \E c \in Live(u) : ChallengeExpires(u, c)
  <2>1. challenge' = challenge
    BY <1>5 DEF World, Restart, MeetExpired, Logout, SessionExpires, FetchKey, WindowElapses, vars, tables
  <2>2. World
    BY <1>5
  <2>3. passkey' = passkey
    BY <2>2, WorldFrame
  <2> QED
    BY <2>1, <2>3 DEF Quiet, Handle
<1> QED
  BY <1>1, <1>2, <1>3, <1>4, <1>5, ThreeKinds DEF Handle

LEMMA QuietOnce ==
    ASSUME Types, OnceInv, [Next]_vars, Quiet, \A t \in Tasks : ConsumeChallenge(t) => Live(task[t].user) = {}
    PROVE  OnceInv'
<1>1. ASSUME NEW j \in Tasks, NEW u \in Users, Holding(task'[j], u)
      PROVE  task'[j] = task[j]
  <2>1. CASE ConsumeChallenge(j)
    <3>1. Live(task[j].user) = {}
      BY <2>1
    <3>2. task'[j] = Idle
      BY <2>1, <3>1 DEF ConsumeChallenge, End, Types, Typed, TypeOK
    <3> QED
      BY <1>1, <3>2 DEF Holding, Idle
  <2> QED
    BY <1>1, <2>1, HoldersStay
<1>2. minted \in Nat /\ minted' \in Nat /\ minted <= minted'
  BY MintedGrows
<1>3. /\ \A u \in Users : \A c, d \in challenge'[u] : c.id = d.id => c = d
      /\ \A u \in Users : \A c \in challenge'[u] : c.id \notin passkey'[u]
  BY DEF Quiet, OnceInv
<1>4. ASSUME NEW u \in Users, NEW n \in passkey'[u] PROVE n <= minted'
  <2>1. n \in passkey[u] /\ n \in Nat /\ n <= minted
    BY DEF Quiet, OnceInv, Types, Typed, TypeOK, Secrets
  <2> QED
    BY <1>2, <2>1
<1>5. ASSUME NEW t \in Tasks, NEW u \in Users, Holding(task'[t], u)
      PROVE  Reserved(task'[t].secret, passkey'[u], challenge'[u], minted')
  <2>1. task'[t] = task[t]
    BY <1>1, <1>5
  <2>2. Reserved(task[t].secret, passkey[u], challenge[u], minted)
    BY <1>5, <2>1 DEF OnceInv
  <2>3. task[t].secret \in Nat
    BY <1>5, <2>1 DEF Types, Typed, Carries, Holding, Secrets
  <2>4. task[t].secret <= minted'
    BY <1>2, <2>2, <2>3 DEF Reserved
  <2> QED
    BY <2>1, <2>2, <2>4 DEF Reserved, Quiet
<1>6. ASSUME NEW t \in Tasks, NEW j \in Tasks, NEW u \in Users,
             Holding(task'[t], u), Holding(task'[j], u), task'[t].secret = task'[j].secret
      PROVE  t = j
  <2>1. task'[t] = task[t] /\ task'[j] = task[j]
    BY <1>1, <1>6
  <2> QED
    BY <1>6, <2>1 DEF OnceInv
<1> QED
  BY <1>3, <1>4, <1>5, <1>6 DEF OnceInv

\* A step of one task, with the requests that hold a challenge.
LEMMA OthersStay ==
    ASSUME Types, [Next]_vars, NEW t \in Tasks, Handle(t), NEW j \in Tasks, NEW u \in Users,
           Holding(task'[j], u), j # t
    PROVE  /\ task'[j] = task[j] /\ Holding(task[j], u) /\ task[j].secret \in Nat
           /\ OnceInv => Reserved(task[j].secret, passkey[u], challenge[u], minted)
<1>1. task'[j] = task[j]
  BY OneMoves
<1>2. Holding(task[j], u)
  BY <1>1
<1>3. task[j].secret \in Nat
  BY <1>2 DEF Types, Typed, Carries, Holding, Secrets
<1> QED
  BY <1>1, <1>2, <1>3 DEF OnceInv

LEMMA StartOnce ==
    ASSUME Types, OnceInv, [Next]_vars, NEW t \in Tasks, StartEnrollment(t)
    PROVE  OnceInv'
<1> DEFINE u == task[t].user
           k == minted + 1
           new == [id |-> k, expired |-> FALSE]
<1>1. /\ challenge' = [challenge EXCEPT ![u] = Live(u) \cup {new}]
      /\ minted' = k /\ passkey' = passkey /\ task'[t] = Idle
  BY DEF StartEnrollment, End, Types, Typed, TypeOK
<1>2. Handle(t)
  BY DEF Handle
<1>3. minted \in Nat /\ k \in Nat /\ minted < k /\ new.id = k
  BY DEF Types, Typed, TypeOK
<1> HIDE DEF new
<1>4. \A v \in Users : challenge'[v] \subseteq challenge[v] \cup {new}
  BY <1>1 DEF Live, Types, Typed, TypeOK
<1>5. \A v \in Users : \A c \in challenge[v] : c.id \in Nat /\ c.id <= minted
  BY <1>3 DEF Types, Numbered
<1>6. \A v \in Users : \A n \in passkey[v] : n \in Nat /\ n <= minted
  BY DEF OnceInv, Types, Typed, TypeOK, Secrets
<1> HIDE DEF k
<1>a. \A n \in Nat : n <= minted => n <= k /\ n # k
  BY <1>3
<1>7. ASSUME NEW v \in Users, NEW c \in challenge'[v], NEW d \in challenge'[v], c.id = d.id
      PROVE  c = d
  BY <1>3, <1>4, <1>5, <1>7, <1>a DEF OnceInv
<1>8. ASSUME NEW v \in Users, NEW c \in challenge'[v] PROVE c.id \notin passkey'[v]
  BY <1>1, <1>3, <1>4, <1>6, <1>a DEF OnceInv
<1>9. \A v \in Users : \A n \in passkey'[v] : n <= minted'
  BY <1>1, <1>6, <1>a
<1>10. ASSUME NEW j \in Tasks, NEW v \in Users, Holding(task'[j], v)
      PROVE  /\ task'[j] = task[j] /\ Holding(task[j], v)
             /\ Reserved(task'[j].secret, passkey'[v], challenge'[v], minted')
  <2>1. j # t
    BY <1>1, <1>10 DEF Holding, Idle
  <2>2. /\ task'[j] = task[j] /\ Holding(task[j], v) /\ task[j].secret \in Nat
        /\ Reserved(task[j].secret, passkey[v], challenge[v], minted)
    BY <1>2, <1>10, <2>1, OthersStay
  <2> QED
    BY <1>1, <1>3, <1>4, <1>a, <2>2 DEF Reserved
<1>11. ASSUME NEW i \in Tasks, NEW j \in Tasks, NEW v \in Users,
              Holding(task'[i], v), Holding(task'[j], v), task'[i].secret = task'[j].secret
       PROVE  i = j
  BY <1>10, <1>11 DEF OnceInv
<1> QED
  BY <1>7, <1>8, <1>9, <1>10, <1>11 DEF OnceInv

LEMMA ConsumeOnce ==
    ASSUME Types, OnceInv, [Next]_vars, NEW t \in Tasks, Handle(t), ConsumeChallenge(t), Live(task[t].user) # {}
    PROVE  OnceInv'
<1> DEFINE u == task[t].user
           c == Newest(u)
           x == [task[t] EXCEPT !.pc = "store", !.secret = c.id]
<1>0. Busy(t)
  BY DEF ConsumeChallenge, At, Busy
<1>1. task[t] \in Request /\ u \in Users
  BY <1>0, BusyTask DEF Request
<1>2. c \in challenge[u] /\ c.id \in 0 .. minted /\ minted \in Nat
  BY <1>1, NewestLives DEF Live, Types, Numbered, Typed, TypeOK
<1>3. /\ challenge' = [challenge EXCEPT ![u] = @ \ {c}]
      /\ minted' = minted /\ passkey' = passkey /\ task' = [task EXCEPT ![t] = x]
  BY DEF ConsumeChallenge, bounds
<1> HIDE DEF c
<1>4. x.user = u /\ x.secret = c.id
  BY <1>1 DEF Request
<1> HIDE DEF x
<1>5. task'[t] = x
  BY <1>3 DEF Types, Typed, TypeOK
<1>6. /\ \A v \in Users : challenge'[v] \subseteq challenge[v]
      /\ challenge'[u] = challenge[u] \ {c}
  BY <1>1, <1>3 DEF Types, Typed, TypeOK
<1>7. ASSUME NEW v \in Users, Holding(task'[t], v)
      PROVE  v = u /\ task'[t].secret = c.id
  BY <1>4, <1>5, <1>7 DEF Holding
<1>8. Reserved(c.id, passkey'[u], challenge'[u], minted')
  <2>1. c.id \notin passkey[u] /\ \A d \in challenge[u] : d.id = c.id => d = c
    BY <1>1, <1>2 DEF OnceInv
  <2> QED
    BY <1>2, <1>3, <1>6, <2>1 DEF Reserved
<1>9. ASSUME NEW j \in Tasks, j # t, NEW v \in Users, Holding(task'[j], v)
      PROVE  /\ task'[j] = task[j] /\ Holding(task[j], v)
             /\ Reserved(task'[j].secret, passkey'[v], challenge'[v], minted')
             /\ v = u => task'[j].secret # c.id
  <2>1. /\ task'[j] = task[j] /\ Holding(task[j], v)
        /\ Reserved(task[j].secret, passkey[v], challenge[v], minted)
    BY <1>9, OthersStay
  <2> QED
    BY <1>2, <1>3, <1>6, <2>1 DEF Reserved
<1>10. ASSUME NEW i \in Tasks, NEW j \in Tasks, NEW v \in Users,
              Holding(task'[i], v), Holding(task'[j], v), task'[i].secret = task'[j].secret
       PROVE  i = j
  <2>1. CASE i = t /\ j # t
    BY <1>7, <1>9, <1>10, <2>1
  <2>2. CASE j = t /\ i # t
    BY <1>7, <1>9, <1>10, <2>2
  <2>3. CASE i # t /\ j # t
    BY <1>9, <1>10, <2>3 DEF OnceInv
  <2> QED
    BY <2>1, <2>2, <2>3
<1>11. ASSUME NEW j \in Tasks, NEW v \in Users, Holding(task'[j], v)
       PROVE  Reserved(task'[j].secret, passkey'[v], challenge'[v], minted')
  BY <1>7, <1>8, <1>9, <1>11
<1>12. /\ \A v \in Users : \A d, e \in challenge'[v] : d.id = e.id => d = e
       /\ \A v \in Users : \A d \in challenge'[v] : d.id \notin passkey'[v]
       /\ \A v \in Users : \A n \in passkey'[v] : n <= minted'
  BY <1>3, <1>6 DEF OnceInv
<1> QED
  BY <1>10, <1>11, <1>12 DEF OnceInv

LEMMA StoreOnce ==
    ASSUME Types, OnceInv, [Next]_vars, NEW t \in Tasks, NEW n \in 1 .. minted, StorePasskey(t, n)
    PROVE  OnceInv'
<1> DEFINE u == task[t].user
<1>0. Handle(t) /\ Busy(t)
  BY DEF Handle, StorePasskey, At, Busy
<1>1. u \in Users /\ Holding(task[t], u)
  BY <1>0, BusyTask DEF Request, StorePasskey, At, Holding
<1>2. /\ challenge' = challenge /\ minted' = minted /\ task'[t] = Idle
      /\ passkey' = passkey \/ (n = task[t].secret /\ passkey' = [passkey EXCEPT ![u] = @ \cup {n}])
  BY DEF StorePasskey, bounds, End, Types, Typed, TypeOK
<1>3. Reserved(task[t].secret, passkey[u], challenge[u], minted)
  BY <1>1 DEF OnceInv
<1>4. ASSUME NEW v \in Users, NEW m \in passkey'[v]
      PROVE  m \in passkey[v] \/ (v = u /\ m = task[t].secret)
  BY <1>1, <1>2 DEF Types, Typed, TypeOK
<1>5. ASSUME NEW j \in Tasks, NEW v \in Users, Holding(task'[j], v)
      PROVE  /\ task'[j] = task[j] /\ Holding(task[j], v)
             /\ Reserved(task'[j].secret, passkey'[v], challenge'[v], minted')
  <2>1. j # t
    BY <1>2, <1>5 DEF Holding, Idle
  <2>2. /\ task'[j] = task[j] /\ Holding(task[j], v)
        /\ Reserved(task[j].secret, passkey[v], challenge[v], minted)
    BY <1>0, <1>5, <2>1, OthersStay
  <2>3. v = u => task[j].secret # task[t].secret
    BY <1>1, <2>1, <2>2 DEF OnceInv
  <2>4. task[j].secret \notin passkey'[v]
    BY <1>4, <2>2, <2>3 DEF Reserved
  <2> QED
    BY <1>2, <2>2, <2>4 DEF Reserved
<1>6. ASSUME NEW i \in Tasks, NEW j \in Tasks, NEW v \in Users,
             Holding(task'[i], v), Holding(task'[j], v), task'[i].secret = task'[j].secret
      PROVE  i = j
  BY <1>5, <1>6 DEF OnceInv
<1>7. /\ \A v \in Users : \A d, e \in challenge'[v] : d.id = e.id => d = e
      /\ \A v \in Users : \A d \in challenge'[v] : d.id \notin passkey'[v]
      /\ \A v \in Users : \A m \in passkey'[v] : m <= minted'
  BY <1>2, <1>3, <1>4 DEF OnceInv, Reserved
<1> QED
  BY <1>5, <1>6, <1>7 DEF OnceInv

LEMMA ExpireOnce ==
    ASSUME Types, OnceInv, NEW u \in Users, NEW c \in Live(u), ChallengeExpires(u, c)
    PROVE  OnceInv'
<1> DEFINE d == [c EXCEPT !.expired = TRUE]
<1>1. c \in challenge[u] /\ c \in [id : Secrets, expired : BOOLEAN]
  BY DEF Live, Types, Typed, TypeOK
<1>2. d.id = c.id
  BY <1>1
<1>3. /\ challenge' = [challenge EXCEPT ![u] = (@ \ {c}) \cup {d}]
      /\ minted' = minted /\ passkey' = passkey /\ task' = task
  BY DEF ChallengeExpires, bounds
<1> HIDE DEF d
<1>4. /\ \A v \in Users : v # u => challenge'[v] = challenge[v]
      /\ challenge'[u] = (challenge[u] \ {c}) \cup {d}
  BY <1>3 DEF Types, Typed, TypeOK
<1>5. ASSUME NEW v \in Users, NEW e \in challenge'[v]
      PROVE  \/ e \in challenge[v] /\ (v = u => e # c)
             \/ v = u /\ e = d
  BY <1>4
<1>6. ASSUME NEW v \in Users, NEW e \in challenge'[v]
      PROVE  \E f \in challenge[v] : f.id = e.id
  BY <1>1, <1>2, <1>5
<1>7. ASSUME NEW v \in Users, NEW e \in challenge'[v], NEW f \in challenge'[v], e.id = f.id
      PROVE  e = f
  BY <1>1, <1>2, <1>5, <1>7 DEF OnceInv
<1>8. ASSUME NEW j \in Tasks, NEW v \in Users, Holding(task'[j], v)
      PROVE  Reserved(task'[j].secret, passkey'[v], challenge'[v], minted')
  <2>1. Reserved(task[j].secret, passkey[v], challenge[v], minted)
    BY <1>3, <1>8 DEF OnceInv
  <2> QED
    BY <1>3, <1>6, <2>1 DEF Reserved
<1>9. /\ \A v \in Users : \A e \in challenge'[v] : e.id \notin passkey'[v]
      /\ \A v \in Users : \A m \in passkey'[v] : m <= minted'
  BY <1>3, <1>6 DEF OnceInv
<1>10. \A i, j \in Tasks : \A v \in Users :
          Holding(task'[i], v) /\ Holding(task'[j], v) /\ task'[i].secret = task'[j].secret => i = j
  BY <1>3 DEF OnceInv
<1> QED
  BY <1>7, <1>8, <1>9, <1>10 DEF OnceInv

\* A challenge is handed to one request and makes at most one passkey, however
\* the ceremonies of a user overlap, expire or are given up.
THEOREM ChallengeUsedOnceHolds == Spec => []ChallengeUsedOnce
<1>1. Init => Types /\ OnceInv
  <2> SUFFICES ASSUME Init PROVE Types /\ OnceInv
    OBVIOUS
  <2>1. \A t \in Tasks : \A u \in Users : ~Holding(task[t], u)
    BY DEF Init, Holding, Idle
  <2>2. \A u \in Users : challenge[u] = {} /\ passkey[u] = {}
    BY DEF Init
  <2> QED
    BY <2>1, <2>2, InitTypes DEF OnceInv
<1>2. Types /\ OnceInv /\ [Next]_vars => (Types /\ OnceInv)'
  <2> SUFFICES ASSUME Types, OnceInv, [Next]_vars PROVE Types' /\ OnceInv'
    OBVIOUS
  <2> QED
    BY NextTypes, PasskeySteps, QuietOnce, StartOnce, ConsumeOnce, StoreOnce, ExpireOnce
<1>3. Types /\ OnceInv => ChallengeUsedOnce
  BY DEF OnceInv, Reserved, Holding, ChallengeUsedOnce, At
<1> QED
  BY <1>1, <1>2, <1>3, PTL DEF Spec

-----------------------------------------------------------------------------
(* The throttle: how far the failures of a name can get past the limit *)

\* The logins of u that were let through and may still be counted a failure.
Waiting(tsk, u) ==
    {t \in Tasks : tsk[t].op = "login" /\ tsk[t].user = u /\ tsk[t].pc \in {"authenticate", "fail"}}

Crowd == Cardinality(Tasks)

\* What is counted and what may still be, against what the windows that ran
\* out have let in; a name whose window ran out has room for another crowd.
ThrottleInv ==
    \A u \in Users :
        /\ throttle[u].failures + Cardinality(Waiting(task, u)) < loosest + Crowd * windows + Crowd
        /\ throttle[u].cool = TRUE => throttle[u].failures < loosest + Crowd * windows

LEMMA CrowdNumber == Crowd \in Nat
BY AccountsAssumption, FS_CardinalityType DEF Crowd

LEMMA Products ==
    ASSUME NEW n \in Nat, NEW w \in Nat
    PROVE  n * w \in Nat /\ n * (w + 1) = n * w + n /\ n * (1 + w) = n * w + n
OBVIOUS

LEMMA WaitingCount ==
    ASSUME NEW tsk, NEW u
    PROVE  /\ IsFiniteSet(Waiting(tsk, u))
           /\ Cardinality(Waiting(tsk, u)) \in Nat /\ Cardinality(Waiting(tsk, u)) <= Crowd
<1>1. Waiting(tsk, u) \subseteq Tasks /\ IsFiniteSet(Tasks)
  BY AccountsAssumption DEF Waiting
<1> QED
  BY <1>1, FS_Subset, FS_CardinalityType DEF Crowd

\* Only a login that the throttle lets through joins the waiting ones.
LEMMA Joining ==
    ASSUME Types, [Next]_vars, NEW u \in Users, NEW j \in Waiting(task', u), j \notin Waiting(task, u)
    PROVE  \E p \in Passwords : \E q \in Codes(u) : LoginStart(j, u, p, q)
<1>1. /\ j \in Tasks /\ task'[j].op = "login" /\ task'[j].user = u
      /\ task'[j].pc \in {"authenticate", "fail"}
  BY DEF Waiting
<1>2. task'[j] # task[j]
  BY <1>1 DEF Waiting
<1>3. task'[j] # Idle
  BY <1>1 DEF Idle
<1>4. ~GoesOn(j)
  BY <1>1 DEF GoesOn, Waiting
<1>5. Arrive(j)
  BY <1>1, <1>2, <1>3, <1>4, Reaches
<1>6. ASSUME NEW op, NEW pc, NEW v, NEW p, NEW q, Start(j, op, pc, v, p, q)
      PROVE  op = "login" /\ v = u
  BY <1>1, <1>6 DEF Start, Types, Typed, TypeOK
<1>7. "login" \notin DOMAIN SignedIn
  BY SignedInKinds DEF Kinds
<1>8. PICK v \in Users : \E p \in Passwords : SetupStart(j, v, p) \/ \E q \in Codes(v) : LoginStart(j, v, p, q)
  BY <1>5, <1>6, <1>7 DEF Arrive, Admit, AdmitBearer
<1>9. PICK p \in Passwords : SetupStart(j, v, p) \/ \E q \in Codes(v) : LoginStart(j, v, p, q)
  BY <1>8
<1>10. ~SetupStart(j, v, p)
  BY <1>6 DEF SetupStart
<1>11. PICK q \in Codes(v) : LoginStart(j, v, p, q)
  BY <1>9, <1>10
<1>12. v = u
  BY <1>6, <1>11 DEF LoginStart
<1> QED
  BY <1>11, <1>12

\* The limit in force only rises in the record of the highest.
LEMMA LoosestSteps ==
    ASSUME Types, [Next]_vars
    PROVE  /\ loosest \in Nat /\ loosest' \in Nat /\ loosest <= loosest' /\ 0 < loosest
           /\ \A t, u, p, q : LoginStart(t, u, p, q) => config \in Nat /\ config <= loosest'
<1>a. LimitMin \in Nat /\ LimitMin # 0 /\ LimitMax \in Nat
  BY AccountsAssumption
<1>b. loosest \in LimitMin .. LimitMax /\ config \in LimitMin .. LimitMax
  BY DEF Types, Typed, TypeOK
<1>1. loosest \in Nat /\ config \in Nat /\ 0 < loosest
  BY <1>a, <1>b
<1>2. ASSUME NEW t, NEW u, NEW p, NEW q, LoginStart(t, u, p, q)
      PROVE  loosest' \in Nat /\ loosest <= loosest' /\ config <= loosest'
  <2>1. loosest' = Max({loosest, config})
    BY <1>2 DEF LoginStart
  <2> QED
    BY <1>1, <2>1, MaxOfTwo
<1>3. ASSUME NEW t \in Tasks, Handle(t) PROVE loosest' = loosest
  BY <1>3 DEF Handle, Authenticate, RecordFailure, RecordSuccess, CreateSession, ServiceSeal, CreateLocal,
     ReadRecord, WritePassword, PurgeSessions, WriteRecovery, TotpEnroll, TotpDisable, StartEnrollment,
     ConsumeChallenge, StorePasskey, RemovePasskey, MintKey, RevokeKey, SaveSecurity, Abort, history
<1>4. World => loosest' = loosest
  BY DEF World, Restart, MeetExpired, Logout, SessionExpires, FetchKey, WindowElapses, ChallengeExpires,
     vars, history
<1>5. ASSUME NEW t \in Tasks, Arrive(t) PROVE loosest' \in Nat /\ loosest <= loosest'
  BY <1>1, <1>2, <1>5 DEF Arrive, Admit, AdmitBearer, SetupStart, history
<1> QED
  BY <1>1, <1>2, <1>3, <1>4, <1>5, ThreeKinds

\* The counters of one name, in numbers: f failures counted and w logins let
\* through, with room for c more in each window.
LEMMA RoomStays ==
    ASSUME NEW f \in Nat, NEW w \in Nat, NEW top \in Nat, NEW b \in Nat, NEW c \in Nat,
           NEW v \in Nat, NEW high \in Nat, v <= w, top <= high
    PROVE  /\ f + w < top + b + c => f + v < high + b + c
           /\ f < top + b => f < high + b
OBVIOUS

LEMMA RoomBelow ==
    ASSUME NEW f \in Nat, NEW v \in Nat, NEW limits \in Nat, NEW high \in Nat, NEW b \in Nat, NEW c \in Nat,
           limits <= high, v <= c
    PROVE  /\ f < limits => f < high + b
           /\ f < limits + b => f < high + b
           /\ f < high + b => f + v < high + b + c
OBVIOUS

LEMMA ThrottleSteps ==
    ASSUME Types, [Next]_vars
    PROVE  \/ throttle' = throttle /\ windows' = windows
           \/ \E t \in Tasks : RecordFailure(t) /\ Handle(t)
           \/ \E t \in Tasks : RecordSuccess(t) /\ Handle(t)
           \/ \E u \in Users : WindowElapses(u)
           \/ Restart
<1>1. ASSUME NEW t \in Tasks, Handle(t), ~RecordFailure(t), ~RecordSuccess(t)
      PROVE  throttle' = throttle /\ windows' = windows
  BY <1>1 DEF Handle, Authenticate, CreateSession, ServiceSeal, CreateLocal,
     ReadRecord, WritePassword, PurgeSessions, WriteRecovery, TotpEnroll, TotpDisable, StartEnrollment,
     ConsumeChallenge, StorePasskey, RemovePasskey, MintKey, RevokeKey, SaveSecurity, Abort, memory, bounds
<1>2. CASE World
  BY <1>2 DEF World, MeetExpired, Logout, SessionExpires, FetchKey, ChallengeExpires, vars, memory, bounds
<1> QED
  BY <1>1, <1>2, ThreeKinds, ArriveFrame

\* Steps that count nothing: only the crowd that waits changes.
LEMMA CountedNothing ==
    ASSUME Types, ThrottleInv, [Next]_vars, throttle' = throttle, windows' = windows
    PROVE  ThrottleInv'
<1> SUFFICES ASSUME NEW u \in Users
             PROVE  /\ throttle[u].failures + Cardinality(Waiting(task', u)) < loosest' + Crowd * windows + Crowd
                    /\ throttle[u].cool = TRUE => throttle[u].failures < loosest' + Crowd * windows
  BY DEF ThrottleInv, Crowd
<1> DEFINE f == throttle[u].failures
           w == Cardinality(Waiting(task, u))
           v == Cardinality(Waiting(task', u))
           b == Crowd * windows
<1>1. f \in Nat /\ windows \in Nat
  BY DEF Types, Typed, TypeOK
<1>2. b \in Nat /\ Crowd \in Nat
  BY <1>1, CrowdNumber, Products
<1>3. w \in Nat /\ v \in Nat /\ v <= Crowd
  BY WaitingCount
<1>4. loosest \in Nat /\ loosest' \in Nat /\ loosest <= loosest'
  BY LoosestSteps
<1>5. f + w < loosest + b + Crowd
  BY DEF ThrottleInv
<1>6. throttle[u].cool = TRUE => f < loosest + b
  BY DEF ThrottleInv
<1>7. throttle[u].cool = TRUE => f < loosest' + b
  <2> SUFFICES ASSUME throttle[u].cool = TRUE PROVE f < loosest' + b
    OBVIOUS
  <2>1. f < loosest + b
    BY <1>6
  <2> HIDE DEF f, b, v
  <2> QED
    BY <1>1, <1>2, <1>3, <1>4, <2>1, RoomBelow
<1>8. CASE Waiting(task', u) \subseteq Waiting(task, u)
  <2>1. v <= w
    BY <1>8, WaitingCount, FS_Subset
  <2>2. f + v < loosest' + b + Crowd
    <3> HIDE DEF f, b, v, w
    <3> QED
      BY <1>1, <1>2, <1>3, <1>4, <1>5, <2>1, RoomStays
  <2> QED
    BY <1>7, <2>2
<1>9. CASE ~(Waiting(task', u) \subseteq Waiting(task, u))
  <2>1. PICK j \in Waiting(task', u) : j \notin Waiting(task, u)
    BY <1>9
  <2>2. PICK p \in Passwords : \E q \in Codes(u) : LoginStart(j, u, p, q)
    BY <2>1, Joining
  <2>3. PICK q \in Codes(u) : LoginStart(j, u, p, q)
    BY <2>2
  <2>4. config \in Nat /\ config <= loosest'
    BY <2>3, LoosestSteps
  <2>5. f < config \/ throttle[u].cool
    BY <2>3 DEF LoginStart, Allowed
  <2>6. throttle[u].cool \in BOOLEAN
    BY DEF Types, Typed, TypeOK
  <2>7. f < loosest' + b
    <3>1. CASE f < config
      <4> HIDE DEF f, b, v
      <4> QED
        BY <1>1, <1>2, <1>3, <1>4, <2>4, <3>1, RoomBelow
    <3> QED
      BY <1>7, <2>5, <2>6, <3>1
  <2>8. f + v < loosest' + b + Crowd
    <3> HIDE DEF f, b, v
    <3> QED
      BY <1>1, <1>2, <1>3, <1>4, <2>4, <2>7, RoomBelow
  <2> QED
    BY <1>7, <2>8
<1> QED
  BY <1>8, <1>9

\* A failure that is counted was waiting to be.
LEMMA CountedFailure ==
    ASSUME Types, ThrottleInv, [Next]_vars, NEW t \in Tasks, RecordFailure(t), Handle(t)
    PROVE  ThrottleInv'
<1> DEFINE name == task[t].user
<1>1. Busy(t)
  BY DEF RecordFailure, At, Busy
<1>2. name \in Users /\ t \in Waiting(task, name)
  BY <1>1, BusyTask DEF Request, RecordFailure, At, Waiting
<1>3. windows' = windows /\ loosest' = loosest /\ task'[t] = Idle /\ windows \in Nat /\ loosest \in Nat
  BY LoosestSteps DEF RecordFailure, End, bounds, history, Types, Typed, TypeOK
<1>4. /\ throttle'[name].failures = throttle[name].failures + 1 /\ throttle'[name].cool = FALSE
      /\ \A u \in Users : u # name => throttle'[u] = throttle[u]
  BY <1>2 DEF RecordFailure, Failed, Types, Typed, TypeOK
<1>5. ASSUME NEW u \in Users, NEW j \in Waiting(task', u)
      PROVE  j # t /\ j \in Waiting(task, u)
  <2>1. j \in Tasks /\ j # t
    BY <1>3 DEF Waiting, Idle
  <2>2. task'[j] = task[j]
    BY <2>1, OneMoves
  <2> QED
    BY <2>1, <2>2 DEF Waiting
<1> DEFINE b == Crowd * windows
<1>6. b \in Nat /\ Crowd \in Nat
  BY <1>3, CrowdNumber, Products
<1>7. ASSUME NEW u \in Users
      PROVE  /\ throttle'[u].failures + Cardinality(Waiting(task', u)) < loosest + b + Crowd
             /\ throttle'[u].cool = TRUE => throttle'[u].failures < loosest + b
  <2> DEFINE f == throttle[u].failures
             w == Cardinality(Waiting(task, u))
             v == Cardinality(Waiting(task', u))
  <2>1. f \in Nat /\ w \in Nat /\ v \in Nat
    BY WaitingCount DEF Types, Typed, TypeOK
  <2>2. f + w < loosest + b + Crowd
    BY DEF ThrottleInv
  <2>3. Waiting(task', u) \subseteq Waiting(task, u) /\ IsFiniteSet(Waiting(task, u))
    BY <1>5, WaitingCount
  <2>4. CASE u = name
    <3>1. Waiting(task', u) \subseteq Waiting(task, u) \ {t}
      BY <1>5
    <3>2. /\ IsFiniteSet(Waiting(task, u) \ {t})
          /\ Cardinality(Waiting(task, u) \ {t}) = w - 1
      BY <1>2, <2>3, <2>4, FS_RemoveElement
    <3>3. v <= w - 1
      BY <3>1, <3>2, FS_Subset
    <3>4. f + 1 + v < loosest + b + Crowd
      <4> HIDE DEF f, w, v, b
      <4> QED
        BY <1>3, <1>6, <2>1, <2>2, <3>3
    <3> QED
      BY <1>4, <2>4, <3>4
  <2>5. CASE u # name
    <3>1. v <= w
      BY <2>3, FS_Subset
    <3>2. f + v < loosest + b + Crowd
      <4> HIDE DEF f, w, v, b
      <4> QED
        BY <1>3, <1>6, <2>1, <2>2, <3>1
    <3>3. throttle[u].cool = TRUE => f < loosest + b
      BY DEF ThrottleInv
    <3> QED
      BY <1>4, <2>5, <3>2, <3>3
  <2> QED
    BY <2>4, <2>5
<1> QED
  BY <1>3, <1>7 DEF ThrottleInv, Crowd

\* A name whose counter is cleared, with whoever waits.
LEMMA Cleared ==
    ASSUME NEW w \in Nat, NEW top \in Nat, NEW b \in Nat, NEW c \in Nat, 0 < top, w <= c
    PROVE  0 + w < top + b + c /\ 0 < top + b
OBVIOUS

LEMMA CountedSuccess ==
    ASSUME Types, ThrottleInv, [Next]_vars, NEW t \in Tasks, RecordSuccess(t), Handle(t)
    PROVE  ThrottleInv'
<1> DEFINE name == task[t].user
           b == Crowd * windows
<1>1. Busy(t)
  BY DEF RecordSuccess, At, Busy
<1>2. name \in Users
  BY <1>1, BusyTask DEF Request
<1>3. windows' = windows /\ loosest' = loosest /\ windows \in Nat /\ loosest \in Nat /\ 0 < loosest
  BY LoosestSteps DEF RecordSuccess, bounds, history, Types, Typed, TypeOK
<1>4. /\ throttle'[name].failures = 0
      /\ \A u \in Users : u # name => throttle'[u] = throttle[u]
  BY <1>2 DEF RecordSuccess, Succeeded, Types, Typed, TypeOK
<1>5. b \in Nat /\ Crowd \in Nat
  BY <1>3, CrowdNumber, Products
<1>6. ASSUME NEW u \in Users PROVE Waiting(task', u) \subseteq Waiting(task, u)
  <2>1. ASSUME NEW j \in Waiting(task', u), j \notin Waiting(task, u) PROVE FALSE
    <3>1. PICK p \in Passwords : \E q \in Codes(u) : LoginStart(j, u, p, q)
      BY <2>1, Joining
    <3>2. task[j].op = "idle" /\ j \in Tasks
      BY <3>1 DEF LoginStart, Start, Busy, Waiting
    <3>3. j # t
      BY <1>1, <3>2 DEF Busy
    <3>4. task'[j] = task[j]
      BY <3>2, <3>3, OneMoves
    <3> QED
      BY <2>1, <3>4 DEF Waiting
  <2> QED
    BY <2>1
<1>7. ASSUME NEW u \in Users
      PROVE  /\ throttle'[u].failures + Cardinality(Waiting(task', u)) < loosest + b + Crowd
             /\ throttle'[u].cool = TRUE => throttle'[u].failures < loosest + b
  <2> DEFINE f == throttle[u].failures
             w == Cardinality(Waiting(task, u))
             v == Cardinality(Waiting(task', u))
  <2>1. f \in Nat /\ w \in Nat /\ v \in Nat /\ v <= Crowd
    BY WaitingCount DEF Types, Typed, TypeOK
  <2>2. v <= w
    BY <1>6, WaitingCount, FS_Subset
  <2>3. CASE u = name
    <3>1. 0 + v < loosest + b + Crowd /\ 0 < loosest + b
      <4> HIDE DEF v, b
      <4> QED
        BY <1>3, <1>5, <2>1, Cleared
    <3> QED
      BY <1>4, <2>3, <3>1
  <2>4. CASE u # name
    <3>1. f + w < loosest + b + Crowd
      BY DEF ThrottleInv
    <3>2. f + v < loosest + b + Crowd
      <4> HIDE DEF f, w, v, b
      <4> QED
        BY <1>3, <1>5, <2>1, <2>2, <3>1
    <3>3. throttle[u].cool = TRUE => f < loosest + b
      BY DEF ThrottleInv
    <3> QED
      BY <1>4, <2>4, <3>2, <3>3
  <2> QED
    BY <2>3, <2>4
<1> QED
  BY <1>3, <1>7 DEF ThrottleInv, Crowd

\* A window that runs out makes room for one more crowd, for every name.
LEMMA CountedWindow ==
    ASSUME Types, ThrottleInv, [Next]_vars, NEW name \in Users, WindowElapses(name)
    PROVE  ThrottleInv'
<1> DEFINE b == Crowd * windows
<1>1. windows' = windows + 1 /\ loosest' = loosest /\ task' = task /\ windows \in Nat /\ loosest \in Nat
  BY LoosestSteps DEF WindowElapses, history, Types, Typed, TypeOK
<1>2. b \in Nat /\ Crowd \in Nat /\ Crowd * (windows + 1) = b + Crowd
  BY <1>1, CrowdNumber, Products
<1>3. \A u \in Users : throttle'[u].failures = throttle[u].failures
  BY DEF WindowElapses, Types, Typed, TypeOK
<1>4. ASSUME NEW u \in Users
      PROVE  /\ throttle[u].failures + Cardinality(Waiting(task, u)) < loosest + (b + Crowd) + Crowd
             /\ throttle[u].failures < loosest + (b + Crowd)
  <2> DEFINE f == throttle[u].failures
             w == Cardinality(Waiting(task, u))
  <2>1. f \in Nat /\ w \in Nat
    BY WaitingCount DEF Types, Typed, TypeOK
  <2>2. f + w < loosest + b + Crowd
    BY DEF ThrottleInv
  <2> HIDE DEF f, w, b
  <2>3. f + w < loosest + (b + Crowd) + Crowd /\ f < loosest + (b + Crowd)
    BY <1>1, <1>2, <2>1, <2>2
  <2> QED
    BY <2>3 DEF f, w
<1>5. Crowd * windows' = b + Crowd
  BY <1>1, <1>2
<1> HIDE DEF b
<1> QED
  BY <1>1, <1>3, <1>4, <1>5 DEF ThrottleInv, Crowd

LEMMA ThrottleForgets ==
    ASSUME Types, [Next]_vars, Restart
    PROVE  ThrottleInv'
<1> DEFINE b == Crowd * windows
<1>1. windows' = windows /\ loosest' = loosest /\ windows \in Nat /\ loosest \in Nat /\ 0 < loosest
  BY LoosestSteps DEF Restart, Types, Typed, TypeOK
<1>2. b \in Nat /\ Crowd \in Nat
  BY <1>1, CrowdNumber, Products
<1>3. ASSUME NEW u \in Users
      PROVE  /\ throttle'[u].failures = 0
             /\ 0 + Cardinality(Waiting(task', u)) < loosest + b + Crowd /\ 0 < loosest + b
  <2> DEFINE v == Cardinality(Waiting(task', u))
  <2>1. v \in Nat /\ v <= Crowd
    BY WaitingCount
  <2>2. 0 + v < loosest + b + Crowd /\ 0 < loosest + b
    <3> HIDE DEF v, b
    <3> QED
      BY <1>1, <1>2, <2>1, Cleared
  <2> QED
    BY <2>2 DEF Restart
<1> QED
  BY <1>1, <1>3 DEF ThrottleInv, Crowd

LEMMA ThrottleBegins == Init => ThrottleInv
<1> SUFFICES ASSUME Init, NEW u \in Users
             PROVE  /\ throttle[u].failures + Cardinality(Waiting(task, u)) < loosest + Crowd * windows + Crowd
                    /\ throttle[u].failures < loosest + Crowd * windows
  BY DEF ThrottleInv
<1> DEFINE b == Crowd * windows
           v == Cardinality(Waiting(task, u))
<1>1. throttle[u].failures = 0 /\ windows \in Nat
  BY DEF Init
<1>2. LimitMin \in Nat /\ LimitMin # 0
  BY AccountsAssumption
<1>3. loosest \in Nat /\ 0 < loosest
  BY <1>2 DEF Init
<1>4. b \in Nat /\ Crowd \in Nat /\ v \in Nat /\ v <= Crowd
  BY <1>1, CrowdNumber, Products, WaitingCount
<1>5. 0 + v < loosest + b + Crowd /\ 0 < loosest + b
  <2> HIDE DEF v, b
  <2> QED
    BY <1>3, <1>4, Cleared
<1> QED
  BY <1>1, <1>5

\* The failures of a name never get past the highest limit by more than the
\* requests in flight for every window that ran out, however the checks and
\* the counts of concurrent logins interleave.
THEOREM ThrottleBoundHolds == Spec => []ThrottleBound
<1>1. Init => Types /\ ThrottleInv
  BY InitTypes, ThrottleBegins
<1>2. Types /\ ThrottleInv /\ [Next]_vars => (Types /\ ThrottleInv)'
  <2> SUFFICES ASSUME Types, ThrottleInv, [Next]_vars PROVE Types' /\ ThrottleInv'
    OBVIOUS
  <2> QED
    BY NextTypes, ThrottleSteps, CountedNothing, CountedFailure, CountedSuccess, CountedWindow, ThrottleForgets
<1>3. Types /\ ThrottleInv => ThrottleBound
  <2> SUFFICES ASSUME Types, ThrottleInv, NEW u \in Users
               PROVE  throttle[u].failures < loosest + Crowd * (1 + windows)
    BY DEF ThrottleBound, Crowd
  <2> DEFINE b == Crowd * windows
             f == throttle[u].failures
             w == Cardinality(Waiting(task, u))
  <2>1. f \in Nat /\ windows \in Nat /\ loosest \in Nat /\ w \in Nat
    BY AccountsAssumption, WaitingCount DEF Types, Typed, TypeOK
  <2>2. b \in Nat /\ Crowd \in Nat /\ Crowd * (1 + windows) = b + Crowd
    BY <2>1, CrowdNumber, Products
  <2>3. f + w < loosest + b + Crowd
    BY DEF ThrottleInv
  <2> HIDE DEF b, f, w
  <2>4. f < loosest + (b + Crowd)
    BY <2>1, <2>2, <2>3
  <2> QED
    BY <2>2, <2>4 DEF f
<1> QED
  BY <1>1, <1>2, <1>3, PTL DEF Spec
=============================================================================
