-------------------------- MODULE LibrarianProofs --------------------------
(***************************************************************************)
(* Theorems about Librarian: the conversation on the wire, the exact cache *)
(* and the books a run is shown, for any runs, paths, texts, books, context *)
(* budget, step cap and number of faults.                                  *)
(***************************************************************************)
EXTENDS Librarian, WellFoundedInduction, TLAPS

-----------------------------------------------------------------------------
(* Least and greatest positions. *)

LEMMA LeastOf ==
    ASSUME NEW m \in Nat, NEW S \in SUBSET (1 .. m), S # {}
    PROVE  Min(S) \in S /\ \A k \in S : Min(S) <= k
<1> DEFINE R == OpToRel(<, Nat)
<1>0. \A x \in S : x \in Nat
  OBVIOUS
<1>1. IsWellFoundedOn(R, Nat)
  BY NatLessThanWellFounded, Zenon
<1>2. \A x, y \in Nat : <<y, x>> \in R <=> y < x
  BY DEF OpToRel
<1> HIDE DEF R
<1>3. \E x \in S : \A y \in S : ~(<<y, x>> \in R)
  BY <1>0, <1>1, WFMin
<1>4. PICK x \in S : \A y \in S : ~(<<y, x>> \in R)
  BY <1>3
<1>5. \A y \in S : x <= y
  <2> SUFFICES ASSUME NEW y \in S PROVE x <= y
    OBVIOUS
  <2>1. x \in Nat /\ y \in Nat /\ ~(y < x)
    BY <1>0, <1>2, <1>4
  <2> QED
    BY <2>1
<1> QED
  BY <1>5 DEF Min

LEMMA GreatestOf ==
    ASSUME NEW m \in Nat, NEW S \in SUBSET (1 .. m), S # {}
    PROVE  Max(S) \in S /\ \A k \in S : Max(S) >= k
<1> DEFINE T == {x \in 1 .. m : m + 1 - x \in S}
<1>1. T # {}
  <2>1. PICK y \in S : TRUE
    OBVIOUS
  <2>2. y \in 1 .. m /\ m + 1 - y \in 1 .. m /\ m + 1 - (m + 1 - y) = y
    OBVIOUS
  <2>3. m + 1 - y \in T
    BY <2>2
  <2> QED
    BY <2>3
<1>2. Min(T) \in T /\ \A k \in T : Min(T) <= k
  BY <1>1, LeastOf
<1> DEFINE x == m + 1 - Min(T)
<1>3. x \in S
  BY <1>2
<1>4. \A y \in S : x >= y
  <2> SUFFICES ASSUME NEW y \in S PROVE x >= y
    OBVIOUS
  <2>1. m + 1 - y \in T /\ Min(T) \in 1 .. m /\ y \in 1 .. m
    BY <1>2
  <2> HIDE DEF T
  <2> QED
    BY <1>2, <2>1
<1> HIDE DEF x
<1> QED
  BY <1>3, <1>4 DEF Max

-----------------------------------------------------------------------------
(* The conversation. *)

Turn == [kind : {"user", "assistant", "calls", "result"}, calls : Seq(Nat \X Nat), size : Nat]

\* The turns so far, and the results that are still to come.
Wire(turns, todo) ==
    [i \in 1 .. Len(turns) + Len(todo) |->
        IF i <= Len(turns) THEN [kind |-> turns[i].kind, calls |-> turns[i].calls]
        ELSE [kind |-> "result", calls |-> <<todo[i - Len(turns)]>>]]

\* Every call is followed by its own results, every result is a call's, and
\* there is a question.
Closed(w) ==
    /\ \E i \in DOMAIN w : w[i].kind = "user"
    /\ \A i \in DOMAIN w : w[i].kind = "calls" =>
          \A k \in 1 .. Len(w[i].calls) :
              i + k \in DOMAIN w /\ w[i + k].kind = "result" /\ w[i + k].calls = <<w[i].calls[k]>>
    /\ \A j \in DOMAIN w : w[j].kind = "result" =>
          \E i \in DOMAIN w : w[i].kind = "calls" /\ j \in i + 1 .. i + Len(w[i].calls)

Talks(turns, todo) ==
    turns \in Seq(Turn) /\ todo \in Seq(Nat \X Nat) /\ Closed(Wire(turns, todo))

\* A tool's result takes the place that was kept for it.
LEMMA AnswerTalks ==
    ASSUME NEW turns, NEW todo, Talks(turns, todo), todo # <<>>, NEW size \in Nat
    PROVE  Talks(Append(turns, [kind |-> "result", calls |-> <<Head(todo)>>, size |-> size]), Tail(todo))
<1> DEFINE res == [kind |-> "result", calls |-> <<Head(todo)>>, size |-> size]
           now == Append(turns, res)
           rest == Tail(todo)
<1>0. turns \in Seq(Turn) /\ todo \in Seq(Nat \X Nat)
  BY DEF Talks
<1>1. Head(todo) = todo[1] /\ todo[1] \in Nat \X Nat
  BY <1>0
<1>2. res \in Turn /\ res.kind = "result" /\ res.calls = <<todo[1]>>
  BY <1>1 DEF Turn
<1> HIDE DEF res
<1>3. /\ now \in Seq(Turn) /\ Len(now) = Len(turns) + 1 /\ now[Len(turns) + 1] = res
      /\ \A i \in 1 .. Len(turns) : now[i] = turns[i]
  BY <1>0, <1>2
<1>4. /\ rest \in Seq(Nat \X Nat) /\ Len(rest) = Len(todo) - 1 /\ Len(todo) \in Nat /\ Len(todo) >= 1
      /\ \A i \in 1 .. Len(todo) - 1 : rest[i] = todo[i + 1]
  BY <1>0
<1> HIDE DEF now, rest
<1>5. Wire(now, rest) = Wire(turns, todo)
  <2>1. Len(turns) \in Nat /\ Len(now) + Len(rest) = Len(turns) + Len(todo)
    BY <1>0, <1>3, <1>4
  <2>2. ASSUME NEW i \in 1 .. Len(turns) + Len(todo)
        PROVE  (IF i <= Len(now) THEN [kind |-> now[i].kind, calls |-> now[i].calls]
                ELSE [kind |-> "result", calls |-> <<rest[i - Len(now)]>>])
               = (IF i <= Len(turns) THEN [kind |-> turns[i].kind, calls |-> turns[i].calls]
                  ELSE [kind |-> "result", calls |-> <<todo[i - Len(turns)]>>])
    <3>1. CASE i <= Len(turns)
      BY <1>3, <2>1, <3>1
    <3>2. CASE i = Len(turns) + 1
      <4>1. i - Len(turns) = 1 /\ ~(i <= Len(turns)) /\ i <= Len(now)
        BY <1>3, <2>1, <3>2
      <4>2. now[i].kind = "result" /\ now[i].calls = <<todo[i - Len(turns)]>>
        BY <1>2, <1>3, <3>2, <4>1
      <4> QED
        BY <4>1, <4>2
    <3>3. CASE i > Len(turns) + 1
      <4> DEFINE d == i - Len(now)
      <4>1. ~(i <= Len(now)) /\ ~(i <= Len(turns)) /\ d \in 1 .. Len(todo) - 1 /\ d + 1 = i - Len(turns)
        BY <1>3, <1>4, <2>1, <3>3
      <4> HIDE DEF d
      <4>2. rest[d] = todo[i - Len(turns)]
        BY <1>4, <4>1
      <4> USE DEF d
      <4> QED
        BY <4>1, <4>2
    <3> QED
      BY <2>1, <3>1, <3>2, <3>3
  <2> QED
    BY <2>1, <2>2, Zenon DEF Wire
<1> QED
  BY <1>3, <1>4, <1>5 DEF Talks, now, rest, res

\* The model's calls are appended with places for their results.
LEMMA CallsTalk ==
    ASSUME NEW turns, Talks(turns, <<>>), NEW n \in Nat \ {0}, NEW step \in Nat, NEW size \in Nat,
           NEW ids, ids = [i \in 1 .. n |-> <<step, i>>]
    PROVE  Talks(Append(turns, [kind |-> "calls", calls |-> ids, size |-> size]), ids)
<1> DEFINE asks == [kind |-> "calls", calls |-> ids, size |-> size]
           now == Append(turns, asks)
           w == Wire(turns, <<>>)
           v == Wire(now, ids)
<1>0. turns \in Seq(Turn) /\ Closed(w)
  BY DEF Talks
<1>1. ids \in Seq(Nat \X Nat) /\ Len(ids) = n
  OBVIOUS
<1>2. asks \in Turn /\ asks.kind = "calls" /\ asks.calls = ids
  BY <1>1 DEF Turn
<1> HIDE DEF asks
<1>3. /\ now \in Seq(Turn) /\ Len(now) = Len(turns) + 1 /\ now[Len(turns) + 1] = asks
      /\ \A i \in 1 .. Len(turns) : now[i] = turns[i]
  BY <1>0, <1>2
<1> HIDE DEF now
<1> DEFINE l == Len(turns)
<1>4. l \in Nat /\ DOMAIN w = 1 .. l /\ DOMAIN v = 1 .. l + 1 + n
  <2>1. l \in Nat /\ Len(<<>>) = 0
    BY <1>0
  <2> QED
    BY <1>1, <1>3, <2>1 DEF Wire
<1>5. \A i \in 1 .. l : v[i] = w[i] /\ w[i] = [kind |-> turns[i].kind, calls |-> turns[i].calls]
  BY <1>1, <1>3, <1>4 DEF Wire
<1>6. v[l + 1].kind = "calls" /\ v[l + 1].calls = ids
  <2>1. v[l + 1] = [kind |-> now[l + 1].kind, calls |-> now[l + 1].calls]
    BY <1>1, <1>3, <1>4 DEF Wire
  <2> QED
    BY <1>2, <1>3, <2>1
<1>7. \A k \in 1 .. n : v[l + 1 + k].kind = "result" /\ v[l + 1 + k].calls = <<ids[k]>>
  <2> SUFFICES ASSUME NEW k \in 1 .. n PROVE v[l + 1 + k].kind = "result" /\ v[l + 1 + k].calls = <<ids[k]>>
    OBVIOUS
  <2>1. l + 1 + k \in 1 .. l + 1 + n /\ ~(l + 1 + k <= l + 1) /\ (l + 1 + k) - (l + 1) = k
    BY <1>4
  <2> DEFINE at == l + 1 + k
  <2>2. v[at] = [kind |-> "result", calls |-> <<ids[k]>>]
    BY <1>1, <1>3, <1>4, <2>1 DEF Wire
  <2> HIDE DEF at, v
  <2>3. v[at].kind = "result" /\ v[at].calls = <<ids[k]>>
    BY <2>2
  <2> QED
    BY <2>3 DEF at
<1> HIDE DEF v, w, l
<1>8. Closed(v)
  <2>1. \E i \in DOMAIN v : v[i].kind = "user"
    <3>1. PICK i \in DOMAIN w : w[i].kind = "user"
      BY <1>0 DEF Closed
    <3> QED
      BY <1>4, <1>5, <3>1
  <2>2. ASSUME NEW i \in DOMAIN v, v[i].kind = "calls", NEW k \in 1 .. Len(v[i].calls)
        PROVE  i + k \in DOMAIN v /\ v[i + k].kind = "result" /\ v[i + k].calls = <<v[i].calls[k]>>
    <3>1. CASE i <= l
      <4>1. i \in DOMAIN w /\ v[i] = w[i]
        BY <1>4, <1>5, <3>1
      <4>2. i + k \in DOMAIN w /\ w[i + k].kind = "result" /\ w[i + k].calls = <<w[i].calls[k]>>
        BY <1>0, <2>2, <4>1 DEF Closed
      <4> QED
        BY <1>4, <1>5, <4>1, <4>2
    <3>2. CASE i = l + 1
      <4>1. k \in 1 .. n /\ i + k \in 1 .. l + 1 + n
        BY <1>1, <1>4, <1>6, <3>2
      <4> QED
        BY <1>4, <1>6, <1>7, <3>2, <4>1
    <3>3. CASE i > l + 1
      <4>1. i - (l + 1) \in 1 .. n /\ l + 1 + (i - (l + 1)) = i
        BY <1>4, <3>3
      <4>2. v[i].kind = "result"
        BY <1>7, <4>1
      <4> QED
        BY <2>2, <4>2
    <3> QED
      BY <1>4, <3>1, <3>2, <3>3
  <2>3. ASSUME NEW j \in DOMAIN v, v[j].kind = "result"
        PROVE  \E i \in DOMAIN v : v[i].kind = "calls" /\ j \in i + 1 .. i + Len(v[i].calls)
    <3>1. CASE j <= l
      <4>1. j \in DOMAIN w /\ w[j].kind = "result"
        BY <1>4, <1>5, <2>3, <3>1
      <4>2. PICK i \in DOMAIN w : w[i].kind = "calls" /\ j \in i + 1 .. i + Len(w[i].calls)
        BY <1>0, <4>1 DEF Closed
      <4>3. i \in DOMAIN v /\ v[i] = w[i]
        BY <1>4, <1>5
      <4> QED
        BY <4>2, <4>3
    <3>2. CASE j > l
      <4>1. j # l + 1
        BY <1>6, <2>3
      <4>2. j \in (l + 1) + 1 .. (l + 1) + n /\ l + 1 \in DOMAIN v
        BY <1>4, <3>2, <4>1
      <4> QED
        BY <1>1, <1>6, <4>2
    <3> QED
      BY <1>4, <3>1, <3>2
  <2> QED
    BY <2>1, <2>2, <2>3 DEF Closed
<1> QED
  BY <1>1, <1>3, <1>8 DEF Talks, now, asks, v

\* A run starts with earlier messages and the question.
LEMMA QuestionTalks ==
    ASSUME NEW h \in Seq(Turn), \A i \in DOMAIN h : h[i].kind \in {"user", "assistant"}
    PROVE  Talks(h \o <<UserTurn>>, <<>>)
<1> DEFINE turns == h \o <<UserTurn>>
           w == Wire(turns, <<>>)
<1>1. UserTurn \in Turn /\ UserTurn.kind = "user"
  BY LibrarianAssumption DEF UserTurn, Turn
<1>2. /\ turns \in Seq(Turn) /\ Len(turns) = Len(h) + 1 /\ turns[Len(turns)].kind = "user" /\ Len(h) \in Nat
      /\ \A i \in 1 .. Len(turns) : turns[i].kind \in {"user", "assistant"}
  BY <1>1
<1> HIDE DEF turns
<1>3. DOMAIN w = 1 .. Len(turns) /\ \A i \in DOMAIN w : w[i].kind = turns[i].kind
  BY <1>2 DEF Wire
<1> HIDE DEF w
<1>4. Closed(w)
  <2>1. Len(turns) \in DOMAIN w /\ w[Len(turns)].kind = "user"
    BY <1>2, <1>3
  <2>2. \A i \in DOMAIN w : w[i].kind # "calls" /\ w[i].kind # "result"
    BY <1>2, <1>3
  <2> QED
    BY <2>1, <2>2, Zenon DEF Closed
<1> QED
  BY <1>2, <1>4 DEF Talks, turns, w

-----------------------------------------------------------------------------
(* The context budget. *)

LEMMA UnitsEnd ==
    ASSUME NEW turns \in Seq(Turn), NEW s \in 1 .. Len(turns)
    PROVE  /\ unit_end(turns, s) \in s + 1 .. Len(turns) + 1
           /\ turns[s].kind = "calls" =>
                 \A j \in s + 1 .. Len(turns) :
                     (\A i \in s + 1 .. j : turns[i].kind = "result") => unit_end(turns, s) > j
           /\ turns[s].kind \in {"user", "calls"} =>
                 \A j \in s + 1 .. Len(turns) : turns[j].kind = "user" => unit_end(turns, s) <= j
<1> DEFINE l == Len(turns)
           After == {e \in s + 1 .. l : turns[e].kind # "result"}
           ends == After \cup {l + 1}
<1>0. l \in Nat /\ s \in Nat /\ s >= 1 /\ s <= l
  OBVIOUS
<1>1. Min(ends) \in ends /\ \A k \in ends : Min(ends) <= k
  <2>1. ends \in SUBSET (1 .. l + 1) /\ ends # {} /\ l + 1 \in Nat
    BY <1>0
  <2> HIDE DEF ends
  <2> QED
    BY <2>1, LeastOf
<1>2. CASE turns[s].kind = "calls"
  <2>1. unit_end(turns, s) = Min(ends)
    BY <1>2 DEF unit_end
  <2> DEFINE m == Min(ends)
  <2> HIDE DEF m
  <2>2. m \in s + 1 .. l + 1 /\ (m <= l => turns[m].kind # "result")
    BY <1>0, <1>1 DEF m
  <2>3. \A j \in s + 1 .. l : (\A i \in s + 1 .. j : turns[i].kind = "result") => m > j
    BY <1>0, <2>2
  <2>4. \A j \in s + 1 .. l : turns[j].kind = "user" => m <= j
    BY <1>1 DEF m
  <2> QED
    BY <2>1, <2>2, <2>3, <2>4 DEF m
<1>3. CASE turns[s].kind # "calls"
  <2>1. CASE turns[s].kind = "user" /\ s < l /\ turns[s + 1].kind = "assistant"
    <3>1. unit_end(turns, s) = s + 2
      BY <1>3, <2>1 DEF unit_end
    <3>2. \A j \in s + 1 .. l : turns[j].kind = "user" => s + 2 <= j
      BY <1>0, <2>1
    <3> QED
      BY <1>0, <1>3, <2>1, <3>1, <3>2
  <2>2. CASE ~(turns[s].kind = "user" /\ s < l /\ turns[s + 1].kind = "assistant")
    <3>1. unit_end(turns, s) = s + 1
      BY <1>3, <2>2 DEF unit_end
    <3> QED
      BY <1>0, <1>3, <3>1
  <2> QED
    BY <2>1, <2>2
<1> QED
  BY <1>2, <1>3

\* What is sent is the conversation from the start of a unit on, and that unit
\* is not after the question.
LEMMA TrimKeeps ==
    ASSUME NEW turns \in Seq(Turn), NEW q \in 1 .. Len(turns), turns[q].kind = "user"
    PROVE  \E s \in UnitStarts(turns), u \in 1 .. Len(turns) :
              /\ trim_conversation(turns) = SubSeq(turns, s, Len(turns))
              /\ s <= u /\ turns[u].kind = "user"
<1> DEFINE l == Len(turns)
           holders == {s \in UnitStarts(turns) :
                         \E i \in s .. unit_end(turns, s) - 1 : turns[i].kind = "user"}
           from == droppable(turns)
           Kept(s) == SubSeq(turns, s, Len(turns))
           fit == {s \in from : s = Max(from) \/ est_tokens(turn_bytes(Kept(s))) <= ContextBudget}
<1>0. l \in Nat /\ q \in 1 .. l /\ turns # <<>>
  OBVIOUS
<1>1. UnitStarts(turns) \subseteq 1 .. l
  BY DEF UnitStarts
<1>2. q \in holders
  <2>1. q \in UnitStarts(turns)
    <3> SUFFICES ASSUME NEW j \in 1 .. q - 1, turns[j].kind \in {"user", "calls"}
                 PROVE  unit_end(turns, j) <= q
      BY <1>0 DEF UnitStarts
    <3>1. j \in 1 .. l /\ q \in j + 1 .. l
      BY <1>0
    <3> QED
      BY <3>1, UnitsEnd
  <2>2. unit_end(turns, q) \in q + 1 .. l + 1
    BY <1>0, UnitsEnd
  <2>3. q \in q .. unit_end(turns, q) - 1
    BY <1>0, <2>2
  <2> QED
    BY <2>1, <2>3
<1>3. holders \in SUBSET (1 .. l)
  BY <1>1
<1>4. Max(holders) \in holders /\ \A k \in holders : Max(holders) >= k
  BY <1>0, <1>2, <1>3, GreatestOf
<1>5. from = {s \in UnitStarts(turns) : holders = {} \/ s <= Max(holders)}
  BY DEF droppable
<1>6. PICK u \in Max(holders) .. unit_end(turns, Max(holders)) - 1 : turns[u].kind = "user"
  BY <1>4
<1>7. Max(holders) \in 1 .. l /\ u \in 1 .. l /\ Max(holders) <= u
  <2>1. Max(holders) \in 1 .. l
    BY <1>3, <1>4
  <2>2. unit_end(turns, Max(holders)) \in Max(holders) + 1 .. l + 1
    BY <2>1, UnitsEnd
  <2> DEFINE h == Max(holders)
             e == unit_end(turns, h)
  <2>3. h \in 1 .. l /\ e \in h + 1 .. l + 1 /\ u \in h .. e - 1
    BY <2>1, <2>2
  <2> HIDE DEF h, e, l
  <2>4. u \in 1 .. l /\ h <= u
    BY <1>0, <2>3
  <2> QED
    BY <2>1, <2>4 DEF h
<1>8. Max(holders) \in UnitStarts(turns)
  BY <1>4
<1> HIDE DEF holders
<1>9. Max(holders) \in from /\ from \in SUBSET (1 .. l) /\ \A s \in from : s \in UnitStarts(turns) /\ s <= Max(holders)
  BY <1>1, <1>2, <1>5, <1>7, <1>8
<1> HIDE DEF from
<1>10. Max(from) \in from
  BY <1>0, <1>9, GreatestOf
<1>11. fit \in SUBSET (1 .. l) /\ fit # {}
  BY <1>9, <1>10
<1>12. Min(fit) \in fit
  BY <1>0, <1>11, LeastOf
<1>13. Min(fit) \in from
  BY <1>12
<1>14. trim_conversation(turns) = Kept(Min(fit))
  BY <1>0 DEF trim_conversation, from
<1> HIDE DEF fit
<1>15. Min(fit) \in UnitStarts(turns) /\ Min(fit) <= u
  <2> DEFINE s == Min(fit)
             h == Max(holders)
  <2>0. s \in UnitStarts(turns) /\ s <= h /\ s \in 1 .. l
    BY <1>9, <1>13
  <2>1. s \in UnitStarts(turns) /\ s <= h /\ h <= u /\ s \in Int /\ h \in Int /\ u \in Int
    BY <1>7, <2>0
  <2> HIDE DEF s, h
  <2>2. s \in UnitStarts(turns) /\ s <= u
    BY <2>1
  <2> QED
    BY <2>2 DEF s
<1> QED
  BY <1>6, <1>7, <1>14, <1>15

\* A request made of a closed conversation is well formed.
LEMMA ClosedRequest ==
    ASSUME NEW turns, Talks(turns, <<>>)
    PROVE  LET sent  == chat_messages(turns)
               asked == {i \in DOMAIN sent : sent[i].kind = "calls"}
               users == {i \in DOMAIN turns : turns[i].kind = "user"}
           IN  /\ \A i \in asked :
                     LET n == Len(sent[i].calls)
                     IN  /\ i + n <= Len(sent)
                         /\ \A k \in 1 .. n : sent[i + k].kind = "result" /\ sent[i + k].calls = <<sent[i].calls[k]>>
               /\ \A j \in DOMAIN sent : sent[j].kind = "result" =>
                     \E i \in asked : j \in i + 1 .. i + Len(sent[i].calls)
               /\ Len(sent) > Len(turns) - Max(users)
<1> DEFINE sent  == chat_messages(turns)
           asked == {i \in DOMAIN sent : sent[i].kind = "calls"}
           users == {i \in DOMAIN turns : turns[i].kind = "user"}
           l == Len(turns)
           w == Wire(turns, <<>>)
<1>0. turns \in Seq(Turn) /\ Closed(w) /\ l \in Nat /\ DOMAIN turns = 1 .. l
  BY DEF Talks
<1>1. DOMAIN w = 1 .. l /\ \A i \in 1 .. l : w[i].kind = turns[i].kind /\ w[i].calls = turns[i].calls
  BY <1>0 DEF Wire
<1> HIDE DEF w
<1>2. \A i \in 1 .. l : turns[i].kind = "calls" =>
         \A k \in 1 .. Len(turns[i].calls) :
            i + k \in 1 .. l /\ turns[i + k].kind = "result" /\ turns[i + k].calls = <<turns[i].calls[k]>>
  <2> SUFFICES ASSUME NEW i \in 1 .. l, turns[i].kind = "calls", NEW k \in 1 .. Len(turns[i].calls)
               PROVE  i + k \in 1 .. l /\ turns[i + k].kind = "result" /\ turns[i + k].calls = <<turns[i].calls[k]>>
    OBVIOUS
  <2>1. w[i].kind = "calls" /\ w[i].calls = turns[i].calls
    BY <1>1
  <2>2. i + k \in 1 .. l /\ w[i + k].kind = "result" /\ w[i + k].calls = <<w[i].calls[k]>>
    BY <1>0, <1>1, <2>1 DEF Closed
  <2> DEFINE c == i + k
  <2> HIDE DEF c
  <2>3. c \in 1 .. l /\ turns[c].kind = w[c].kind /\ turns[c].calls = w[c].calls
    BY <1>1, <2>2 DEF c
  <2> QED
    BY <2>1, <2>2, <2>3 DEF c
<1>3. \A j \in 1 .. l : turns[j].kind = "result" =>
         \E i \in 1 .. l : turns[i].kind = "calls" /\ j \in i + 1 .. i + Len(turns[i].calls)
  BY <1>0, <1>1 DEF Closed
<1>4. PICK q \in 1 .. l : turns[q].kind = "user"
  BY <1>0, <1>1 DEF Closed
<1>5. PICK s \in UnitStarts(turns) : \E u \in 1 .. l :
              /\ trim_conversation(turns) = SubSeq(turns, s, Len(turns))
              /\ s <= u /\ turns[u].kind = "user"
  BY <1>0, <1>4, TrimKeeps
<1>6. PICK u \in 1 .. l :
              /\ trim_conversation(turns) = SubSeq(turns, s, Len(turns))
              /\ s <= u /\ turns[u].kind = "user"
  BY <1>5
<1>7. s \in 1 .. l /\ \A j \in 1 .. s - 1 : turns[j].kind \in {"user", "calls"} => unit_end(turns, j) <= s
  BY DEF UnitStarts
<1> DEFINE kept == SubSeq(turns, s, Len(turns))
           m == l - s + 1
<1>8. m \in Nat /\ m >= 1 /\ Len(kept) = m /\ DOMAIN kept = 1 .. m /\ \A i \in 1 .. m : kept[i] = turns[s + i - 1]
  BY <1>0, <1>7
<1>9. /\ DOMAIN sent = 1 .. m /\ Len(sent) = m
      /\ \A i \in 1 .. m : sent[i].kind = turns[s + i - 1].kind /\ sent[i].calls = turns[s + i - 1].calls
  <2>1. sent = [i \in DOMAIN kept |-> bound_tool_result(kept[i])]
    BY <1>6 DEF chat_messages
  <2> HIDE DEF kept, sent, m
  <2>2. sent = [i \in 1 .. m |-> bound_tool_result(kept[i])]
    BY <1>8, <2>1
  <2>3. DOMAIN sent = 1 .. m /\ Len(sent) = m
    BY <1>8, <2>2
  <2>4. ASSUME NEW i \in 1 .. m
        PROVE  sent[i].kind = turns[s + i - 1].kind /\ sent[i].calls = turns[s + i - 1].calls
    <3> DEFINE t == kept[i]
    <3>1. t = turns[s + i - 1] /\ t \in Turn
      BY <1>0, <1>7, <1>8 DEF m
    <3>2. sent[i] = bound_tool_result(t)
      BY <2>2
    <3> HIDE DEF t
    <3>3. bound_tool_result(t).kind = t.kind /\ bound_tool_result(t).calls = t.calls
      BY <3>1 DEF bound_tool_result, Turn
    <3> QED
      BY <3>1, <3>2, <3>3
  <2> QED
    BY <2>3, <2>4
<1> HIDE DEF sent, kept
<1>10. ASSUME NEW i \in asked
       PROVE  /\ i + Len(sent[i].calls) <= Len(sent)
              /\ \A k \in 1 .. Len(sent[i].calls) : sent[i + k].kind = "result" /\ sent[i + k].calls = <<sent[i].calls[k]>>
  <2> DEFINE g == s + i - 1
  <2>1. i \in 1 .. m /\ sent[i].kind = "calls"
    BY <1>9
  <2>10. g \in 1 .. l
    BY <1>0, <1>7, <2>1
  <2>11. sent[i].kind = turns[g].kind /\ sent[i].calls = turns[g].calls
    BY <1>9, <2>1
  <2>2. g \in 1 .. l /\ turns[g].kind = "calls" /\ sent[i].calls = turns[g].calls
    BY <2>1, <2>10, <2>11
  <2> DEFINE n == Len(turns[g].calls)
  <2>3. n \in Nat
    BY <1>0, <2>2 DEF Turn
  <2>4. \A k \in 1 .. n : g + k \in 1 .. l /\ turns[g + k].kind = "result" /\ turns[g + k].calls = <<turns[g].calls[k]>>
    BY <1>2, <2>2
  <2>5. g + n \in 1 .. l
    <3>1. CASE n = 0
      BY <2>2, <3>1
    <3>2. CASE n # 0
      BY <2>3, <2>4, <3>2
    <3> QED
      BY <3>1, <3>2
  <2> HIDE DEF n
  <2>6. i + n <= m
    BY <1>0, <1>7, <2>1, <2>3, <2>5
  <2>7. ASSUME NEW k \in 1 .. n PROVE sent[i + k].kind = "result" /\ sent[i + k].calls = <<sent[i].calls[k]>>
    <3>1. i + k \in 1 .. m /\ s + (i + k) - 1 = g + k
      BY <1>0, <1>7, <1>8, <2>1, <2>3, <2>6
    <3>2. sent[i + k].kind = turns[s + (i + k) - 1].kind /\ sent[i + k].calls = turns[s + (i + k) - 1].calls
      BY <1>9, <3>1
    <3> QED
      BY <2>2, <2>4, <3>1, <3>2
  <2> QED
    BY <1>9, <2>2, <2>6, <2>7 DEF n
<1>11. ASSUME NEW j \in DOMAIN sent, sent[j].kind = "result"
       PROVE  \E i \in asked : j \in i + 1 .. i + Len(sent[i].calls)
  <2> DEFINE b == s + j - 1
  <2>0. j \in 1 .. m /\ sent[j].kind = turns[b].kind
    BY <1>9
  <2>00. b \in 1 .. l
    BY <1>0, <1>7, <2>0
  <2>1. j \in 1 .. m /\ b \in 1 .. l /\ turns[b].kind = "result"
    BY <1>11, <2>0, <2>00
  <2>2. PICK g \in 1 .. l : turns[g].kind = "calls" /\ b \in g + 1 .. g + Len(turns[g].calls)
    BY <1>3, <2>1
  <2> DEFINE n == Len(turns[g].calls)
  <2>3. n \in Nat
    BY <1>0 DEF Turn
  <2>4. \A k \in 1 .. n : turns[g + k].kind = "result"
    BY <1>2, <2>2
  <2> HIDE DEF n
  <2>5. s <= g
    <3> SUFFICES ASSUME g < s PROVE FALSE
      BY <1>7
    <3>1. g \in 1 .. s - 1 /\ b \in g + 1 .. l
      BY <1>7, <2>1, <2>2
    <3>2. \A i \in g + 1 .. b : turns[i].kind = "result"
      <4> SUFFICES ASSUME NEW i \in g + 1 .. b PROVE turns[i].kind = "result"
        OBVIOUS
      <4>1. i - g \in 1 .. n /\ g + (i - g) = i
        BY <2>2, <2>3 DEF n
      <4> QED
        BY <2>4, <4>1
    <3> HIDE DEF b
    <3>3. unit_end(turns, g) > b /\ unit_end(turns, g) \in Int
      <4>1. unit_end(turns, g) \in g + 1 .. l + 1
        BY <1>0, UnitsEnd
      <4>2. \A x \in g + 1 .. l : (\A i \in g + 1 .. x : turns[i].kind = "result") => unit_end(turns, g) > x
        BY <1>0, <2>2, UnitsEnd
      <4> QED
        BY <1>0, <3>1, <3>2, <4>1, <4>2
    <3> USE DEF b
    <3>4. unit_end(turns, g) <= s /\ s <= b
      BY <1>7, <2>1, <2>2, <3>1
    <3> QED
      BY <1>7, <2>1, <3>3, <3>4
  <2> DEFINE i == g - s + 1
  <2>6. i \in 1 .. m /\ s + i - 1 = g
    BY <1>0, <1>7, <2>5
  <2>7. i \in asked /\ sent[i].calls = turns[g].calls
    BY <1>9, <2>2, <2>6
  <2>8. j \in i + 1 .. i + Len(turns[g].calls)
    <3>1. s \in Int /\ j \in Int /\ g \in Int /\ s + j - 1 \in g + 1 .. g + n
      BY <1>7, <2>1, <2>2 DEF n
    <3>2. j \in (g - s + 1) + 1 .. (g - s + 1) + n
      BY <2>3, <3>1
    <3> QED
      BY <3>2 DEF n
  <2> HIDE DEF i
  <2> QED
    BY <2>7, <2>8
<1>12. Len(sent) > Len(turns) - Max(users)
  <2>1. users \in SUBSET (1 .. l) /\ u \in users
    BY <1>0, <1>6
  <2>2. Max(users) \in users /\ Max(users) >= u
    BY <1>0, <2>1, GreatestOf
  <2> DEFINE x == Max(users)
  <2>3. x \in Int /\ x >= u
    BY <2>1, <2>2
  <2> HIDE DEF x
  <2>4. l - s + 1 > l - x
    BY <1>0, <1>6, <1>7, <2>3
  <2> QED
    BY <1>9, <2>4 DEF x
<1> QED
  BY <1>10, <1>11, <1>12 DEF sent

-----------------------------------------------------------------------------
(* The runs. *)

Fields == {"at", "kind", "vis", "key", "base", "turns", "step", "todo", "mem", "op", "then",
           "path", "held", "seen"}

IsRun(run) == run = [f \in Fields |-> run[f]]

\* Tool calls of the run are unanswered.
Waiting(run) == run.at \in {"tool", "patch"} \/ (run.at \in {"hot take", "hot put"} /\ run.then = "tool")

Hooks == {"done", "tool", "insert", "hot read", "repair"}

\* A run that asks has a closed conversation, and while it answers calls the
\* rest of them closes it; what it has been shown is what its caller may see,
\* and nothing before its scopes are read.
RunOK(run) ==
    /\ IsRun(run) /\ run.step \in Nat /\ run.then \in Hooks
    /\ run.at = "ask" => Talks(run.turns, <<>>)
    /\ Waiting(run) => run.todo # <<>> /\ Talks(run.turns, run.todo)
    /\ run.seen \subseteq run.vis
    /\ run.at \in {"new", "scopes"} => run.seen = {}

RunsOK == runs = [r \in Runs |-> runs[r]] /\ \A r \in Runs : RunOK(runs[r])

\* The fingerprint and the bundle a run holds: the ones it held, the ones of
\* now, or none.
KeyFrom(run, x) ==
    \/ x.key = run.key /\ x.base = run.base
    \/ x.key = stamps /\ x.base = texts
    \/ x.key = NoKey /\ x.base = [p \in ToSet(Paths) |-> Absent]

Moved(r) ==
    /\ runs' = [runs EXCEPT ![r] = runs'[r]]
    /\ RunOK(runs'[r]) /\ KeyFrom(runs[r], runs'[r])

LEMMA MovedTo ==
    ASSUME RunsOK, NEW r \in Runs, NEW x, Moves(r, x), RunOK(x), KeyFrom(runs[r], x)
    PROVE  Moved(r)
<1>1. runs' = [runs EXCEPT ![r] = x] /\ r \in DOMAIN runs
  BY DEF RunsOK, Moves
<1>2. runs'[r] = x
  BY <1>1
<1> QED
  BY <1>1, <1>2 DEF Moved

Busy == {"ask", "tool", "patch", "hot take", "hot put", "new", "scopes"}

LEMMA Aside ==
    ASSUME NEW x, IsRun(x), x.at \notin Busy, x.step \in Nat, x.then \in Hooks, x.seen \subseteq x.vis
    PROVE  RunOK(x)
BY DEF RunOK, Waiting, Busy

LEMMA OkAnswered ==
    ASSUME NEW run, RunOK(run), run.todo # <<>>, Talks(run.turns, run.todo), NEW size \in Nat
    PROVE  /\ RunOK(Answered(run, size)) /\ Answered(run, size).key = run.key
           /\ Answered(run, size).base = run.base
<1> DEFINE x == Answered(run, size)
           res == [kind |-> "result", calls |-> <<Head(run.todo)>>, size |-> size]
<1>1. /\ IsRun(x) /\ x.key = run.key /\ x.base = run.base /\ x.step = run.step /\ x.then = run.then
      /\ x.seen = run.seen /\ x.vis = run.vis /\ x.todo = Tail(run.todo) /\ x.turns = Append(run.turns, res)
      /\ x.at = IF Len(run.todo) = 1 THEN "ask" ELSE "tool"
  BY DEF RunOK, IsRun, Fields, Answered
<1> HIDE DEF x
<1>2. Talks(x.turns, x.todo)
  BY <1>1, AnswerTalks
<1> HIDE DEF res
<1>3. run.todo \in Seq(Nat \X Nat)
  BY DEF Talks
<1>4. (Len(run.todo) = 1 => x.todo = <<>>) /\ (Len(run.todo) # 1 => x.todo # <<>>)
  <2> DEFINE td == run.todo
             tl == Tail(td)
  <2>1. td \in Seq(Nat \X Nat) /\ td # <<>>
    BY <1>3
  <2> HIDE DEF td
  <2>2. tl \in Seq(Nat \X Nat) /\ Len(tl) = Len(td) - 1 /\ Len(td) \in Nat
    BY <2>1
  <2> HIDE DEF tl
  <2>3. (Len(td) = 1 => tl = <<>>) /\ (Len(td) # 1 => tl # <<>>)
    BY <2>2
  <2> QED
    BY <1>1, <2>3 DEF td, tl
<1>5. x.at \in {"ask", "tool"} /\ (x.at = "ask" => x.todo = <<>>) /\ (x.at = "tool" => x.todo # <<>>)
  BY <1>1, <1>4
<1>6. RunOK(x)
  BY <1>1, <1>2, <1>5 DEF RunOK, Waiting
<1> QED
  BY <1>1, <1>6 DEF x

LEMMA OkHooked ==
    ASSUME NEW run, RunOK(run), NEW op, NEW then \in Hooks, then = "tool" => Waiting(run)
    PROVE  /\ RunOK(Hooked(run, op, then)) /\ Hooked(run, op, then).key = run.key
           /\ Hooked(run, op, then).base = run.base
<1> DEFINE x == Hooked(run, op, then)
<1>1. /\ IsRun(x) /\ x.key = run.key /\ x.base = run.base /\ x.step = run.step /\ x.then = then
      /\ x.seen = run.seen /\ x.vis = run.vis /\ x.todo = run.todo /\ x.turns = run.turns
      /\ x.at = "hot take"
  BY DEF RunOK, IsRun, Fields, Hooked
<1> HIDE DEF x
<1>2. RunOK(x)
  BY <1>1 DEF RunOK, Waiting
<1> QED
  BY <1>1, <1>2 DEF x

LEMMA OkOpened ==
    ASSUME NEW run, RunOK(run), NEW turns, Talks(turns, <<>>)
    PROVE  /\ RunOK(Opened(run, turns)) /\ Opened(run, turns).key = run.key
           /\ Opened(run, turns).base = run.base
<1> DEFINE x == Opened(run, turns)
<1>1. /\ IsRun(x) /\ x.key = run.key /\ x.base = run.base /\ x.step = 0 /\ x.then = run.then
      /\ x.seen = run.seen /\ x.vis = run.vis /\ x.turns = turns /\ x.at = "ask"
  BY DEF RunOK, IsRun, Fields, Opened
<1> HIDE DEF x
<1>2. Talks(x.turns, <<>>) /\ ~Waiting(x)
  BY <1>1 DEF Waiting
<1>3. x.step \in Nat /\ x.then \in Hooks /\ x.seen \subseteq x.vis
  BY <1>1 DEF RunOK
<1>4. RunOK(x)
  BY <1>1, <1>2, <1>3 DEF RunOK
<1> QED
  BY <1>1, <1>4 DEF x

LEMMA OkAborted ==
    ASSUME NEW run, RunOK(run)
    PROVE  RunOK(Aborted(run)) /\ Aborted(run).key = run.key /\ Aborted(run).base = run.base
<1> DEFINE x == Aborted(run)
<1>1. /\ IsRun(x) /\ x.key = run.key /\ x.base = run.base /\ x.step = run.step /\ x.then = run.then
      /\ x.seen = run.seen /\ x.vis = run.vis /\ x.at \in {"hits", "failed"}
  BY DEF RunOK, IsRun, Fields, Aborted
<1> HIDE DEF x
<1>2. RunOK(x)
  BY <1>1, Aside DEF RunOK, Busy
<1> QED
  BY <1>1, <1>2 DEF x

LEMMA OkFresh == RunOK(Fresh) /\ Fresh.key = NoKey /\ Fresh.base = [p \in ToSet(Paths) |-> Absent]
<1>1. /\ IsRun(Fresh) /\ Fresh.step = 0 /\ Fresh.then = "done" /\ Fresh.at = "new" /\ Fresh.seen = {}
      /\ Fresh.key = NoKey /\ Fresh.base = [p \in ToSet(Paths) |-> Absent]
  BY DEF IsRun, Fields, Fresh
<1> QED
  BY <1>1 DEF RunOK, Waiting, Hooks

\* What a step does to the cache and to what it served: entries go, and those
\* of a run come; an answer is an entry's at the fingerprint of now.
Kept ==
    /\ \A e \in cache' : e \in cache \/ \E r \in Runs : e = [key |-> runs[r].key, base |-> runs[r].base]
    /\ \A s \in served' : s \in served \/ \E e \in cache : e.key = stamps /\ s = [base |-> e.base, now |-> texts]

Stored == UNCHANGED <<store, half>> \/ \E p, x : \E o \in Outcomes : Puts(p, x, o)

Still == UNCHANGED <<store, half>> /\ UNCHANGED <<cache, served>>

\* Nothing but the runs.
LEMMA StillKept == Still => Kept /\ Stored
BY DEF Still, Kept, Stored

\* The model's side of the loop.
LEMMA LoopSteps ==
    ASSUME RunsOK, NEW r \in Runs,
           \/ run_mutation(r) \/ \E h \in Histories : run_chat_streaming(r, h)
           \/ LlmFails(r) \/ LlmAnswers(r) \/ StepCapExceeded(r)
           \/ \E n \in 1 .. MaxCalls : LlmCalls(r, n)
    PROVE  Moved(r) /\ Still
<1>0. RunOK(runs[r])
  BY DEF RunsOK
<1>1. ASSUME NEW kind, NEW h \in Seq(Turn), \A i \in DOMAIN h : h[i].kind \in {"user", "assistant"}, Starts(r, kind, h)
      PROVE  Moved(r) /\ Still
  <2> DEFINE y == [runs[r] EXCEPT !.kind = kind, !.vis = shelves]
             z == [runs[r] EXCEPT !.kind = kind, !.at = "failed"]
             turns == h \o <<UserTurn>>
  <2>1. Talks(turns, <<>>)
    BY <1>1, QuestionTalks
  <2>2. runs[r].at = "new"
    BY <1>1 DEF Starts
  <2>3. /\ IsRun(y) /\ y.key = runs[r].key /\ y.base = runs[r].base /\ y.step = runs[r].step /\ y.then = runs[r].then
        /\ y.seen = {} /\ y.at = "new"
    BY <1>0, <2>2 DEF RunOK, IsRun, Fields
  <2>4. /\ IsRun(z) /\ z.key = runs[r].key /\ z.base = runs[r].base /\ z.step = runs[r].step /\ z.then = runs[r].then
        /\ z.seen = runs[r].seen /\ z.vis = runs[r].vis /\ z.at = "failed"
    BY <1>0 DEF RunOK, IsRun, Fields
  <2>5. Moves(r, Opened(y, turns)) \/ Moves(r, z)
    BY <1>1 DEF Starts
  <2> HIDE DEF y, z, turns
  <2>6. RunOK(y)
    BY <1>0, <2>3 DEF RunOK, Waiting
  <2>7. RunOK(z)
    BY <1>0, <2>4, Aside DEF RunOK, Busy
  <2>8. RunOK(Opened(y, turns)) /\ KeyFrom(runs[r], Opened(y, turns)) /\ KeyFrom(runs[r], z)
    BY <2>1, <2>3, <2>4, <2>6, OkOpened DEF KeyFrom
  <2>9. Moved(r)
    BY <2>5, <2>7, <2>8, MovedTo
  <2> QED
    BY <1>1, <2>9 DEF Starts, Still
<1>2. CASE run_mutation(r)
  <2>1. <<>> \in Seq(Turn) /\ \A i \in DOMAIN <<>> : <<>>[i].kind \in {"user", "assistant"}
    OBVIOUS
  <2>2. Starts(r, "mutation", <<>>)
    BY <1>2 DEF run_mutation
  <2> QED
    BY <1>1, <2>1, <2>2
<1>3. ASSUME NEW h \in Histories, run_chat_streaming(r, h) PROVE Moved(r) /\ Still
  <2>1. UserTurn \in Turn /\ UserTurn.kind = "user" /\ AssistantTurn \in Turn /\ AssistantTurn.kind = "assistant"
    BY LibrarianAssumption DEF UserTurn, AssistantTurn, Turn
  <2>2. h \in Seq(Turn) /\ \A i \in DOMAIN h : h[i].kind \in {"user", "assistant"}
    <3>1. CASE h = <<>>
      BY <3>1
    <3>2. CASE h = <<UserTurn, AssistantTurn>>
      BY <2>1, <3>2
    <3>3. CASE h = <<UserTurn, UserTurn, AssistantTurn>>
      BY <2>1, <3>3
    <3> QED
      BY <3>1, <3>2, <3>3 DEF Histories
  <2> QED
    BY <1>1, <1>3, <2>2 DEF run_chat_streaming
<1>4. CASE LlmFails(r)
  <2>1. Moves(r, Aborted(runs[r])) /\ Still
    BY <1>4 DEF LlmFails, Still
  <2> QED
    BY <1>0, <2>1, OkAborted, MovedTo DEF KeyFrom
<1>5. CASE LlmAnswers(r)
  <2> DEFINE z == [runs[r] EXCEPT !.at = "done"]
             hook == Hooked(runs[r], [do |-> "query", base |-> runs[r].base], "insert")
  <2>1. (Moves(r, hook) \/ Moves(r, z)) /\ Still
    BY <1>5 DEF LlmAnswers, Still
  <2>2. /\ IsRun(z) /\ z.key = runs[r].key /\ z.base = runs[r].base /\ z.step = runs[r].step /\ z.then = runs[r].then
        /\ z.seen = runs[r].seen /\ z.vis = runs[r].vis /\ z.at = "done"
    BY <1>0 DEF RunOK, IsRun, Fields
  <2> HIDE DEF z
  <2>3. RunOK(z) /\ KeyFrom(runs[r], z)
    BY <1>0, <2>2, Aside DEF RunOK, Busy, KeyFrom
  <2>4. RunOK(hook) /\ KeyFrom(runs[r], hook)
    BY <1>0, OkHooked DEF KeyFrom, Hooks
  <2> QED
    BY <2>1, <2>3, <2>4, MovedTo
<1>6. CASE StepCapExceeded(r)
  <2>1. Moves(r, Aborted(runs[r])) /\ Still
    BY <1>6 DEF StepCapExceeded, Still
  <2> QED
    BY <1>0, <2>1, OkAborted, MovedTo DEF KeyFrom
<1>7. ASSUME NEW n \in 1 .. MaxCalls, LlmCalls(r, n) PROVE Moved(r) /\ Still
  <2> DEFINE ids == [i \in 1 .. n |-> <<runs[r].step, i>>]
             said == [kind |-> "calls", calls |-> ids, size |-> n * Call]
             x == [runs[r] EXCEPT !.at = "tool", !.step = @ + 1, !.todo = ids, !.turns = Append(@, said)]
  <2>1. Moves(r, x) /\ Still /\ runs[r].at = "ask"
    BY <1>7 DEF LlmCalls, Still
  <2>2. /\ IsRun(x) /\ x.key = runs[r].key /\ x.base = runs[r].base /\ x.step = runs[r].step + 1
        /\ x.then = runs[r].then /\ x.seen = runs[r].seen /\ x.vis = runs[r].vis /\ x.at = "tool"
        /\ x.todo = ids /\ x.turns = Append(runs[r].turns, said)
    BY <1>0 DEF RunOK, IsRun, Fields
  <2> HIDE DEF x
  <2>3. n \in Nat \ {0} /\ n * Call \in Nat /\ runs[r].step \in Nat
    BY <1>0, LibrarianAssumption DEF RunOK
  <2>4. Talks(x.turns, x.todo)
    <3>1. Talks(runs[r].turns, <<>>)
      BY <1>0, <2>1 DEF RunOK
    <3>2. Talks(Append(runs[r].turns, said), ids)
      BY <2>3, <3>1, CallsTalk
    <3> QED
      BY <2>2, <3>2
  <2>5. x.todo # <<>>
    <3>1. Len(ids) = n
      BY <2>3
    <3>2. ids # <<>>
      BY <2>3, <3>1
    <3> QED
      BY <2>2, <3>2
  <2> HIDE DEF ids, said
  <2>6. RunOK(x) /\ KeyFrom(runs[r], x)
    <3>1. x.step \in Nat /\ x.then \in Hooks /\ x.seen \subseteq x.vis /\ x.at \notin {"ask", "new", "scopes"}
      BY <1>0, <2>2, <2>3 DEF RunOK
    <3> QED
      BY <2>2, <2>4, <2>5, <3>1 DEF RunOK, KeyFrom
  <2> QED
    BY <2>1, <2>6, MovedTo
<1> QED
  BY <1>2, <1>3, <1>4, <1>5, <1>6, <1>7

-----------------------------------------------------------------------------
(* The tools. *)

LEMMA Lengths == {Question, Answer, Call, Small, Big} \subseteq Nat /\ 0 \in Nat
BY LibrarianAssumption

\* A tool that only tells: what is added to the run's sight is in its scopes.
LEMMA Telling ==
    ASSUME RunsOK, NEW r \in Runs, runs[r].at = "tool", NEW S, S \subseteq runs[r].vis, NEW size \in Nat,
           \/ Tells(r, [runs[r] EXCEPT !.seen = @ \cup S], size)
           \/ Tells(r, runs[r], size)
    PROVE  Moved(r) /\ Still
<1>0. RunOK(runs[r]) /\ Waiting(runs[r])
  BY DEF RunsOK, Waiting
<1> DEFINE y == [runs[r] EXCEPT !.seen = @ \cup S]
<1>1. /\ IsRun(y) /\ y.key = runs[r].key /\ y.base = runs[r].base /\ y.step = runs[r].step /\ y.then = runs[r].then
      /\ y.seen = runs[r].seen \cup S /\ y.vis = runs[r].vis /\ y.at = "tool" /\ y.todo = runs[r].todo
      /\ y.turns = runs[r].turns
  BY <1>0 DEF RunOK, IsRun, Fields
<1>2. Still /\ (Moves(r, Answered(y, size)) \/ Moves(r, Answered(runs[r], size)))
  BY DEF Tells, Still
<1> HIDE DEF y
<1>3. runs[r].todo # <<>> /\ Talks(runs[r].turns, runs[r].todo)
  BY <1>0 DEF RunOK
<1>4. y.seen \subseteq y.vis /\ y.step \in Nat /\ y.then \in Hooks
  BY <1>0, <1>1 DEF RunOK
<1>5. y.todo # <<>> /\ Talks(y.turns, y.todo)
  BY <1>1, <1>3
<1>6. RunOK(y)
  BY <1>1, <1>4, <1>5 DEF RunOK
<1>7. RunOK(Answered(y, size)) /\ KeyFrom(runs[r], Answered(y, size))
  BY <1>1, <1>5, <1>6, OkAnswered DEF KeyFrom
<1>8. RunOK(Answered(runs[r], size)) /\ KeyFrom(runs[r], Answered(runs[r], size))
  BY <1>0, <1>3, OkAnswered DEF KeyFrom
<1> QED
  BY <1>2, <1>7, <1>8, MovedTo

\* A tool that writes: the hook follows, or the error goes back as a result.
LEMMA Writing ==
    ASSUME RunsOK, NEW r \in Runs, Waiting(runs[r]), NEW p, NEW x, NEW hook,
           Writes(r, p, x, hook, "tool", Answered(runs[r], Small))
    PROVE  Moved(r) /\ Stored /\ UNCHANGED <<cache, served>>
<1>0. RunOK(runs[r])
  BY DEF RunsOK
<1>1. PICK o \in Outcomes :
         /\ Puts(p, x, o)
         /\ Moves(r, IF o = "ok" THEN Hooked(runs[r], [do |-> hook, path |-> p], "tool")
                     ELSE Answered(runs[r], Small))
  BY DEF Writes
<1>2. RunOK(Answered(runs[r], Small)) /\ KeyFrom(runs[r], Answered(runs[r], Small))
  BY <1>0, OkAnswered, Lengths DEF RunOK, KeyFrom
<1>3. /\ RunOK(Hooked(runs[r], [do |-> hook, path |-> p], "tool"))
      /\ KeyFrom(runs[r], Hooked(runs[r], [do |-> hook, path |-> p], "tool"))
  BY <1>0, OkHooked DEF Hooks, KeyFrom
<1>4. Moved(r)
  BY <1>1, <1>2, <1>3, MovedTo
<1> QED
  BY <1>1, <1>4 DEF Stored, Writes

LEMMA Visible ==
    ASSUME NEW run, NEW fuse, NEW found
    PROVE  cross_scope_hits(run, fuse, found) \subseteq run.vis
BY DEF cross_scope_hits, library_path_visible

LEMMA ToolSteps ==
    ASSUME RunsOK, NEW r \in Runs, execute_tool(r)
    PROVE  Moved(r) /\ Stored /\ UNCHANGED <<cache, served>>
<1>0. RunOK(runs[r])
  BY DEF RunsOK
<1>1. ASSUME NEW S, S \subseteq runs[r].vis, NEW size \in Nat, runs[r].at = "tool",
             Tells(r, [runs[r] EXCEPT !.seen = @ \cup S], size) \/ Tells(r, runs[r], size)
      PROVE  Moved(r) /\ Stored /\ UNCHANGED <<cache, served>>
  BY <1>1, Telling DEF Still, Stored
<1>2. ASSUME NEW fuse \in FuseSources, NEW found \in SUBSET Slugs, search_knowledge(r, fuse, found)
      PROVE  Moved(r) /\ Stored /\ UNCHANGED <<cache, served>>
  BY <1>1, <1>2, Visible, Lengths DEF search_knowledge, Calling
<1>3. ASSUME NEW s \in Slugs, read_concept(r, s) \/ read_passage(r, s)
      PROVE  Moved(r) /\ Stored /\ UNCHANGED <<cache, served>>
  <2>1. runs[r].at = "tool"
    BY <1>3 DEF read_concept, read_passage, Calling
  <2>2. CASE s \in runs[r].vis
    <3>1. {s} \subseteq runs[r].vis /\ Tells(r, [runs[r] EXCEPT !.seen = @ \cup {s}], Big)
      BY <1>3, <2>2 DEF read_concept, read_passage, library_path_visible
    <3> QED
      BY <1>1, <2>1, <3>1, Lengths
  <2>3. CASE s \notin runs[r].vis
    <3>1. {} \subseteq runs[r].vis /\ Tells(r, runs[r], Small)
      BY <1>3, <2>3 DEF read_concept, read_passage, library_path_visible
    <3> QED
      BY <1>1, <2>1, <3>1, Lengths
  <2> QED
    BY <2>2, <2>3
<1>4. CASE list_directory(r) \/ lint_knowledge(r) \/ BadToolArgs(r)
  <2>1. {} \subseteq runs[r].vis /\ Tells(r, runs[r], Small) /\ runs[r].at = "tool"
    BY <1>4 DEF list_directory, lint_knowledge, BadToolArgs, Calling
  <2> QED
    BY <1>1, <2>1, Lengths
<1>5. ASSUME NEW p, patch_concept_get(r, p)
      PROVE  Moved(r) /\ Stored /\ UNCHANGED <<cache, served>>
  <2> DEFINE x == [runs[r] EXCEPT !.at = "patch", !.path = p, !.held = texts[p]]
  <2>1. Moves(r, x) /\ runs[r].at = "tool" /\ UNCHANGED <<store, half>> /\ UNCHANGED <<cache, served>>
    BY <1>5 DEF patch_concept_get, Calling
  <2>2. /\ IsRun(x) /\ x.key = runs[r].key /\ x.base = runs[r].base /\ x.step = runs[r].step /\ x.then = runs[r].then
        /\ x.seen = runs[r].seen /\ x.vis = runs[r].vis /\ x.at = "patch" /\ x.todo = runs[r].todo
        /\ x.turns = runs[r].turns
    BY <1>0 DEF RunOK, IsRun, Fields
  <2> HIDE DEF x
  <2>3. RunOK(x) /\ KeyFrom(runs[r], x)
    BY <1>0, <2>1, <2>2 DEF RunOK, Waiting, KeyFrom
  <2> QED
    BY <2>1, <2>3, MovedTo DEF Stored
<1>6. ASSUME NEW p, delete_concept(r, p)
      PROVE  Moved(r) /\ Stored /\ UNCHANGED <<cache, served>>
  BY <1>6, Writing DEF delete_concept, Calling, Waiting
<1>7. ASSUME NEW p, NEW x, write_concept(r, p, x)
      PROVE  Moved(r) /\ Stored /\ UNCHANGED <<cache, served>>
  BY <1>7, Writing DEF write_concept, Calling, Waiting
<1>8. ASSUME NEW x, patch_concept_put(r, x)
      PROVE  Moved(r) /\ Stored /\ UNCHANGED <<cache, served>>
  BY <1>8, Writing DEF patch_concept_put, Waiting
<1> QED
  BY <1>2, <1>3, <1>4, <1>5, <1>6, <1>7, <1>8 DEF execute_tool

-----------------------------------------------------------------------------
(* The hooks, the cost layers and the fallback. *)

LEMMA HookSteps ==
    ASSUME RunsOK, NEW r \in Runs, state_for(r) \/ put_state(r)
    PROVE  Moved(r) /\ Still
<1>0. RunOK(runs[r])
  BY DEF RunsOK
<1>1. CASE state_for(r)
  <2> DEFINE x == [runs[r] EXCEPT !.at = "hot put", !.mem = hot]
  <2>1. Moves(r, x) /\ Still /\ runs[r].at = "hot take"
    BY <1>1 DEF state_for, Still
  <2>2. /\ IsRun(x) /\ x.key = runs[r].key /\ x.base = runs[r].base /\ x.step = runs[r].step /\ x.then = runs[r].then
        /\ x.seen = runs[r].seen /\ x.vis = runs[r].vis /\ x.at = "hot put" /\ x.todo = runs[r].todo
        /\ x.turns = runs[r].turns
    BY <1>0 DEF RunOK, IsRun, Fields
  <2> HIDE DEF x
  <2>3. RunOK(x) /\ KeyFrom(runs[r], x)
    BY <1>0, <2>1, <2>2 DEF RunOK, Waiting, KeyFrom
  <2> QED
    BY <2>1, <2>3, MovedTo
<1>2. CASE put_state(r)
  <2> DEFINE y == [runs[r] EXCEPT !.mem = NoMem, !.op = [do |-> "none"], !.then = "done"]
             x == [y EXCEPT !.at = runs[r].then]
  <2>1. /\ runs[r].at = "hot put" /\ Still
        /\ Moves(r, IF runs[r].then = "tool" THEN Answered(y, Small) ELSE x)
    <3>1. y.at = runs[r].at
      BY <1>0 DEF RunOK, IsRun, Fields
    <3> QED
      BY <1>2, <3>1 DEF put_state, Still
  <2>2. /\ IsRun(y) /\ y.key = runs[r].key /\ y.base = runs[r].base /\ y.step = runs[r].step /\ y.then = "done"
        /\ y.seen = runs[r].seen /\ y.vis = runs[r].vis /\ y.at = "hot put" /\ y.todo = runs[r].todo
        /\ y.turns = runs[r].turns
    BY <1>0, <2>1 DEF RunOK, IsRun, Fields
  <2> HIDE DEF y
  <2>3. /\ IsRun(x) /\ x.key = runs[r].key /\ x.base = runs[r].base /\ x.step = runs[r].step /\ x.then = "done"
        /\ x.seen = runs[r].seen /\ x.vis = runs[r].vis /\ x.at = runs[r].then
    BY <2>2 DEF IsRun, Fields
  <2> HIDE DEF x
  <2>4. runs[r].step \in Nat /\ runs[r].seen \subseteq runs[r].vis /\ runs[r].then \in Hooks /\ "done" \in Hooks
    BY <1>0 DEF RunOK, Hooks
  <2>5. RunOK(y)
    BY <2>2, <2>4 DEF RunOK, Waiting
  <2>6. CASE runs[r].then = "tool"
    <3>1. y.todo # <<>> /\ Talks(y.turns, y.todo)
      BY <1>0, <2>1, <2>2, <2>6 DEF RunOK, Waiting
    <3>2. RunOK(Answered(y, Small)) /\ KeyFrom(runs[r], Answered(y, Small))
      BY <2>2, <2>5, <3>1, OkAnswered, Lengths DEF KeyFrom
    <3> QED
      BY <2>1, <2>6, <3>2, MovedTo
  <2>7. CASE runs[r].then # "tool"
    <3>1. x.at \notin Busy
      BY <2>3, <2>4, <2>7 DEF Hooks, Busy
    <3>2. RunOK(x) /\ KeyFrom(runs[r], x)
      BY <2>3, <2>4, <3>1, Aside DEF KeyFrom
    <3> QED
      BY <2>1, <2>7, <3>2, MovedTo
  <2> QED
    BY <2>6, <2>7
<1> QED
  BY <1>1, <1>2

\* A run that goes on elsewhere, with its fingerprint or another.
Elsewhere(run, x) ==
    /\ IsRun(x) /\ x.at \notin Busy /\ x.step \in Nat /\ x.then = run.then
    /\ x.seen \subseteq x.vis /\ KeyFrom(run, x)

LEMMA MovedElsewhere ==
    ASSUME RunsOK, NEW r \in Runs, NEW x, Moves(r, x), Elsewhere(runs[r], x)
    PROVE  Moved(r)
<1>1. RunOK(x)
  BY Aside DEF RunsOK, RunOK, Elsewhere
<1> QED
  BY <1>1, MovedTo DEF Elsewhere

\* The exact cache answers, or the run goes on.
LEMMA Looked ==
    ASSUME RunsOK, NEW r \in Runs, NEW miss, lookup_exact(r, miss), RunOK(miss), KeyFrom(runs[r], miss)
    PROVE  Moved(r) /\ Kept
<1>0. RunOK(runs[r])
  BY DEF RunsOK
<1> DEFINE found == {e \in cache : e.key = bundle_fingerprint}
           z == [runs[r] EXCEPT !.at = "done"]
<1>1. CASE served' = {[base |-> e.base, now |-> texts] : e \in found} /\ Moves(r, z) /\ UNCHANGED cache
  <2>1. Elsewhere(runs[r], z)
    BY <1>0 DEF Elsewhere, RunOK, IsRun, Fields, Busy, KeyFrom
  <2> HIDE DEF z
  <2>2. Kept
    <3>1. \A s \in served' : \E e \in cache : e.key = stamps /\ s = [base |-> e.base, now |-> texts]
      BY <1>1 DEF bundle_fingerprint
    <3> QED
      BY <1>1, <3>1 DEF Kept
  <2> QED
    BY <1>1, <2>1, <2>2, MovedElsewhere
<1>2. CASE cache' = cache \ found /\ Moves(r, miss) /\ UNCHANGED served
  BY <1>2, MovedTo DEF Kept
<1> QED
  BY <1>1, <1>2 DEF lookup_exact

LEMMA CacheReads ==
    ASSUME RunsOK, NEW r \in Runs,
           cached_answer(r) \/ memory_query_hits(r) \/ agent_scopes(r) \/ run_query_cached(r)
    PROVE  Moved(r) /\ Kept /\ UNCHANGED <<store, half>>
<1>0. RunOK(runs[r])
  BY DEF RunsOK
<1>1. CASE cached_answer(r)
  <2> DEFINE x == [runs[r] EXCEPT !.at = "scopes"]
  <2>1. runs[r].at = "new" /\ lookup_exact(r, x) /\ UNCHANGED <<store, half>>
    BY <1>1 DEF cached_answer
  <2>2. /\ IsRun(x) /\ x.key = runs[r].key /\ x.base = runs[r].base /\ x.step = runs[r].step /\ x.then = runs[r].then
        /\ x.seen = runs[r].seen /\ x.vis = runs[r].vis /\ x.at = "scopes"
    BY <1>0 DEF RunOK, IsRun, Fields
  <2> HIDE DEF x
  <2>3. RunOK(x) /\ KeyFrom(runs[r], x)
    BY <1>0, <2>1, <2>2 DEF RunOK, Waiting, KeyFrom
  <2> QED
    BY <2>1, <2>3, Looked
<1>2. CASE memory_query_hits(r)
  <2> DEFINE x == [runs[r] EXCEPT !.at = "hits", !.vis = shelves]
  <2>1. runs[r].at = "new" /\ Moves(r, x) /\ UNCHANGED <<store, half>> /\ UNCHANGED <<cache, served>>
    BY <1>2 DEF memory_query_hits
  <2>2. Elsewhere(runs[r], x)
    BY <1>0, <2>1 DEF Elsewhere, RunOK, IsRun, Fields, Busy, KeyFrom
  <2> QED
    BY <2>1, <2>2, MovedElsewhere DEF Kept
<1>3. CASE agent_scopes(r)
  <2>1. PICK admin \in BOOLEAN : \E permit \in BOOLEAN :
           Moves(r, [runs[r] EXCEPT !.vis = IF admin THEN Slugs ELSE shelves,
                                    !.at = IF permit THEN "cached" ELSE "hits"])
    BY <1>3 DEF agent_scopes
  <2>2. PICK permit \in BOOLEAN :
           Moves(r, [runs[r] EXCEPT !.vis = IF admin THEN Slugs ELSE shelves,
                                    !.at = IF permit THEN "cached" ELSE "hits"])
    BY <2>1
  <2> DEFINE v == IF admin THEN Slugs ELSE shelves
             a == IF permit THEN "cached" ELSE "hits"
             x == [runs[r] EXCEPT !.vis = v, !.at = a]
  <2>3. runs[r].at = "scopes" /\ Moves(r, x) /\ UNCHANGED <<store, half>> /\ UNCHANGED <<cache, served>>
    BY <1>3, <2>2 DEF agent_scopes
  <2>4. a \notin Busy
    BY DEF Busy
  <2> HIDE DEF a, v
  <2>5. Elsewhere(runs[r], x)
    BY <1>0, <2>3, <2>4 DEF Elsewhere, RunOK, IsRun, Fields, KeyFrom
  <2> QED
    BY <2>3, <2>5, MovedElsewhere DEF Kept
<1>4. CASE run_query_cached(r)
  <2> DEFINE x == [runs[r] EXCEPT !.at = "hot", !.key = bundle_fingerprint, !.base = texts]
             y == [runs[r] EXCEPT !.at = "deep"]
  <2>1. /\ UNCHANGED <<store, half>>
        /\ lookup_exact(r, x) \/ (Moves(r, y) /\ UNCHANGED <<cache, served>>)
    BY <1>4 DEF run_query_cached
  <2>2. Elsewhere(runs[r], x)
    BY <1>0 DEF Elsewhere, RunOK, IsRun, Fields, Busy, KeyFrom, bundle_fingerprint
  <2>3. Elsewhere(runs[r], y)
    BY <1>0 DEF Elsewhere, RunOK, IsRun, Fields, Busy, KeyFrom
  <2> HIDE DEF x, y
  <2>4. RunOK(x) /\ KeyFrom(runs[r], x)
    BY <1>0, <2>2, Aside DEF Elsewhere, RunOK
  <2>5. CASE lookup_exact(r, x)
    BY <2>1, <2>4, <2>5, Looked
  <2>6. CASE Moves(r, y) /\ UNCHANGED <<cache, served>>
    BY <2>1, <2>3, <2>6, MovedElsewhere DEF Kept
  <2> QED
    BY <2>1, <2>5, <2>6
<1> QED
  BY <1>1, <1>2, <1>3, <1>4

LEMMA LayerSteps ==
    ASSUME RunsOK, NEW r \in Runs,
           \/ hot_lookup(r) \/ hot_read(r) \/ hot_answer(r) \/ run_query(r) \/ InsertDeep(r)
           \/ \E fuse \in FuseSources, found \in SUBSET Slugs : memory_query(r, fuse, found)
    PROVE  Moved(r) /\ Kept /\ UNCHANGED <<store, half>>
<1>0. RunOK(runs[r])
  BY DEF RunsOK
<1>1. CASE hot_lookup(r)
  <2>1. PICK i \in 1 .. Len(hot.concepts) + 1 : \E j \in 1 .. Len(hot.qas) + 1 :
           Moves(r, [runs[r] EXCEPT !.at = "hot read",
                         !.todo = SubSeq(hot.concepts, i, Len(hot.concepts)),
                         !.held = IF j <= Len(hot.qas) THEN "sections" ELSE Absent])
    BY <1>1 DEF hot_lookup
  <2>2. PICK j \in 1 .. Len(hot.qas) + 1 :
           Moves(r, [runs[r] EXCEPT !.at = "hot read",
                         !.todo = SubSeq(hot.concepts, i, Len(hot.concepts)),
                         !.held = IF j <= Len(hot.qas) THEN "sections" ELSE Absent])
    BY <2>1
  <2> DEFINE td == SubSeq(hot.concepts, i, Len(hot.concepts))
             h == IF j <= Len(hot.qas) THEN "sections" ELSE Absent
             x == [runs[r] EXCEPT !.at = "hot read", !.todo = td, !.held = h]
  <2>3. Moves(r, x) /\ UNCHANGED <<store, half>> /\ UNCHANGED <<cache, served>>
    BY <1>1, <2>2 DEF hot_lookup
  <2> HIDE DEF td, h
  <2>4. Elsewhere(runs[r], x)
    BY <1>0 DEF Elsewhere, RunOK, IsRun, Fields, Busy, KeyFrom
  <2> QED
    BY <2>3, <2>4, MovedElsewhere DEF Kept
<1>2. CASE hot_read(r)
  <2> DEFINE tl == Tail(runs[r].todo)
             op == [do |-> "drop", path |-> Head(runs[r].todo)]
             x == [runs[r] EXCEPT !.todo = tl, !.held = "sections"]
             y == [runs[r] EXCEPT !.todo = tl]
  <2>1. /\ runs[r].at = "hot read" /\ UNCHANGED <<store, half>> /\ UNCHANGED <<cache, served>>
        /\ Moves(r, x) \/ Moves(r, Hooked(y, op, "hot read"))
    BY <1>2 DEF hot_read
  <2> HIDE DEF tl, op
  <2>2. Elsewhere(runs[r], x) /\ Elsewhere(runs[r], y)
    BY <1>0, <2>1 DEF Elsewhere, RunOK, IsRun, Fields, Busy, KeyFrom
  <2>3. y.key = runs[r].key /\ y.base = runs[r].base
    BY <1>0 DEF RunOK, IsRun, Fields
  <2> HIDE DEF x, y
  <2>4. RunOK(y)
    BY <1>0, <2>2, Aside DEF Elsewhere, RunOK
  <2>5. "hot read" \in Hooks
    BY DEF Hooks
  <2>6. RunOK(Hooked(y, op, "hot read")) /\ KeyFrom(runs[r], Hooked(y, op, "hot read"))
    BY <2>3, <2>4, <2>5, OkHooked DEF KeyFrom
  <2>7. Moved(r)
    BY <2>1, <2>2, <2>6, MovedElsewhere, MovedTo
  <2> QED
    BY <2>1, <2>7 DEF Kept
<1>3. CASE hot_answer(r)
  <2> DEFINE x == [runs[r] EXCEPT !.at = "done", !.held = Absent]
             y == [runs[r] EXCEPT !.at = "deep", !.held = Absent]
  <2>1. /\ UNCHANGED <<store, half>> /\ UNCHANGED served
        /\ \/ cache' = Cached(runs[r]) /\ Moves(r, x)
           \/ Moves(r, y) /\ UNCHANGED cache
    BY <1>3 DEF hot_answer
  <2>2. Elsewhere(runs[r], x) /\ Elsewhere(runs[r], y)
    BY <1>0 DEF Elsewhere, RunOK, IsRun, Fields, Busy, KeyFrom
  <2> HIDE DEF x, y
  <2>3. Kept
    BY <2>1 DEF Kept, Cached
  <2> QED
    BY <2>1, <2>2, <2>3, MovedElsewhere
<1>4. CASE run_query(r)
  <2>1. /\ UNCHANGED <<store, half>> /\ UNCHANGED <<cache, served>>
        /\ Moves(r, Opened(runs[r], <<UserTurn>>)) \/ Moves(r, Aborted(runs[r]))
    BY <1>4 DEF run_query
  <2>2. Talks(<<UserTurn>>, <<>>)
    <3>1. <<>> \in Seq(Turn) /\ <<>> \o <<UserTurn>> = <<UserTurn>>
      OBVIOUS
    <3>2. \A i \in DOMAIN <<>> : <<>>[i].kind \in {"user", "assistant"}
      OBVIOUS
    <3> QED
      BY <3>1, <3>2, QuestionTalks
  <2>3. RunOK(Opened(runs[r], <<UserTurn>>)) /\ KeyFrom(runs[r], Opened(runs[r], <<UserTurn>>))
    BY <1>0, <2>2, OkOpened DEF KeyFrom
  <2>4. RunOK(Aborted(runs[r])) /\ KeyFrom(runs[r], Aborted(runs[r]))
    BY <1>0, OkAborted DEF KeyFrom
  <2> QED
    BY <2>1, <2>3, <2>4, MovedTo DEF Kept
<1>5. CASE InsertDeep(r)
  <2> DEFINE x == [runs[r] EXCEPT !.at = "done"]
  <2>1. UNCHANGED <<store, half>> /\ UNCHANGED served /\ Moves(r, x) /\ cache' \subseteq Cached(runs[r])
    BY <1>5 DEF InsertDeep
  <2>2. Elsewhere(runs[r], x)
    BY <1>0 DEF Elsewhere, RunOK, IsRun, Fields, Busy, KeyFrom
  <2> HIDE DEF x
  <2>3. Kept
    BY <2>1 DEF Kept, Cached
  <2> QED
    BY <2>1, <2>2, <2>3, MovedElsewhere
<1>6. ASSUME NEW fuse, NEW found, memory_query(r, fuse, found)
      PROVE  Moved(r) /\ Kept /\ UNCHANGED <<store, half>>
  <2> DEFINE S == cross_scope_hits(runs[r], fuse, found)
             x == [runs[r] EXCEPT !.at = "done", !.seen = @ \cup S]
  <2>1. UNCHANGED <<store, half>> /\ UNCHANGED <<cache, served>> /\ Moves(r, x)
    BY <1>6 DEF memory_query
  <2>2. S \subseteq runs[r].vis
    BY Visible
  <2> HIDE DEF S
  <2>3. Elsewhere(runs[r], x)
    BY <1>0, <2>2 DEF Elsewhere, RunOK, IsRun, Fields, Busy, KeyFrom
  <2> QED
    BY <2>1, <2>3, MovedElsewhere DEF Kept
<1> QED
  BY <1>1, <1>2, <1>3, <1>4, <1>5, <1>6

\* A write of the fallback: its hook follows, or the run goes on.
LEMMA Falling ==
    ASSUME RunsOK, NEW r \in Runs, NEW p, NEW x, NEW then \in {"done", "repair"}, NEW at, at \notin Busy,
           Writes(r, p, x, "write", then, [runs[r] EXCEPT !.at = at])
    PROVE  Moved(r) /\ Stored /\ UNCHANGED <<cache, served>>
<1>0. RunOK(runs[r])
  BY DEF RunsOK
<1> DEFINE y == [runs[r] EXCEPT !.at = at]
           h == Hooked(runs[r], [do |-> "write", path |-> p], then)
<1>1. PICK o \in Outcomes : Puts(p, x, o) /\ Moves(r, IF o = "ok" THEN h ELSE y)
  BY DEF Writes
<1>2. Elsewhere(runs[r], y)
  BY <1>0 DEF Elsewhere, RunOK, IsRun, Fields, KeyFrom
<1>3. then \in Hooks /\ then # "tool"
  BY DEF Hooks
<1>4. RunOK(h) /\ KeyFrom(runs[r], h)
  BY <1>0, <1>3, OkHooked DEF KeyFrom
<1> HIDE DEF y, h
<1>5. Moved(r)
  BY <1>1, <1>2, <1>4, MovedElsewhere, MovedTo
<1> QED
  BY <1>1, <1>5 DEF Stored, Writes

LEMMA FallbackReads ==
    ASSUME RunsOK, NEW r \in Runs,
           \/ \E x \in Texts : StartAdd(r, x)
           \/ direct_write_add_get(r) \/ dated_addendum_get(r) \/ maintain_scan(r) \/ maintain_get(r)
           \/ NextRequest(r)
    PROVE  Moved(r) /\ Still
<1>0. RunOK(runs[r])
  BY DEF RunsOK
<1> USE <1>0 DEF RunOK, IsRun, Fields, Busy, KeyFrom, Elsewhere
<1>1. ASSUME NEW x \in Texts, StartAdd(r, x) PROVE Moved(r) /\ Still
  <2> DEFINE y == [runs[r] EXCEPT !.kind = "add", !.at = "probe", !.step = 1, !.held = x]
  <2>1. Moves(r, y) /\ Still
    BY <1>1 DEF StartAdd, Still
  <2>2. Elsewhere(runs[r], y)
    OBVIOUS
  <2> QED
    BY <2>1, <2>2, MovedElsewhere
<1>2. CASE direct_write_add_get(r)
  <2> DEFINE y == [runs[r] EXCEPT !.at = "add", !.path = Paths[runs[r].step]]
             n == runs[r].step + 1
             z == [runs[r] EXCEPT !.step = n]
  <2>1. (Moves(r, y) \/ Moves(r, z)) /\ Still /\ runs[r].at = "probe" /\ n \in Nat
    BY <1>2 DEF direct_write_add_get, Still
  <2> HIDE DEF n
  <2>2. Elsewhere(runs[r], y)
    OBVIOUS
  <2>3. Elsewhere(runs[r], z)
    BY <2>1
  <2> QED
    BY <2>1, <2>2, <2>3, MovedElsewhere
<1>3. CASE dated_addendum_get(r)
  <2>1. PICK p \in ToSet(Paths) :
           Moves(r, [runs[r] EXCEPT !.kind = "update", !.path = p, !.held = texts[p],
                         !.at = IF texts[p] = Absent THEN "failed" ELSE "update"])
    BY <1>3 DEF dated_addendum_get
  <2> DEFINE a == IF texts[p] = Absent THEN "failed" ELSE "update"
             y == [runs[r] EXCEPT !.kind = "update", !.path = p, !.held = texts[p], !.at = a]
  <2>2. Moves(r, y) /\ Still /\ a \notin Busy
    BY <1>3, <2>1 DEF dated_addendum_get, Still
  <2> HIDE DEF a
  <2>3. Elsewhere(runs[r], y)
    BY <2>2
  <2> QED
    BY <2>2, <2>3, MovedElsewhere
<1>4. CASE maintain_scan(r)
  <2>1. PICK n \in 0 .. 2 : \E s \in [1 .. n -> {p \in ToSet(Paths) : texts[p] # Absent}] :
           Moves(r, [runs[r] EXCEPT !.kind = "maintain", !.at = "repair", !.todo = s])
    BY <1>4 DEF maintain_scan
  <2>2. PICK s \in [1 .. n -> {p \in ToSet(Paths) : texts[p] # Absent}] :
           Moves(r, [runs[r] EXCEPT !.kind = "maintain", !.at = "repair", !.todo = s])
    BY <2>1
  <2> DEFINE y == [runs[r] EXCEPT !.kind = "maintain", !.at = "repair", !.todo = s]
  <2>3. Moves(r, y) /\ Still
    BY <1>4, <2>2 DEF maintain_scan, Still
  <2>4. Elsewhere(runs[r], y)
    OBVIOUS
  <2> QED
    BY <2>3, <2>4, MovedElsewhere
<1>5. CASE maintain_get(r)
  <2> DEFINE tl == Tail(runs[r].todo)
             hd == Head(runs[r].todo)
             x == [runs[r] EXCEPT !.at = "done"]
             y == [runs[r] EXCEPT !.todo = tl]
             z == [runs[r] EXCEPT !.at = "repair put", !.path = hd, !.todo = tl, !.held = texts[hd]]
  <2>1. (Moves(r, x) \/ Moves(r, y) \/ Moves(r, z)) /\ Still /\ runs[r].at = "repair"
    BY <1>5 DEF maintain_get, Still
  <2> HIDE DEF tl, hd
  <2>2. Elsewhere(runs[r], x)
    OBVIOUS
  <2>3. Elsewhere(runs[r], y)
    BY <2>1
  <2>4. Elsewhere(runs[r], z)
    OBVIOUS
  <2> QED
    BY <2>1, <2>2, <2>3, <2>4, MovedElsewhere
<1>6. CASE NextRequest(r)
  <2>1. Moves(r, Fresh) /\ Still
    BY <1>6 DEF NextRequest, Still
  <2> QED
    BY <2>1, OkFresh, MovedTo
<1> QED
  BY <1>1, <1>2, <1>3, <1>4, <1>5, <1>6

LEMMA FallbackWrites ==
    ASSUME RunsOK, NEW r \in Runs, direct_write_add(r) \/ dated_addendum_update(r) \/ wire_and_flag_maintain(r)
    PROVE  Moved(r) /\ Stored /\ UNCHANGED <<cache, served>>
<1>0. "failed" \notin Busy /\ "repair" \notin Busy
  BY DEF Busy
<1>1. CASE direct_write_add(r)
  BY <1>0, <1>1, Falling DEF direct_write_add
<1>2. CASE dated_addendum_update(r)
  <2>1. PICK x \in Texts \ {runs[r].held} :
           Writes(r, runs[r].path, x, "write", "done", [runs[r] EXCEPT !.at = "failed"])
    BY <1>2 DEF dated_addendum_update
  <2> QED
    BY <1>0, <2>1, Falling
<1>3. CASE wire_and_flag_maintain(r)
  <2>1. PICK x \in Texts \ {runs[r].held} :
           Writes(r, runs[r].path, x, "write", "repair", [runs[r] EXCEPT !.at = "repair"])
    BY <1>3 DEF wire_and_flag_maintain
  <2> QED
    BY <1>0, <2>1, Falling
<1> QED
  BY <1>1, <1>2, <1>3

\* Every step moves one run or none, stores one text or none, and fills the
\* cache only from a run.
LEMMA Steps ==
    ASSUME RunsOK, [Next]_vars
    PROVE  /\ UNCHANGED runs \/ \E r \in Runs : Moved(r)
           /\ Kept /\ Stored
<1>1. CASE UNCHANGED vars
  BY <1>1 DEF vars, Kept, Stored, store
<1>2. ASSUME NEW p, NEW x, WriteElsewhere(p, x)
      PROVE  UNCHANGED runs /\ Kept /\ Stored
  BY <1>2 DEF WriteElsewhere, Kept, Stored, Outcomes
<1>3. ASSUME NEW s, ShelveElsewhere(s)
      PROVE  UNCHANGED runs /\ Kept /\ Stored
  BY <1>3 DEF ShelveElsewhere, Kept, Stored
<1>4. ASSUME NEW r \in Runs,
             \/ run_mutation(r) \/ \E h \in Histories : run_chat_streaming(r, h)
             \/ LlmFails(r) \/ LlmAnswers(r) \/ StepCapExceeded(r)
             \/ \E n \in 1 .. MaxCalls : LlmCalls(r, n)
      PROVE  Moved(r) /\ Kept /\ Stored
  BY <1>4, LoopSteps, StillKept
<1>5. ASSUME NEW r \in Runs, execute_tool(r)
      PROVE  Moved(r) /\ Kept /\ Stored
  BY <1>5, ToolSteps DEF Kept
<1>6. ASSUME NEW r \in Runs, state_for(r) \/ put_state(r)
      PROVE  Moved(r) /\ Kept /\ Stored
  BY <1>6, HookSteps, StillKept
<1>7. ASSUME NEW r \in Runs, cached_answer(r) \/ memory_query_hits(r) \/ agent_scopes(r) \/ run_query_cached(r)
      PROVE  Moved(r) /\ Kept /\ Stored
  BY <1>7, CacheReads DEF Stored
<1>8. ASSUME NEW r \in Runs,
             \/ hot_lookup(r) \/ hot_read(r) \/ hot_answer(r) \/ run_query(r) \/ InsertDeep(r)
             \/ \E fuse \in FuseSources, found \in SUBSET Slugs : memory_query(r, fuse, found)
      PROVE  Moved(r) /\ Kept /\ Stored
  BY <1>8, LayerSteps DEF Stored
<1>9. ASSUME NEW r \in Runs,
             \/ \E x \in Texts : StartAdd(r, x)
             \/ direct_write_add_get(r) \/ dated_addendum_get(r) \/ maintain_scan(r) \/ maintain_get(r)
             \/ NextRequest(r)
      PROVE  Moved(r) /\ Kept /\ Stored
  BY <1>9, FallbackReads, StillKept
<1>10. ASSUME NEW r \in Runs, direct_write_add(r) \/ dated_addendum_update(r) \/ wire_and_flag_maintain(r)
       PROVE  Moved(r) /\ Kept /\ Stored
  BY <1>10, FallbackWrites DEF Kept
<1> QED
  BY <1>1, <1>2, <1>3, <1>4, <1>5, <1>6, <1>7, <1>8, <1>9, <1>10, Zenon DEF Next

LEMMA InitRuns == Init => RunsOK
<1> SUFFICES ASSUME Init PROVE RunsOK
  OBVIOUS
<1>1. runs = [r \in Runs |-> Fresh]
  BY DEF Init
<1>2. \A r \in Runs : runs[r] = Fresh
  BY <1>1
<1>3. runs = [r \in Runs |-> runs[r]]
  BY <1>1
<1> QED
  BY <1>2, <1>3, OkFresh DEF RunsOK

LEMMA NextRuns == RunsOK /\ [Next]_vars => RunsOK'
<1> SUFFICES ASSUME RunsOK, [Next]_vars PROVE RunsOK'
  OBVIOUS
<1>1. CASE UNCHANGED runs
  BY <1>1 DEF RunsOK
<1>2. ASSUME NEW r \in Runs, Moved(r) PROVE RunsOK'
  <2> DEFINE x == runs'[r]
  <2>1. runs' = [runs EXCEPT ![r] = x] /\ RunOK(x)
    BY <1>2 DEF Moved
  <2> HIDE DEF x
  <2>2. runs' = [q \in Runs |-> runs'[q]] /\ \A q \in Runs : runs'[q] = IF q = r THEN x ELSE runs[q]
    BY <2>1 DEF RunsOK
  <2> QED
    BY <2>1, <2>2 DEF RunsOK
<1> QED
  BY <1>1, <1>2, Steps

\* What every request must look like on the wire, for any context budget, step
\* cap, number of calls in a reply and interleaving of runs: a tool result follows
\* the turn that asked for it, every call is answered before the next turn, and the
\* newest question is there, whatever trim_conversation dropped from the front.
THEOREM RequestWellFormedHolds == Spec => []RequestWellFormed
<1>1. RunsOK => RequestWellFormed
  <2> SUFFICES ASSUME RunsOK, NEW r \in Runs, runs[r].at = "ask"
               PROVE  LET sent  == chat_messages(runs[r].turns)
                          asked == {i \in DOMAIN sent : sent[i].kind = "calls"}
                          users == {i \in DOMAIN runs[r].turns : runs[r].turns[i].kind = "user"}
                      IN  /\ \A i \in asked :
                                LET n == Len(sent[i].calls)
                                IN  /\ i + n <= Len(sent)
                                    /\ \A k \in 1 .. n : sent[i + k].kind = "result" /\ sent[i + k].calls = <<sent[i].calls[k]>>
                          /\ \A j \in DOMAIN sent : sent[j].kind = "result" =>
                                \E i \in asked : j \in i + 1 .. i + Len(sent[i].calls)
                          /\ Len(sent) > Len(runs[r].turns) - Max(users)
    BY Zenon DEF RequestWellFormed
  <2>1. Talks(runs[r].turns, <<>>)
    BY DEF RunsOK, RunOK
  <2> QED
    BY <2>1, ClosedRequest, Zenon
<1> QED
  BY <1>1, InitRuns, NextRuns, PTL DEF Spec

\* No run is shown a book its caller could not see when its scopes were built, on
\* any way to the library, for any books, shelves and runs.
THEOREM NothingHiddenHolds == Spec => []NothingHidden
<1>1. RunsOK => NothingHidden
  BY DEF RunsOK, RunOK, NothingHidden
<1> QED
  BY <1>1, InitRuns, NextRuns, PTL DEF Spec

-----------------------------------------------------------------------------
(* The exact cache. *)

\* A fingerprint and the bundle it stands for, against the store's: it is of an
\* earlier moment, a path without a row had no text, and where it has the row of
\* now it has the text of now.
Agrees(k, b, now, row, next) ==
    /\ k = [p \in ToSet(Paths) |-> k[p]] /\ b = [p \in ToSet(Paths) |-> b[p]]
    /\ \A p \in ToSet(Paths) :
          /\ k[p] \in Int /\ k[p] < next
          /\ k[p] = 0 => b[p] = Absent
          /\ k[p] = row[p] => b[p] = now[p]

\* While no put has failed between its file and its row.
CacheOK ==
    \/ half
    \/ /\ clock \in Nat \ {0}
       /\ stamps = [p \in ToSet(Paths) |-> stamps[p]] /\ \A p \in ToSet(Paths) : stamps[p] \in Nat
       /\ Agrees(stamps, texts, texts, stamps, clock)
       /\ \A e \in cache : Agrees(e.key, e.base, texts, stamps, clock)
       /\ \A r \in Runs : Agrees(runs[r].key, runs[r].base, texts, stamps, clock)
       /\ \A s \in served : s.base = s.now

LEMMA NoKeyAgrees ==
    ASSUME NEW now, NEW row, NEW next \in Nat, \A p \in ToSet(Paths) : row[p] \in Nat
    PROVE  Agrees(NoKey, [p \in ToSet(Paths) |-> Absent], now, row, next)
BY DEF Agrees, NoKey

\* A write gives its path a row that no fingerprint has.
LEMMA PutAgrees ==
    ASSUME NEW p, NEW x, NEW o \in Outcomes, Puts(p, x, o), ~half',
           clock \in Nat \ {0}, \A q \in ToSet(Paths) : stamps[q] \in Nat,
           stamps = [q \in ToSet(Paths) |-> stamps[q]], texts = [q \in ToSet(Paths) |-> texts[q]]
    PROVE  /\ clock' \in Nat \ {0}
           /\ stamps' = [q \in ToSet(Paths) |-> stamps'[q]] /\ \A q \in ToSet(Paths) : stamps'[q] \in Nat
           /\ \A k, b : Agrees(k, b, texts, stamps, clock) => Agrees(k, b, texts', stamps', clock')
           /\ Agrees(stamps, texts, texts, stamps, clock) => Agrees(stamps', texts', texts', stamps', clock')
<1>1. CASE UNCHANGED store
  BY <1>1, Zenon DEF store
<1>2. CASE /\ texts' = [texts EXCEPT ![p] = x]
           /\ stamps' = [stamps EXCEPT ![p] = IF x = Absent THEN 0 ELSE clock]
           /\ clock' = IF x = Absent THEN clock ELSE clock + 1
  <2>1. clock' \in Nat \ {0} /\ clock <= clock' /\ (x # Absent => clock < clock')
    BY <1>2
  <2>2. /\ stamps' = [q \in ToSet(Paths) |-> stamps'[q]] /\ texts' = [q \in ToSet(Paths) |-> texts'[q]]
        /\ \A q \in ToSet(Paths) : /\ stamps'[q] = IF q = p THEN (IF x = Absent THEN 0 ELSE clock) ELSE stamps[q]
                                   /\ texts'[q] = IF q = p THEN x ELSE texts[q]
    BY <1>2
  <2>3. \A q \in ToSet(Paths) : stamps'[q] \in Nat
    BY <2>2
  <2>4. ASSUME NEW k, NEW b, Agrees(k, b, texts, stamps, clock)
        PROVE  Agrees(k, b, texts', stamps', clock')
    <3>1. ASSUME NEW q \in ToSet(Paths)
          PROVE  /\ k[q] \in Int /\ k[q] < clock'
                 /\ k[q] = 0 => b[q] = Absent
                 /\ k[q] = stamps'[q] => b[q] = texts'[q]
      <4>1. /\ k[q] \in Int /\ k[q] < clock /\ (k[q] = 0 => b[q] = Absent)
            /\ k[q] = stamps[q] => b[q] = texts[q]
        BY <2>4 DEF Agrees
      <4>2. k[q] < clock'
        BY <2>1, <4>1
      <4>3. k[q] = stamps'[q] => b[q] = texts'[q]
        <5>1. CASE q # p
          BY <2>2, <4>1, <5>1
        <5>2. CASE q = p /\ x = Absent
          BY <2>2, <4>1, <5>2
        <5>3. CASE q = p /\ x # Absent
          BY <2>2, <4>1, <5>3
        <5> QED
          BY <5>1, <5>2, <5>3
      <4> QED
        BY <4>1, <4>2, <4>3
    <3>2. k = [q \in ToSet(Paths) |-> k[q]] /\ b = [q \in ToSet(Paths) |-> b[q]]
      BY <2>4 DEF Agrees
    <3> QED
      BY <3>1, <3>2, Zenon DEF Agrees
  <2>5. ASSUME Agrees(stamps, texts, texts, stamps, clock)
        PROVE  Agrees(stamps', texts', texts', stamps', clock')
    <3>1. ASSUME NEW q \in ToSet(Paths)
          PROVE  stamps'[q] \in Int /\ stamps'[q] < clock' /\ (stamps'[q] = 0 => texts'[q] = Absent)
      <4>1. stamps[q] < clock /\ (stamps[q] = 0 => texts[q] = Absent) /\ stamps[q] \in Int
        BY <2>5 DEF Agrees
      <4>2. CASE q # p
        BY <2>1, <2>2, <4>1, <4>2
      <4>3. CASE q = p
        BY <2>1, <2>2, <4>3
      <4> QED
        BY <4>2, <4>3
    <3> QED
      BY <2>2, <3>1, Zenon DEF Agrees
  <2> QED
    BY <2>1, <2>2, <2>3, <2>4, <2>5
<1> QED
  BY <1>1, <1>2 DEF Puts, Outcomes

LEMMA InitCache == Init => CacheOK
<1> SUFFICES ASSUME Init PROVE CacheOK
  OBVIOUS
<1>1. PICK x \in Texts \cup {Absent} :
         /\ texts = [p \in ToSet(Paths) |-> IF p = Head(Paths) THEN x ELSE Absent]
         /\ stamps = [p \in ToSet(Paths) |-> IF texts[p] = Absent THEN 0 ELSE 1]
  BY DEF Init
<1>2. clock = 2 /\ cache = {} /\ served = {} /\ runs = [r \in Runs |-> Fresh]
  BY DEF Init
<1>3. stamps = [p \in ToSet(Paths) |-> stamps[p]] /\ \A p \in ToSet(Paths) : stamps[p] \in Nat
  BY <1>1
<1>4. Agrees(stamps, texts, texts, stamps, clock)
  <2>1. texts = [p \in ToSet(Paths) |-> texts[p]]
    BY <1>1
  <2>2. \A p \in ToSet(Paths) : stamps[p] \in Int /\ stamps[p] < clock /\ (stamps[p] = 0 => texts[p] = Absent)
    BY <1>1, <1>2
  <2> QED
    BY <1>3, <2>1, <2>2, Zenon DEF Agrees
<1>5. \A r \in Runs : Agrees(runs[r].key, runs[r].base, texts, stamps, clock)
  BY <1>2, <1>3, NoKeyAgrees, OkFresh
<1> QED
  BY <1>2, <1>3, <1>4, <1>5 DEF CacheOK

LEMMA NextCache == RunsOK /\ CacheOK /\ [Next]_vars => CacheOK'
<1> SUFFICES ASSUME RunsOK, CacheOK, [Next]_vars, ~half' PROVE CacheOK'
  BY DEF CacheOK
<1>1. (UNCHANGED runs \/ \E r \in Runs : Moved(r)) /\ Kept /\ Stored
  BY Steps
<1>2. ~half
  BY <1>1 DEF Stored, Puts, Outcomes
<1>3. /\ clock \in Nat \ {0}
      /\ stamps = [p \in ToSet(Paths) |-> stamps[p]] /\ \A p \in ToSet(Paths) : stamps[p] \in Nat
      /\ Agrees(stamps, texts, texts, stamps, clock)
      /\ \A e \in cache : Agrees(e.key, e.base, texts, stamps, clock)
      /\ \A r \in Runs : Agrees(runs[r].key, runs[r].base, texts, stamps, clock)
      /\ \A s \in served : s.base = s.now
  BY <1>2 DEF CacheOK
<1>4. texts = [p \in ToSet(Paths) |-> texts[p]]
  BY <1>3 DEF Agrees
\* What the run, the cache and the answer hold, against the store before the step.
<1>5. \A r \in Runs : Agrees(runs'[r].key, runs'[r].base, texts, stamps, clock)
  <2>1. CASE UNCHANGED runs
    BY <1>3, <2>1
  <2>2. ASSUME NEW r \in Runs, Moved(r), NEW q \in Runs
        PROVE  Agrees(runs'[q].key, runs'[q].base, texts, stamps, clock)
    <3>1. runs' = [runs EXCEPT ![r] = runs'[r]] /\ KeyFrom(runs[r], runs'[r])
      BY <2>2 DEF Moved
    <3>2. CASE q # r
      <4>1. runs'[q] = runs[q]
        BY <3>1, <3>2 DEF RunsOK
      <4> QED
        BY <1>3, <4>1
    <3>3. CASE q = r
      BY <1>3, <3>1, <3>3, NoKeyAgrees DEF KeyFrom
    <3> QED
      BY <3>2, <3>3
  <2> QED
    BY <1>1, <2>1, <2>2
<1>6. \A e \in cache' : Agrees(e.key, e.base, texts, stamps, clock)
  <2> SUFFICES ASSUME NEW e \in cache' PROVE Agrees(e.key, e.base, texts, stamps, clock)
    OBVIOUS
  <2>1. CASE e \in cache
    BY <1>3, <2>1
  <2>2. ASSUME NEW r \in Runs, e = [key |-> runs[r].key, base |-> runs[r].base]
        PROVE  Agrees(e.key, e.base, texts, stamps, clock)
    BY <1>3, <2>2
  <2> QED
    BY <1>1, <2>1, <2>2 DEF Kept
<1>7. \A s \in served' : s.base = s.now
  <2> SUFFICES ASSUME NEW s \in served' PROVE s.base = s.now
    OBVIOUS
  <2>1. CASE s \in served
    BY <1>3, <2>1
  <2>2. ASSUME NEW e \in cache, e.key = stamps, s = [base |-> e.base, now |-> texts]
        PROVE  s.base = s.now
    <3>1. Agrees(e.key, e.base, texts, stamps, clock)
      BY <1>3
    <3>2. \A p \in ToSet(Paths) : e.base[p] = texts[p]
      BY <2>2, <3>1 DEF Agrees
    <3>3. e.base = [p \in ToSet(Paths) |-> e.base[p]]
      BY <3>1 DEF Agrees
    <3>4. e.base = texts
      BY <1>4, <3>2, <3>3
    <3> QED
      BY <2>2, <3>4
  <2> QED
    BY <1>1, <2>1, <2>2 DEF Kept
<1>8. CASE UNCHANGED <<store, half>>
  <2>1. UNCHANGED <<texts, stamps, clock>>
    BY <1>8 DEF store
  <2> QED
    BY <1>3, <1>5, <1>6, <1>7, <2>1 DEF CacheOK
<1>9. ASSUME NEW p, NEW x, NEW o \in Outcomes, Puts(p, x, o) PROVE CacheOK'
  <2>1. /\ clock' \in Nat \ {0}
        /\ stamps' = [q \in ToSet(Paths) |-> stamps'[q]] /\ \A q \in ToSet(Paths) : stamps'[q] \in Nat
        /\ \A k, b : Agrees(k, b, texts, stamps, clock) => Agrees(k, b, texts', stamps', clock')
        /\ Agrees(stamps, texts, texts, stamps, clock) => Agrees(stamps', texts', texts', stamps', clock')
    BY <1>3, <1>4, <1>9, PutAgrees
  <2>2. \A e \in cache' : Agrees(e.key, e.base, texts', stamps', clock')
    BY <1>6, <2>1
  <2>3. \A r \in Runs : Agrees(runs'[r].key, runs'[r].base, texts', stamps', clock')
    BY <1>5, <2>1
  <2> QED
    BY <1>3, <1>7, <2>1, <2>2, <2>3 DEF CacheOK
<1> QED
  BY <1>1, <1>8, <1>9 DEF Stored

\* The exact cache answers for the bundle as it is: an entry is stored under the
\* fingerprint its run read before it asked, and no write since can have left that
\* fingerprint in place, except a put that failed between its file and its row; for
\* any runs, writers, paths and texts.
THEOREM CacheNotOutdatedHolds == Spec => []CacheNotOutdated
<1>1. CacheOK => CacheNotOutdated
  BY DEF CacheOK, CacheNotOutdated
<1>2. Init => RunsOK /\ CacheOK
  BY InitRuns, InitCache
<1>3. RunsOK /\ CacheOK /\ [Next]_vars => RunsOK' /\ CacheOK'
  BY NextRuns, NextCache
<1> QED
  BY <1>1, <1>2, <1>3, PTL DEF Spec
=============================================================================
