----------------------------- MODULE TestJobProofs ----------------------------
(***************************************************************************)
(* What a job guarantees in every run, for every set of jobs: the          *)
(* invariants of TestJob from the rules of TestRules.                      *)
(*                                                                         *)
(* A rule speaks of the scripts, a run of todo, what is left of them.  The *)
(* first part shows what the execution of a statement does to todo: one    *)
(* statement is replaced by what it leads to, a return or an exception     *)
(* drops statements up to an end or a handler.  The second shows that the  *)
(* conditions of the rules survive that: a route stays a route, a barrier  *)
(* is ahead or behind, a change is settled or about to be.  The third adds *)
(* the runner, and joins the parts in one inductive invariant, ScriptInv.  *)
(***************************************************************************)
EXTENDS TestRules, WellFoundedInduction, NaturalsInduction, TLAPS

(* A set of naturals has a least element, which is what Min gives. *)
LEMMA MinOf ==
  ASSUME NEW T, T \subseteq Nat, T # {}
  PROVE  Min(T) \in T /\ \A m \in T : Min(T) <= m
<1>1. PICK t \in T : \A s \in T : ~(<<s, t>> \in OpToRel(<, Nat))
  BY NatLessThanWellFounded, WFMin, Zenon
<1>2. \A s \in T : ~(s < t)
  BY <1>1 DEF OpToRel
<1>3. \A s \in T : t <= s
  BY <1>2
<1> QED
  BY <1>3 DEF Min

(* What is left of a sequence without its head. *)
LEMMA TailIs ==
  ASSUME NEW S, NEW q \in Seq(S), q # << >>
  PROVE  /\ Len(q) >= 1 /\ Head(q) = q[1] /\ q[1] \in S
         /\ Tail(q) = SubSeq(q, 2, Len(q))
         /\ Tail(q) \in Seq(S) /\ Len(Tail(q)) = Len(q) - 1
         /\ \A i \in 1 .. (Len(q) - 1) : Tail(q)[i] = q[i + 1]
OBVIOUS

\* z is a, and after it b.
JoinOf(z, a, b, S) ==
    /\ z \in Seq(S) /\ Len(z) = Len(a) + Len(b) /\ Len(a) \in Nat /\ Len(b) \in Nat
    /\ \A i \in 1 .. Len(a) : z[i] = a[i]
    /\ \A i \in 1 .. Len(b) : z[Len(a) + i] = b[i]
    /\ \A i \in (Len(a) + 1) .. Len(z) : z[i] = b[i - Len(a)]

(* One sequence after another. *)
LEMMA Joined ==
  ASSUME NEW S, NEW a \in Seq(S), NEW b \in Seq(S)
  PROVE  JoinOf(a \o b, a, b, S)
BY DEF JoinOf

(* A sequence of one. *)
LEMMA Single ==
  ASSUME NEW S, NEW e \in S
  PROVE  << e >> \in Seq(S) /\ Len(<< e >>) = 1 /\ << e >>[1] = e
OBVIOUS

(* A sequence of members of T. *)
LEMMA InSeq ==
  ASSUME NEW S, NEW q \in Seq(S), NEW T, \A i \in 1 .. Len(q) : q[i] \in T
  PROVE  q \in Seq(T)
OBVIOUS

(* The end of a sequence. *)
LEMMA RestIn ==
  ASSUME NEW S, NEW q \in Seq(S), NEW m \in 1 .. (Len(q) + 1)
  PROVE  SubSeq(q, m, Len(q)) \in Seq(S)
OBVIOUS

(* A sequence x put in front of the end of q that starts at m. *)
LEMMA Spliced ==
  ASSUME NEW S, NEW q \in Seq(S), NEW T, NEW x \in Seq(T),
         NEW m \in 1 .. (Len(q) + 1), NEW z, z = x \o SubSeq(q, m, Len(q))
  PROVE  /\ z \in Seq(S \cup T) /\ Len(z) = Len(x) + Len(q) - m + 1
         /\ \A i \in 1 .. Len(x) : z[i] = x[i]
         /\ \A i \in (Len(x) + 1) .. Len(z) : z[i] = q[i - Len(x) + m - 1]
OBVIOUS

--------------------------------------------------------------------------------
(***************************************************************************)
(* Execution of a statement.                                               *)
(***************************************************************************)
Execute ==
    \/ CommandWorks \/ CommandGoesWrong \/ SetAttribute \/ ReadAttribute
    \/ Branch \/ Decide \/ RecordFailure \/ Control \/ LeaveMethod
    \/ RaiseException

\* s raises k; when it is a command that puts something back, that went wrong.
Throws(s, k) ==
    \/ s.op \in Commands /\ s.on = k /\ k \in Any /\ (s.op = "restore" => stuck')
    \/ s.op = "use" /\ s.attr \notin attrs /\ k = "error"
    \/ s.op = "raise" /\ k = s.kind

\* x takes the place of the head of todo, which is s.
Becomes(s, x) ==
    \/ s.op \notin Branches \cup Bodies /\ x = << >>
    \/ s.op \in Markers /\ x = s.handler
    \/ s.op = "choose" /\ x \in {s.yes, s.no}
    \/ s.op \in Branches \ {"choose"} /\ x = IF Holds(s) THEN s.yes ELSE s.no
    \/ s.op = "block" /\ x = s.body
    \/ s.op = "call" /\ x = s.body \o << End >>

(* The sequences of a statement, by what it is. *)
LEMMA NestedIs ==
  ASSUME NEW s
  PROVE  /\ s.op \in Branches => Nested(s) = {s.yes, s.no}
         /\ s.op \in Bodies => Nested(s) = {s.body}
         /\ s.op \in Markers => Nested(s) = {s.handler}
         /\ s.op \notin Branches \cup Bodies \cup Markers => Nested(s) = {}
BY DEF Nested, Branches, Bodies, Markers

(* A statement is replaced by what it leads to, raises, or returns. *)
LEMMA ExecuteCases ==
  ASSUME NEW S, todo \in Seq(S), Execute
  PROVE  /\ todo # << >>
         /\ \/ \E x : /\ Becomes(todo[1], x) /\ verdict' = verdict
                      /\ todo' = x \o SubSeq(todo, 2, Len(todo))
            \/ \E k : Throws(todo[1], k) /\ Throw(k)
            \/ Returns(todo[1]) /\ Leave /\ verdict' = verdict
<1> DEFINE go == \E x : /\ Becomes(todo[1], x) /\ verdict' = verdict
                        /\ todo' = x \o SubSeq(todo, 2, Len(todo))
           throw == \E k : Throws(todo[1], k) /\ Throw(k)
           leave == Returns(todo[1]) /\ Leave /\ verdict' = verdict
<1> HIDE DEF go, throw, leave
<1>1. todo # << >>
  BY DEF Execute, CommandWorks, CommandGoesWrong, SetAttribute, ReadAttribute, Branch,
         Decide, RecordFailure, Control, LeaveMethod, RaiseException, At
<1>2. Head(todo) = todo[1] /\ Tail(todo) = SubSeq(todo, 2, Len(todo))
  BY <1>1, TailIs
<1>3. << >> \o SubSeq(todo, 2, Len(todo)) = SubSeq(todo, 2, Len(todo))
  BY <1>1, <1>2, TailIs
<1> SUFFICES go \/ throw \/ leave
  BY <1>1 DEF go, throw, leave
<1>4. Continue /\ todo[1].op \notin Branches \cup Bodies => go
  BY <1>2, <1>3 DEF Continue, go, Becomes
<1>5. ASSUME NEW STATE x, Instead(x), Becomes(todo[1], x)
      PROVE  go
  BY <1>2, <1>5 DEF Instead, go
<1>6. CASE CommandWorks
  BY <1>2, <1>4, <1>6 DEF CommandWorks, At, Branches, Bodies
<1>7. CASE CommandGoesWrong
  <2>1. React(todo[1].on) /\ todo[1].op \in Commands /\ (todo[1].op = "restore" => stuck')
    BY <1>2, <1>7 DEF CommandGoesWrong, At, Commands
  <2>2. CASE todo[1].on \in Any /\ Throw(todo[1].on)
    BY <2>1, <2>2 DEF throw, Throws
  <2>3. CASE todo[1].on = "return" /\ Leave /\ UNCHANGED verdict
    BY <2>1, <2>3 DEF leave, Returns
  <2>4. CASE Continue
    BY <2>1, <2>4, <1>4 DEF Commands, Branches, Bodies
  <2> QED
    BY <2>1, <2>2, <2>3, <2>4 DEF React
<1>8. CASE SetAttribute
  BY <1>2, <1>4, <1>8 DEF SetAttribute, At, Branches, Bodies
<1>9. CASE ReadAttribute
  <2>1. /\ todo[1].op = "use"
        /\ Continue \/ (todo[1].attr \notin attrs /\ Throw("error"))
    BY <1>2, <1>9 DEF ReadAttribute, At
  <2>2. todo[1].attr \notin attrs /\ Throw("error") => throw
    BY <2>1 DEF throw, Throws
  <2> QED
    BY <2>1, <2>2, <1>4 DEF Branches, Bodies
<1>10. CASE Branch
  <2>1. todo[1].op = "choose" /\ (Instead(todo[1].yes) \/ Instead(todo[1].no))
    BY <1>2, <1>10 DEF Branch, At
  <2>2. Becomes(todo[1], todo[1].yes) /\ Becomes(todo[1], todo[1].no)
    BY <2>1 DEF Becomes
  <2> QED
    BY <2>1, <2>2, <1>5
<1>11. CASE Decide
  <2> DEFINE x == IF Holds(todo[1]) THEN todo[1].yes ELSE todo[1].no
  <2>1. todo[1].op \in Branches \ {"choose"} /\ Instead(x)
    BY <1>2, <1>11 DEF Decide, At, Branches
  <2>2. Becomes(todo[1], x)
    BY <2>1 DEF Becomes
  <2> QED
    BY <2>1, <2>2, <1>5
<1>12. CASE RecordFailure
  BY <1>2, <1>4, <1>12 DEF RecordFailure, At, Branches, Bodies
<1>13. CASE Control
  <2>1. \/ todo[1].op = "call" /\ Instead(todo[1].body \o << End >>)
        \/ todo[1].op = "block" /\ Instead(todo[1].body)
        \/ todo[1].op = "finally" /\ Instead(todo[1].handler)
        \/ todo[1].op \in {"end", "catch", "undo"} /\ Instead(<< >>)
    BY <1>2, <1>13 DEF Control, At
  <2>2. todo[1].op = "call" => Becomes(todo[1], todo[1].body \o << End >>)
    BY DEF Becomes
  <2>3. todo[1].op = "block" => Becomes(todo[1], todo[1].body)
    BY DEF Becomes
  <2>4. todo[1].op = "finally" => Becomes(todo[1], todo[1].handler)
    BY DEF Becomes, Markers
  <2>5. todo[1].op \in {"end", "catch", "undo"} => Becomes(todo[1], << >>)
    BY DEF Becomes, Branches, Bodies
  <2> QED
    BY <2>1, <2>2, <2>3, <2>4, <2>5, <1>5
<1>14. CASE LeaveMethod
  BY <1>2, <1>14 DEF LeaveMethod, At, leave, Returns
<1>15. CASE RaiseException
  <2>1. todo[1].op = "raise" /\ Throw(todo[1].kind)
    BY <1>2, <1>15 DEF RaiseException, At
  <2> QED
    BY <2>1 DEF throw, Throws
<1> QED
  BY <1>6, <1>7, <1>8, <1>9, <1>10, <1>11, <1>12, <1>13, <1>14, <1>15 DEF Execute

(* An exception goes to the first handler, or ends the phase. *)
LEMMA ThrowCases ==
  ASSUME NEW S, todo \in Seq(S), todo # << >>, NEW k, Throw(k)
  PROVE  \/ /\ \A i \in 2 .. Len(todo) : ~Handles(todo[i], k)
            /\ todo' = << >> /\ verdict' # "PASS"
         \/ \E i \in 2 .. Len(todo) :
               /\ Handles(todo[i], k)
               /\ \A j \in 2 .. (i - 1) : ~Handles(todo[j], k)
               /\ todo' = todo[i].handler \o Again(todo[i], k) \o SubSeq(todo, i + 1, Len(todo))
               /\ verdict' = verdict
<1> DEFINE rest == Tail(todo)
           hs == {i \in 1 .. Len(rest) : Handles(rest[i], k)}
<1>1. /\ Len(todo) >= 1 /\ Len(todo) \in Nat /\ rest \in Seq(S) /\ Len(rest) = Len(todo) - 1
      /\ \A i \in 1 .. (Len(todo) - 1) : rest[i] = todo[i + 1]
  BY TailIs
<1>2. CASE hs = {}
  <2>1. todo' = << >> /\ verdict' = (IF verdict = "PASS" THEN VerdictOf(k) ELSE verdict)
    BY <1>2 DEF Throw
  <2>2. VerdictOf(k) # "PASS"
    BY DEF VerdictOf
  <2>3. \A i \in 2 .. Len(todo) : ~Handles(todo[i], k)
    <3>1. SUFFICES ASSUME NEW i \in 2 .. Len(todo), Handles(todo[i], k) PROVE FALSE
      OBVIOUS
    <3>2. i - 1 \in 1 .. Len(rest) /\ rest[i - 1] = todo[i]
      BY <1>1
    <3> QED
      BY <3>1, <3>2, <1>2
  <2> QED
    BY <2>1, <2>2, <2>3
<1>3. CASE hs # {}
  <2> DEFINE n == Min(hs)
             y == Again(rest[n], k)
  <2>1. n \in hs /\ \A m \in hs : n <= m
    <3>1. hs \subseteq Nat
      BY <1>1
    <3> HIDE DEF hs
    <3> QED
      BY <3>1, <1>3, MinOf
  <2>2. /\ todo' = rest[n].handler \o y \o SubSeq(rest, n + 1, Len(rest))
        /\ verdict' = verdict
    BY <1>3 DEF Throw, Again
  <2>3. n \in 1 .. Len(rest) /\ Handles(rest[n], k)
    BY <2>1
  <2> HIDE DEF n, hs
  <2>4. SubSeq(rest, n + 1, Len(rest)) = SubSeq(todo, n + 2, Len(todo))
    BY <1>1, <2>3
  <2>5. n + 1 \in 2 .. Len(todo) /\ rest[n] = todo[n + 1]
    BY <1>1, <2>3
  <2>6. \A j \in 2 .. n : ~Handles(todo[j], k)
    <3>1. SUFFICES ASSUME NEW j \in 2 .. n, Handles(todo[j], k) PROVE FALSE
      OBVIOUS
    <3>2. j - 1 \in 1 .. Len(rest) /\ rest[j - 1] = todo[j] /\ j - 1 < n
      BY <1>1, <2>3
    <3>3. j - 1 \in hs
      BY <3>1, <3>2 DEF hs
    <3> QED
      BY <3>2, <3>3, <2>1, <2>3, <1>1
  <2>7. (n + 1) + 1 = n + 2 /\ (n + 1) - 1 = n
    BY <2>3, <1>1
  <2> QED
    BY <2>2, <2>3, <2>4, <2>5, <2>6, <2>7
<1> QED
  BY <1>2, <1>3

(* return goes behind the first end, or ends the phase. *)
LEMMA LeaveCases ==
  ASSUME NEW S, todo \in Seq(S), todo # << >>, Leave
  PROVE  \/ (\A i \in 2 .. Len(todo) : todo[i].op # "end") /\ todo' = << >>
         \/ \E i \in 2 .. Len(todo) :
               /\ todo[i].op = "end" /\ \A j \in 2 .. (i - 1) : todo[j].op # "end"
               /\ todo' = SubSeq(todo, i + 1, Len(todo))
<1> DEFINE rest == Tail(todo)
           ends == {i \in 1 .. Len(rest) : rest[i].op = "end"}
<1>1. /\ Len(todo) >= 1 /\ Len(todo) \in Nat /\ rest \in Seq(S) /\ Len(rest) = Len(todo) - 1
      /\ \A i \in 1 .. (Len(todo) - 1) : rest[i] = todo[i + 1]
  BY TailIs
<1>2. CASE ends = {}
  <2>1. todo' = << >>
    BY <1>2 DEF Leave
  <2>2. \A i \in 2 .. Len(todo) : todo[i].op # "end"
    <3>1. SUFFICES ASSUME NEW i \in 2 .. Len(todo), todo[i].op = "end" PROVE FALSE
      OBVIOUS
    <3>2. i - 1 \in 1 .. Len(rest) /\ rest[i - 1] = todo[i]
      BY <1>1
    <3> QED
      BY <3>1, <3>2, <1>2
  <2> QED
    BY <2>1, <2>2
<1>3. CASE ends # {}
  <2> DEFINE n == Min(ends)
  <2>1. n \in ends /\ \A m \in ends : n <= m
    <3>1. ends \subseteq Nat
      BY <1>1
    <3> HIDE DEF ends
    <3> QED
      BY <3>1, <1>3, MinOf
  <2>2. todo' = SubSeq(rest, n + 1, Len(rest))
    BY <1>3 DEF Leave
  <2>3. n \in 1 .. Len(rest) /\ rest[n].op = "end"
    BY <2>1
  <2> HIDE DEF n, ends
  <2>4. SubSeq(rest, n + 1, Len(rest)) = SubSeq(todo, n + 2, Len(todo))
    BY <1>1, <2>3
  <2>5. n + 1 \in 2 .. Len(todo) /\ rest[n] = todo[n + 1]
    BY <1>1, <2>3
  <2>6. \A j \in 2 .. n : todo[j].op # "end"
    <3>1. SUFFICES ASSUME NEW j \in 2 .. n, todo[j].op = "end" PROVE FALSE
      OBVIOUS
    <3>2. j - 1 \in 1 .. Len(rest) /\ rest[j - 1] = todo[j] /\ j - 1 < n
      BY <1>1, <2>3
    <3>3. j - 1 \in ends
      BY <3>1, <3>2 DEF ends
    <3> QED
      BY <3>2, <3>3, <2>1, <2>3, <1>1
  <2>7. (n + 1) + 1 = n + 2 /\ (n + 1) - 1 = n
    BY <2>3, <1>1
  <2> QED
    BY <2>2, <2>3, <2>4, <2>5, <2>6, <2>7
<1> QED
  BY <1>2, <1>3

(* What a statement does to the state, by what it is. *)
LEMMA Effects ==
  ASSUME NEW S, todo \in Seq(S), Execute, todo # << >>
  PROVE  /\ UNCHANGED <<job, pos, phase, clean>>
         /\ changed' = changed
            \/ (todo[1].op = "change" /\ changed' = changed \cup {todo[1].res})
            \/ (todo[1].op = "restore" /\ changed' = changed \ {todo[1].res})
         /\ attrs' = attrs
            \/ (todo[1].op = "assign" /\ attrs' = attrs \cup {todo[1].attr})
            \/ (todo[1].op = "clear" /\ attrs' = attrs \ {todo[1].attr})
         /\ (noted' = noted /\ (failed' => failed))
            \/ (Notes(todo[1]) /\ noted')
            \/ (Drops(todo[1]) /\ noted' = noted)
            \/ (todo[1].op = "forget" /\ ~noted' /\ (failed' => failed))
         /\ stuck => stuck'
<1>1. Head(todo) = todo[1]
  BY TailIs
<1>2. CASE CommandWorks
  <2>1. /\ todo[1].op \in Commands
        /\ UNCHANGED <<job, pos, phase, clean, attrs, noted, failed, stuck>>
        /\ changed' = CASE todo[1].op = "change"  -> changed \cup {todo[1].res}
                        [] todo[1].op = "restore" -> changed \ {todo[1].res}
                        [] OTHER -> changed
    BY <1>1, <1>2 DEF CommandWorks, At, TestUnchanged, Commands
  <2> QED
    BY <2>1 DEF Commands
<1>3. CASE CommandGoesWrong
  <2>1. /\ todo[1].op \in Commands /\ React(todo[1].on)
        /\ stuck' = (stuck \/ todo[1].op = "restore")
        /\ UNCHANGED <<job, pos, phase, clean, attrs, changed>>
    BY <1>1, <1>3 DEF CommandGoesWrong, At, TestUnchanged, Commands
  <2>2. \/ noted' = noted /\ failed' = failed
        \/ Notes(todo[1]) /\ noted' = TRUE /\ failed' = TRUE
        \/ Drops(todo[1]) /\ noted' = noted /\ failed' = TRUE
    BY <2>1 DEF React, Notes, Drops
  <2>3. stuck => stuck'
    BY <2>1, Zenon
  <2> QED
    BY <2>1, <2>2, <2>3
<1>4. CASE SetAttribute
  BY <1>1, <1>4 DEF SetAttribute, At, TestUnchanged
<1>5. CASE ReadAttribute
  BY <1>5 DEF ReadAttribute, TestUnchanged
<1>6. CASE Branch \/ Decide \/ Control
  BY <1>6 DEF Branch, Decide, Control, TestUnchanged
<1>7. CASE RecordFailure
  <2>1. /\ todo[1].op \in {"note", "forget"}
        /\ UNCHANGED <<job, pos, phase, clean, attrs, changed, stuck>>
        /\ noted' = (todo[1].op = "note")
        /\ failed' = (failed \/ todo[1].op = "note")
    BY <1>1, <1>7 DEF RecordFailure, At, TestUnchanged
  <2>2. CASE todo[1].op = "note"
    BY <2>1, <2>2 DEF Notes
  <2>3. CASE todo[1].op = "forget"
    BY <2>1, <2>3
  <2> QED
    BY <2>1, <2>2, <2>3
<1>8. CASE LeaveMethod \/ RaiseException
  BY <1>8 DEF LeaveMethod, RaiseException, TestUnchanged
<1> QED
  BY <1>2, <1>3, <1>4, <1>5, <1>6, <1>7, <1>8 DEF Execute

(* What takes the place of a statement is nothing, or one of its sequences. *)
LEMMA BecomesNested ==
  ASSUME NEW STATE s, NEW x, Becomes(s, x)
  PROVE  \/ x = << >> /\ s.op \notin Branches \cup Bodies
         \/ x \in Nested(s) /\ s.op # "call"
         \/ \E q \in Nested(s) : s.op = "call" /\ x = q \o << End >>
BY NestedIs DEF Becomes, Branches, Bodies, Markers

(* While the attributes c.set are set, those of c.unset are not and the    *)
(* resources c.held are changed, it is one of the statement's Ways.        *)
LEMMA BecomesWays ==
  ASSUME NEW STATE s, NEW x, Becomes(s, x), NEW c,
         c.set \subseteq attrs, c.unset \cap attrs = {}, c.held \subseteq changed
  PROVE  \/ x = << >> /\ s.op \notin Branches \cup Bodies
         \/ x \in Ways(s, c) /\ s.op # "call"
         \/ \E q \in Ways(s, c) : s.op = "call" /\ x = q \o << End >>
<1>1. /\ s.op = "ifSet" /\ s.attr \in attrs => Holds(s)
      /\ s.op = "ifSet" /\ s.attr \notin attrs => ~Holds(s)
      /\ s.op = "ifChanged" /\ s.res \in changed => Holds(s)
  BY DEF Holds
<1>2. \/ Ways(s, c) = Nested(s)
      \/ s.op = "ifSet" /\ s.attr \in c.set /\ Ways(s, c) = {s.yes}
      \/ s.op = "ifSet" /\ s.attr \in c.unset /\ Ways(s, c) = {s.no}
      \/ s.op = "ifChanged" /\ s.res \in c.held /\ Ways(s, c) = {s.yes}
  BY DEF Ways
<1>3. CASE Ways(s, c) = Nested(s)
  BY <1>3, BecomesNested
<1>4. CASE s.op \in {"ifSet", "ifChanged"}
  <2>1. x = IF Holds(s) THEN s.yes ELSE s.no
    BY <1>4 DEF Becomes, Branches, Bodies, Markers
  <2> QED
    BY <1>1, <1>2, <1>3, <1>4, <2>1
<1> QED
  BY <1>2, <1>3, <1>4

(* While b holds, it is one of the statement's WaysWhile. *)
LEMMA BecomesWhile ==
  ASSUME NEW STATE s, NEW x, Becomes(s, x), NEW b, Holding(b)
  PROVE  \/ x = << >> /\ s.op \notin Branches \cup Bodies
         \/ x \in WaysWhile(s, b) /\ s.op # "call"
         \/ \E q \in WaysWhile(s, b) : s.op = "call" /\ x = q \o << End >>
<1>1. /\ s.op = "ifSet" /\ s.attr \notin attrs => ~Holds(s)
      /\ s.op = "ifChanged" /\ s.res \in changed => Holds(s)
      /\ s.op = "ifNoted" /\ noted => Holds(s)
  BY DEF Holds
<1>2. \/ WaysWhile(s, b) = Nested(s)
      \/ s.op = "ifSet" /\ b.is = "unset" /\ s.attr = b.of /\ WaysWhile(s, b) = {s.no}
      \/ s.op = "ifChanged" /\ b.is = "changed" /\ s.res = b.of /\ WaysWhile(s, b) = {s.yes}
      \/ s.op = "ifNoted" /\ b.is = "noted" /\ WaysWhile(s, b) = {s.yes}
  BY DEF WaysWhile
<1>3. CASE WaysWhile(s, b) = Nested(s)
  BY <1>3, BecomesNested
<1>4. CASE s.op \in {"ifSet", "ifChanged", "ifNoted"}
  <2>1. x = IF Holds(s) THEN s.yes ELSE s.no
    BY <1>4 DEF Becomes, Branches, Bodies, Markers
  <2> QED
    BY <1>1, <1>2, <1>3, <1>4, <2>1 DEF Holding
<1> QED
  BY <1>2, <1>3, <1>4

(* A branch, a call or a block changes nothing but what is to be executed. *)
LEMMA BranchStep ==
  ASSUME NEW S, todo \in Seq(S), Execute, todo # << >>, todo[1].op \in Branches \cup Bodies
  PROVE  /\ UNCHANGED <<job, pos, phase, changed, attrs, noted, failed, verdict, clean, stuck>>
         /\ \E x : Becomes(todo[1], x) /\ todo' = x \o SubSeq(todo, 2, Len(todo))
<1>1. Head(todo) = todo[1]
  BY TailIs
<1>2. Branch \/ Decide \/ (Control /\ todo[1].op \in Bodies)
  BY <1>1 DEF Execute, CommandWorks, CommandGoesWrong, SetAttribute, ReadAttribute, Branch,
         Decide, RecordFailure, Control, LeaveMethod, RaiseException, At, Branches, Bodies
<1>3. UNCHANGED <<job, pos, phase, changed, attrs, noted, failed, verdict, clean, stuck>>
  BY <1>2 DEF Branch, Decide, Control, TestUnchanged, Instead
<1>4. ~Returns(todo[1]) /\ \A k : ~Throws(todo[1], k)
  BY DEF Returns, Throws, Commands, Branches, Bodies
<1> QED
  BY <1>3, <1>4, ExecuteCases

(* Inside a closed set of statements execution stays inside it. *)
LEMMA ClosedStep ==
  ASSUME NEW S, Closed(S), todo \in Seq(S), Execute
  PROVE  todo' \in Seq(S)
<1>1. todo # << >> /\ Len(todo) \in Nat /\ Len(todo) >= 1 /\ todo[1] \in S
  BY ExecuteCases, TailIs
<1>2. \A m \in 1 .. (Len(todo) + 1) : SubSeq(todo, m, Len(todo)) \in Seq(S)
  BY <1>1
<1>3. << End >> \in Seq(S)
  BY DEF Closed
<1>4. CASE \E x : Becomes(todo[1], x) /\ todo' = x \o SubSeq(todo, 2, Len(todo))
  <2>1. PICK x : Becomes(todo[1], x) /\ todo' = x \o SubSeq(todo, 2, Len(todo))
    BY <1>4
  <2>2. \A q \in Nested(todo[1]) : q \in Seq(S)
    BY <1>1 DEF Closed
  <2>3. x \in Seq(S)
    <3>1. \A q \in Seq(S) : q \o << End >> \in Seq(S)
      BY <1>3
    <3>2. \/ x = << >> \/ x \in Nested(todo[1])
          \/ \E q \in Nested(todo[1]) : x = q \o << End >>
      BY <2>1, BecomesNested
    <3>3. << >> \in Seq(S)
      OBVIOUS
    <3> QED
      BY <2>2, <3>1, <3>2, <3>3, Zenon
  <2> QED
    BY <1>1, <1>2, <2>1, <2>3
<1>5. CASE \E k : Throws(todo[1], k) /\ Throw(k)
  <2>1. PICK k : Throws(todo[1], k) /\ Throw(k)
    BY <1>5
  <2>2. k \in Any
    BY <2>1, <1>1 DEF Throws, Closed, Any
  <2>3. CASE todo' = << >>
    BY <2>3
  <2>4. CASE \E i \in 2 .. Len(todo) :
               /\ Handles(todo[i], k)
               /\ todo' = todo[i].handler \o Again(todo[i], k) \o SubSeq(todo, i + 1, Len(todo))
    <3>1. PICK i \in 2 .. Len(todo) :
               /\ Handles(todo[i], k)
               /\ todo' = todo[i].handler \o Again(todo[i], k) \o SubSeq(todo, i + 1, Len(todo))
      BY <2>4
    <3>2. todo[i] \in S /\ todo[i].op \in Markers
      BY <3>1, <1>1 DEF Handles, Markers
    <3>3. todo[i].handler \in Seq(S)
      BY <3>2, NestedIs DEF Closed
    <3>4. Again(todo[i], k) \in Seq(S)
      BY <3>1, <2>2 DEF Closed, Again
    <3>5. SubSeq(todo, i + 1, Len(todo)) \in Seq(S)
      BY <1>1, <1>2
    <3> QED
      BY <3>1, <3>3, <3>4, <3>5
  <2> QED
    BY <2>1, <2>3, <2>4, <1>1, ThrowCases
<1>6. CASE Leave
  <2>1. CASE todo' = << >>
    BY <2>1
  <2>2. CASE \E i \in 2 .. Len(todo) : todo' = SubSeq(todo, i + 1, Len(todo))
    BY <2>2, <1>1, <1>2
  <2> QED
    BY <2>1, <2>2, <1>1, <1>6, LeaveCases
<1> QED
  BY <1>4, <1>5, <1>6, ExecuteCases

--------------------------------------------------------------------------------
(***************************************************************************)
(* Routes.                                                                 *)
(***************************************************************************)

(* What follows a sequence that reaches a goal may be anything of c.after. *)
LEMMA Appended ==
  ASSUME NEW S, NEW q \in Seq(S), NEW T, NEW z \in Seq(T), NEW c, Reaches(q, c),
         \A i \in 1 .. Len(z) : z[i] \in c.after
  PROVE  Reaches(q \o z, c)
<1>1. PICK n \in 1 .. Len(q) : ReachesAt(q, n, c)
  BY DEF Reaches
<1> DEFINE y == q \o z
<1>2. /\ Len(y) = Len(q) + Len(z) /\ Len(q) \in Nat /\ Len(z) \in Nat
      /\ \A i \in 1 .. Len(q) : y[i] = q[i]
      /\ \A i \in (Len(q) + 1) .. Len(y) : y[i] = z[i - Len(q)]
  OBVIOUS
<1> HIDE DEF y
<1>3. ASSUME NEW i \in 1 .. (n - 1)
      PROVE  /\ y[i] \in c.before
             /\ y[i] \in c.leavers => EndsBefore(y, i, n)
             /\ y[i] \in c.throwers => CaughtBefore(y, i, n)
  <2>1. y[i] = q[i] /\ \A k \in (i + 1) .. (n - 1) : y[k] = q[k]
    BY <1>2
  <2> QED
    BY <1>1, <2>1 DEF ReachesAt, EndsBefore, CaughtBefore
<1>4. y[n] \in c.goals
  BY <1>1, <1>2 DEF ReachesAt
<1>5. ASSUME NEW i \in (n + 1) .. Len(y)
      PROVE  y[i] \in c.after
  <2>1. CASE i <= Len(q)
    BY <1>1, <1>2, <2>1 DEF ReachesAt
  <2>2. CASE i > Len(q)
    <3>1. i - Len(q) \in 1 .. Len(z) /\ y[i] = z[i - Len(q)]
      BY <1>2, <2>2
    <3> QED
      BY <3>1
  <2> QED
    BY <2>1, <2>2, <1>2
<1>6. ReachesAt(y, n, c)
  BY <1>3, <1>4, <1>5 DEF ReachesAt
<1>7. n \in 1 .. Len(y)
  BY <1>2
<1> QED
  BY <1>6, <1>7 DEF Reaches, y

(* The statements before the goal up to m are replaced by x: the goal is   *)
(* still reached when what may return or raise in x does it inside x or    *)
(* inside something that ends behind m.                                    *)
LEMMA Rejoined ==
  ASSUME NEW S, NEW q \in Seq(S), NEW c, NEW n \in 1 .. Len(q), ReachesAt(q, n, c),
         NEW m \in 1 .. (n - 1), NEW x \in Seq(c.before),
         \A i \in 1 .. Len(x) : x[i] \in c.leavers
             => EndsBefore(x, i, Len(x) + 1) \/ EndsBefore(q, m, n),
         \A i \in 1 .. Len(x) : x[i] \in c.throwers
             => CaughtBefore(x, i, Len(x) + 1) \/ CaughtBefore(q, m, n)
  PROVE  Reaches(x \o SubSeq(q, m + 1, Len(q)), c)
<1> DEFINE y == x \o SubSeq(q, m + 1, Len(q))
           w == n - m + Len(x)
<1>1. /\ Len(q) \in Nat /\ Len(x) \in Nat /\ Len(y) = Len(x) + Len(q) - m
      /\ n \in Int /\ m \in Int /\ m < n /\ n <= Len(q)
      /\ \A i \in 1 .. Len(x) : y[i] = x[i]
      /\ \A i \in (Len(x) + 1) .. Len(y) : y[i] = q[i - Len(x) + m]
  <2>1. m + 1 \in 1 .. (Len(q) + 1) /\ Len(q) \in Nat /\ Len(x) \in Nat
    OBVIOUS
  <2>2. /\ Len(y) = Len(x) + Len(q) - (m + 1) + 1
        /\ \A i \in 1 .. Len(x) : y[i] = x[i]
        /\ \A i \in (Len(x) + 1) .. Len(y) : y[i] = q[i - Len(x) + (m + 1) - 1]
    BY <2>1, Spliced
  <2> HIDE DEF y
  <2> QED
    BY <2>1, <2>2
<1> HIDE DEF y
<1>2. ASSUME NEW k \in (m + 1) .. Len(q)
      PROVE  k + Len(x) - m \in (Len(x) + 1) .. Len(y) /\ y[k + Len(x) - m] = q[k]
  <2>1. k + Len(x) - m \in (Len(x) + 1) .. Len(y) /\ (k + Len(x) - m) - Len(x) + m = k
    BY <1>1
  <2> QED
    BY <2>1, <1>1
<1>3. EndsBefore(q, m, n) => \A i \in 1 .. Len(x) : EndsBefore(y, i, w)
  <2>1. SUFFICES ASSUME EndsBefore(q, m, n), NEW i \in 1 .. Len(x) PROVE EndsBefore(y, i, w)
    OBVIOUS
  <2>2. PICK k \in (m + 1) .. (n - 1) : q[k].op = "end"
    BY <2>1 DEF EndsBefore
  <2>3. y[k + Len(x) - m] = q[k] /\ k + Len(x) - m \in (i + 1) .. (w - 1)
    BY <1>1, <1>2
  <2> QED
    BY <2>2, <2>3 DEF EndsBefore
<1>4. CaughtBefore(q, m, n) => \A i \in 1 .. Len(x) : CaughtBefore(y, i, w)
  <2>1. SUFFICES ASSUME CaughtBefore(q, m, n), NEW i \in 1 .. Len(x) PROVE CaughtBefore(y, i, w)
    OBVIOUS
  <2>2. PICK k \in (m + 1) .. (n - 1) : CatchesAll(q[k])
    BY <2>1 DEF CaughtBefore
  <2>3. y[k + Len(x) - m] = q[k] /\ k + Len(x) - m \in (i + 1) .. (w - 1)
    BY <1>1, <1>2
  <2> QED
    BY <2>2, <2>3 DEF CaughtBefore
<1>5. ASSUME NEW i \in 1 .. Len(x)
      PROVE  /\ EndsBefore(x, i, Len(x) + 1) => EndsBefore(y, i, w)
             /\ CaughtBefore(x, i, Len(x) + 1) => CaughtBefore(y, i, w)
  <2>1. \A k \in (i + 1) .. Len(x) : k \in (i + 1) .. (w - 1) /\ y[k] = x[k]
    BY <1>1
  <2>2. (Len(x) + 1) - 1 = Len(x)
    BY <1>1
  <2> HIDE DEF w
  <2> QED
    BY <2>1, <2>2 DEF EndsBefore, CaughtBefore
<1>6. ASSUME NEW j \in (m + 1) .. (n - 1)
      PROVE  /\ q[j] \in c.before
             /\ q[j] \in c.leavers => EndsBefore(y, j + Len(x) - m, w)
             /\ q[j] \in c.throwers => CaughtBefore(y, j + Len(x) - m, w)
  <2>1. \A k \in (j + 1) .. (n - 1) :
           /\ k + Len(x) - m \in ((j + Len(x) - m) + 1) .. (w - 1)
           /\ y[k + Len(x) - m] = q[k]
    <3>1. SUFFICES ASSUME NEW k \in (j + 1) .. (n - 1)
                   PROVE  /\ k + Len(x) - m \in ((j + Len(x) - m) + 1) .. (w - 1)
                          /\ y[k + Len(x) - m] = q[k]
      OBVIOUS
    <3>2. k \in (m + 1) .. Len(q) /\ k + Len(x) - m \in ((j + Len(x) - m) + 1) .. (w - 1)
      BY <1>1
    <3> QED
      BY <3>2, <1>2
  <2>2. /\ q[j] \in c.before
        /\ q[j] \in c.leavers => EndsBefore(q, j, n)
        /\ q[j] \in c.throwers => CaughtBefore(q, j, n)
    BY <1>1 DEF ReachesAt
  <2> HIDE DEF w
  <2> QED
    BY <2>1, <2>2 DEF EndsBefore, CaughtBefore
<1>7. ASSUME NEW i \in 1 .. (w - 1)
      PROVE  /\ y[i] \in c.before
             /\ y[i] \in c.leavers => EndsBefore(y, i, w)
             /\ y[i] \in c.throwers => CaughtBefore(y, i, w)
  <2>1. CASE i <= Len(x)
    <3>1. i \in 1 .. Len(x) /\ y[i] = x[i] /\ x[i] \in c.before
      BY <1>1, <2>1
    <3> QED
      BY <3>1, <1>3, <1>4, <1>5
  <2>2. CASE i > Len(x)
    <3> DEFINE j == i - Len(x) + m
    <3>1. j \in (m + 1) .. (n - 1) /\ j + Len(x) - m = i
      BY <1>1, <2>2
    <3>2. i \in (Len(x) + 1) .. Len(y)
      BY <1>1, <2>2
    <3>3. y[i] = q[j]
      BY <1>1, <3>2
    <3> HIDE DEF j, w
    <3> QED
      BY <3>1, <3>3, <1>6
  <2> QED
    BY <2>1, <2>2, <1>1
<1>8. y[w] \in c.goals
  <2>1. n \in (m + 1) .. Len(q) /\ n + Len(x) - m = w /\ q[n] \in c.goals
    BY <1>1 DEF ReachesAt
  <2> QED
    BY <2>1, <1>2
<1>9. ASSUME NEW i \in (w + 1) .. Len(y)
      PROVE  y[i] \in c.after
  <2>1. i \in (Len(x) + 1) .. Len(y) /\ i - Len(x) + m \in (n + 1) .. Len(q)
    BY <1>1
  <2> QED
    BY <2>1, <1>1 DEF ReachesAt
<1>10. w \in 1 .. Len(y)
  BY <1>1
<1> HIDE DEF w
<1>11. ReachesAt(y, w, c)
  BY <1>7, <1>8, <1>9 DEF ReachesAt
<1> QED
  BY <1>10, <1>11 DEF Reaches, y

(* A call in front of a route is replaced by its body, y, and its end, e. *)
LEMMA RouteCalls ==
  ASSUME NEW S, NEW q \in Seq(S), NEW c, Flow(c), NEW n \in 2 .. Len(q), ReachesAt(q, n, c),
         q[1].op = "call", NEW y \in Ways(q[1], c),
         NEW e \in Seq(c.before), Len(e) = 1, e[1] = End, NEW x, x = y \o e
  PROVE  Reaches(x \o SubSeq(q, 2, Len(q)), c)
<1>1. /\ n \in 1 .. Len(q) /\ 1 \in 1 .. (n - 1) /\ 1 + 1 = 2
  OBVIOUS
<1>2. /\ q[1] \in c.before
      /\ q[1] \in c.leavers => EndsBefore(q, 1, n)
      /\ q[1] \in c.throwers => CaughtBefore(q, 1, n)
  BY <1>1 DEF ReachesAt
<1>3. /\ y \in Seq(c.before)
      /\ q[1] \notin c.throwers => \A i \in 1 .. Len(y) :
            y[i] \in c.throwers => CaughtBefore(y, i, Len(y) + 1)
  BY <1>2 DEF Flow
<1>4. End \notin c.leavers /\ End \notin c.throwers /\ End.op = "end"
  BY DEF Flow, End
<1>5. /\ x \in Seq(c.before) /\ Len(y) \in Nat /\ Len(x) = Len(y) + 1 /\ x[Len(y) + 1] = End
      /\ \A i \in 1 .. Len(y) : x[i] = y[i]
  <2>1. y \in Seq(c.before)
    BY <1>3
  <2>2. JoinOf(x, y, e, c.before)
    BY <2>1, Joined
  <2> QED
    BY <2>2 DEF JoinOf
<1>6. ASSUME NEW i \in 1 .. Len(x), x[i] \in c.leavers
      PROVE  EndsBefore(x, i, Len(x) + 1)
  <2>1. Len(y) + 1 \in (i + 1) .. ((Len(x) + 1) - 1)
    BY <1>4, <1>5, <1>6
  <2> QED
    BY <2>1, <1>4, <1>5 DEF EndsBefore
<1>7. ASSUME NEW i \in 1 .. Len(x), x[i] \in c.throwers, q[1] \notin c.throwers
      PROVE  CaughtBefore(x, i, Len(x) + 1)
  <2>1. i \in 1 .. Len(y) /\ x[i] = y[i]
    BY <1>4, <1>5, <1>7
  <2>2. PICK k \in (i + 1) .. ((Len(y) + 1) - 1) : CatchesAll(y[k])
    BY <2>1, <1>3, <1>7 DEF CaughtBefore
  <2>3. k \in (i + 1) .. ((Len(x) + 1) - 1) /\ x[k] = y[k]
    BY <1>5, <2>1
  <2> QED
    BY <2>2, <2>3 DEF CaughtBefore
<1> QED
  BY <1>1, <1>2, <1>5, <1>6, <1>7, Rejoined

(* The head of a route is replaced by one of its Ways. *)
LEMMA RouteGoes ==
  ASSUME NEW S, NEW q \in Seq(S), NEW c, Flow(c), NEW n \in 2 .. Len(q), ReachesAt(q, n, c),
         NEW x, \/ x = << >>
                \/ x \in Ways(q[1], c) /\ q[1].op # "call"
                \/ \E y \in Ways(q[1], c) : q[1].op = "call" /\ x = y \o << End >>
  PROVE  Reaches(x \o SubSeq(q, 2, Len(q)), c)
<1>1. /\ n \in 1 .. Len(q) /\ 1 \in 1 .. (n - 1) /\ 1 + 1 = 2
  OBVIOUS
<1>2. /\ q[1] \in c.before
      /\ q[1] \in c.leavers => EndsBefore(q, 1, n)
      /\ q[1] \in c.throwers => CaughtBefore(q, 1, n)
  BY <1>1 DEF ReachesAt
<1>3. CASE x = << >>
  <2>1. x \in Seq(c.before) /\ 1 .. Len(x) = {}
    BY <1>3
  <2> QED
    BY <1>1, <2>1, Rejoined
<1>4. CASE x \in Ways(q[1], c) /\ q[1].op # "call"
  <2>1. /\ x \in Seq(c.before)
        /\ q[1] \notin c.leavers => \A i \in 1 .. Len(x) : x[i] \notin c.leavers
        /\ q[1] \notin c.throwers => \A i \in 1 .. Len(x) :
              x[i] \in c.throwers => CaughtBefore(x, i, Len(x) + 1)
    BY <1>2, <1>4 DEF Flow
  <2> QED
    BY <1>1, <1>2, <2>1, Rejoined
<1>5. CASE \E y \in Ways(q[1], c) : q[1].op = "call" /\ x = y \o << End >>
  <2>1. PICK y \in Ways(q[1], c) : q[1].op = "call" /\ x = y \o << End >>
    BY <1>5
  <2> DEFINE e == << End >>
  <2>2. e \in Seq(c.before) /\ Len(e) = 1 /\ e[1] = End
    BY Single DEF Flow
  <2>3. x = y \o e
    BY <2>1
  <2> HIDE DEF e
  <2> QED
    BY <2>1, <2>2, <2>3, RouteCalls
<1> QED
  BY <1>3, <1>4, <1>5

(* The head of a route returns: the end of its method is before the goal. *)
LEMMA RouteLeaves ==
  ASSUME NEW S, NEW q \in Seq(S), NEW c, Flow(c), NEW n \in 2 .. Len(q), ReachesAt(q, n, c),
         Returns(q[1])
  PROVE  /\ EndsBefore(q, 1, n)
         /\ \A i \in 2 .. Len(q) :
               /\ q[i].op = "end" /\ (\A j \in 2 .. (i - 1) : q[j].op # "end")
               => Reaches(SubSeq(q, i + 1, Len(q)), c)
<1>1. EndsBefore(q, 1, n)
  BY DEF ReachesAt, Flow
<1>2. PICK k \in 2 .. (n - 1) : q[k].op = "end"
  BY <1>1 DEF EndsBefore
<1>3. ASSUME NEW i \in 2 .. Len(q), q[i].op = "end", \A j \in 2 .. (i - 1) : q[j].op # "end"
      PROVE  Reaches(SubSeq(q, i + 1, Len(q)), c)
  <2>1. i <= k
    BY <1>2, <1>3
  <2>2. n \in 1 .. Len(q) /\ i \in 1 .. (n - 1)
    BY <2>1
  <2> DEFINE x == << >>
  <2>3. x \in Seq(c.before) /\ 1 .. Len(x) = {}
    OBVIOUS
  <2>4. x \o SubSeq(q, i + 1, Len(q)) = SubSeq(q, i + 1, Len(q))
    BY <2>2
  <2> HIDE DEF x
  <2>5. Reaches(x \o SubSeq(q, i + 1, Len(q)), c)
    BY <2>2, <2>3, Rejoined
  <2> QED
    BY <2>4, <2>5
<1> QED
  BY <1>1, <1>3

(* A handler h before the goal takes over, and may raise again. *)
LEMMA RouteHandled ==
  ASSUME NEW S, NEW q \in Seq(S), NEW c, Flow(c), NEW n \in 2 .. Len(q), ReachesAt(q, n, c),
         NEW i \in 2 .. (n - 1), q[i].op \in Markers, NEW k \in Any, NEW h, h = q[i].handler,
         NEW y \in Seq(c.before), Len(y) \in {0, 1}, Len(y) = 1 => y[1] = Raise(k),
         Len(y) = 1 /\ Raise(k) \in c.throwers => CaughtBefore(q, i, n), NEW x, x = h \o y
  PROVE  Reaches(x \o SubSeq(q, i + 1, Len(q)), c)
<1>1. n \in 1 .. Len(q) /\ i \in 1 .. (n - 1)
  OBVIOUS
<1>2. /\ q[i] \in c.before
      /\ q[i] \in c.leavers => EndsBefore(q, i, n)
      /\ q[i] \in c.throwers => CaughtBefore(q, i, n)
  BY <1>1 DEF ReachesAt
<1>3. Ways(q[i], c) = {h}
  BY NestedIs DEF Ways, Markers
<1>4. q[i].op # "call"
  BY DEF Markers
<1>5. /\ h \in Seq(c.before)
      /\ q[i] \notin c.leavers => \A j \in 1 .. Len(h) : h[j] \notin c.leavers
      /\ q[i] \notin c.throwers => \A j \in 1 .. Len(h) :
            h[j] \in c.throwers => CaughtBefore(h, j, Len(h) + 1)
  BY <1>2, <1>3, <1>4 DEF Flow
<1>6. Raise(k) \in c.before /\ Raise(k) \notin c.leavers
  BY DEF Flow
<1>8. /\ x \in Seq(c.before) /\ Len(h) \in Nat /\ Len(x) = Len(h) + Len(y)
      /\ \A j \in 1 .. Len(h) : x[j] = h[j]
      /\ Len(y) = 1 => x[Len(h) + 1] = y[1]
  <2>1. h \in Seq(c.before)
    BY <1>5
  <2>2. JoinOf(x, h, y, c.before)
    BY <2>1, Joined
  <2> QED
    BY <2>2 DEF JoinOf
<1>9. ASSUME NEW j \in 1 .. Len(x), x[j] \in c.leavers
      PROVE  EndsBefore(q, i, n)
  <2>1. j \in 1 .. Len(h)
    BY <1>6, <1>8, <1>9
  <2> QED
    BY <1>2, <1>5, <1>8, <1>9, <2>1
<1>10. ASSUME NEW j \in 1 .. Len(x), x[j] \in c.throwers
       PROVE  CaughtBefore(x, j, Len(x) + 1) \/ CaughtBefore(q, i, n)
  <2>1. CASE j \in 1 .. Len(h) /\ q[i] \notin c.throwers
    <3>1. PICK l \in (j + 1) .. ((Len(h) + 1) - 1) : CatchesAll(h[l])
      BY <2>1, <1>5, <1>8, <1>10 DEF CaughtBefore
    <3>2. l \in (j + 1) .. ((Len(x) + 1) - 1) /\ x[l] = h[l]
      BY <1>8, <2>1
    <3> QED
      BY <3>1, <3>2 DEF CaughtBefore
  <2>2. CASE j \notin 1 .. Len(h)
    <3>1. Len(y) = 1 /\ x[j] = Raise(k)
      BY <1>8, <2>2
    <3> QED
      BY <3>1, <1>10
  <2> QED
    BY <2>1, <2>2, <1>2
<1> QED
  BY <1>1, <1>8, <1>9, <1>10, Rejoined

(* A route to a goal goes on through the handler that takes an exception, *)
(* when it stands before the goal.                                         *)
LEMMA RouteCaught ==
  ASSUME NEW S, NEW q \in Seq(S), NEW c, Flow(c), NEW n \in 2 .. Len(q), ReachesAt(q, n, c),
         NEW i \in 2 .. (n - 1), q[i].op \in Markers, NEW k \in Any,
         q[i].op # "catch" /\ Raise(k) \in c.throwers => CaughtBefore(q, i, n)
  PROVE  Reaches(q[i].handler \o Again(q[i], k) \o SubSeq(q, i + 1, Len(q)), c)
<1> DEFINE y == Again(q[i], k)
<1>1. Raise(k) \in c.before
  BY DEF Flow
<1>2. CASE q[i].op = "catch"
  <2>1. y \in Seq(c.before) /\ Len(y) \in {0, 1} /\ Len(y) # 1
    BY <1>2 DEF Again
  <2> QED
    BY <2>1, RouteHandled
<1>3. CASE q[i].op # "catch"
  <2>1. y \in Seq(c.before) /\ Len(y) = 1 /\ y[1] = Raise(k)
    BY <1>1, <1>3, Single DEF Again
  <2> QED
    BY <2>1, <1>3, RouteHandled
<1> QED
  BY <1>2, <1>3

(* An assignment is made. *)
LEMMA AssignStep ==
  ASSUME NEW S, todo \in Seq(S), Execute, todo # << >>, todo[1].op = "assign"
  PROVE  attrs' = attrs \cup {todo[1].attr} /\ todo' = SubSeq(todo, 2, Len(todo))
<1>1. Head(todo) = todo[1] /\ Tail(todo) = SubSeq(todo, 2, Len(todo))
  BY TailIs
<1>2. SetAttribute
  BY <1>1 DEF Execute, CommandWorks, CommandGoesWrong, ReadAttribute, Branch,
         Decide, RecordFailure, Control, LeaveMethod, RaiseException, At
<1> QED
  BY <1>1, <1>2 DEF SetAttribute, Continue

(* A command that puts something back works or goes wrong. *)
LEMMA RestoreStep ==
  ASSUME NEW S, todo \in Seq(S), Execute, todo # << >>, todo[1].op = "restore"
  PROVE  \/ changed' = changed \ {todo[1].res} /\ todo' = SubSeq(todo, 2, Len(todo))
         \/ /\ stuck' /\ (todo[1].on \in Any => Throw(todo[1].on))
            /\ todo[1].on = "note" => noted'
<1>1. Head(todo) = todo[1] /\ Tail(todo) = SubSeq(todo, 2, Len(todo))
  BY TailIs
<1>2. CommandWorks \/ CommandGoesWrong
  BY <1>1 DEF Execute, SetAttribute, ReadAttribute, Branch,
         Decide, RecordFailure, Control, LeaveMethod, RaiseException, At
<1>3. CASE CommandWorks
  BY <1>1, <1>3 DEF CommandWorks, Continue
<1>4. CASE CommandGoesWrong
  <2>1. React(todo[1].on) /\ stuck'
    BY <1>1, <1>4 DEF CommandGoesWrong
  <2>2. todo[1].on \in Any => Throw(todo[1].on)
    BY <2>1 DEF React, Any
  <2>3. todo[1].on = "note" => noted'
    BY <2>1 DEF React, Any
  <2> QED
    BY <2>1, <2>2, <2>3
<1> QED
  BY <1>2, <1>3, <1>4

--------------------------------------------------------------------------------
(***************************************************************************)
(* Barriers.                                                               *)
(***************************************************************************)

(* Statements that do not spoil it keep b from holding. *)
LEMMA Unspoiled ==
  ASSUME NEW S, todo \in Seq(S), Execute, todo # << >>, NEW b, ~Spoils(todo[1], b), ~Holding(b)
  PROVE  ~Holding(b)'
<1>1. b.is = "changed" /\ b.of \notin changed => b.of \notin changed'
  BY Effects DEF Spoils
<1>2. b.is = "unset" /\ b.of \in attrs => b.of \in attrs'
  BY Effects DEF Spoils
<1>3. b.is = "noted" /\ ~noted => ~noted'
  BY Effects DEF Spoils, Notes
<1> QED
  BY <1>1, <1>2, <1>3 DEF Holding

(* Among statements that never make b hold, b goes on not to hold. *)
LEMMA QuietStep ==
  ASSUME NEW b, NEW c, Closed(c.quiet), \A s \in c.quiet : ~Spoils(s, b),
         ~Holding(b), todo \in Seq(c.quiet), Execute
  PROVE  ~Holding(b)' /\ todo' \in Seq(c.quiet)
<1>1. todo # << >> /\ todo[1] \in c.quiet
  BY ExecuteCases, TailIs
<1> QED
  BY <1>1, Unspoiled, ClosedStep

\* Nothing that c depends on is on record.
Unnoted(c) == c.noting => ~noted

(* What catches an exception behind the goal reaches a goal again. *)
LEMMA CaughtBehind ==
  ASSUME NEW S, Closed(S), todo \in Seq(S), NEW b, NEW c, Guards(c, b), NEW k \in Any,
         NEW n \in 1 .. Len(todo), ReachesAt(todo, n, c), NEW i \in (n + 1) .. Len(todo),
         todo[i].op \in Markers
  PROVE  Reaches(todo[i].handler \o Again(todo[i], k) \o SubSeq(todo, i + 1, Len(todo)), c)
<1> DEFINE h == todo[i].handler
           y == Again(todo[i], k)
           rest == SubSeq(todo, i + 1, Len(todo))
<1>1. /\ Len(todo) \in Nat /\ i \in 1 .. Len(todo) /\ todo[i] \in S /\ todo[i] \in c.after
      /\ \A j \in (i + 1) .. Len(todo) : todo[j] \in c.after
  BY DEF ReachesAt
<1>2. Reaches(h \o y, c)
  BY <1>1 DEF Guards
<1>3. h \in Seq(S)
  BY <1>1, NestedIs DEF Closed
<1>4. y \in Seq(S)
  BY Single DEF Closed, Again
<1>5. rest \in Seq(S) /\ \A j \in 1 .. Len(rest) : rest[j] \in c.after
  <2>1. i + 1 \in 1 .. (Len(todo) + 1)
    BY <1>1
  <2>2. rest \in Seq(S)
    BY <2>1, RestIn
  <2>3. Len(rest) = Len(todo) - i /\ \A j \in 1 .. Len(rest) : rest[j] = todo[j + i]
    BY <1>1
  <2> HIDE DEF rest
  <2>4. ASSUME NEW j \in 1 .. Len(rest) PROVE rest[j] \in c.after
    <3>1. j + i \in (i + 1) .. Len(todo)
      BY <1>1, <2>3
    <3> QED
      BY <1>1, <2>3, <3>1
  <2> QED
    BY <2>2, <2>4
<1> HIDE DEF h, y, rest
<1>6. h \o y \in Seq(S)
  BY <1>3, <1>4
<1>7. Reaches((h \o y) \o rest, c)
  BY <1>2, <1>5, <1>6, Appended
<1> QED
  BY <1>7 DEF h, y, rest

(* At the barrier: it is passed, or b does not hold behind it, or what     *)
(* catches its exception reaches a barrier again.                          *)
LEMMA AtBarrier ==
  ASSUME NEW S, Closed(S), todo \in Seq(S), Execute, verdict' = "PASS",
         NEW b, NEW c, Guards(c, b), c.set \subseteq attrs, Unnoted(c)',
         ReachesAt(todo, 1, c)
  PROVE  Reaches(todo', c) \/ (~Holding(b)' /\ (Barrier(c, b) => todo' \in Seq(c.quiet)))
<1> DEFINE d == todo[1]
           rest == SubSeq(todo, 2, Len(todo))
<1>1. todo # << >> /\ Len(todo) \in Nat /\ Len(todo) >= 1 /\ d \in S
  BY ExecuteCases, TailIs
<1>2. d \in c.goals /\ \A i \in 2 .. Len(todo) : todo[i] \in c.after
  BY DEF ReachesAt
<1>3. Barrier(c, b) => \A i \in 2 .. Len(todo) : todo[i] \in c.quiet
  BY <1>2 DEF Barrier
<1>4. ASSUME NEW STATE k, k \in Any, Throw(k) PROVE Reaches(todo', c)
  <2>1. PICK i \in 2 .. Len(todo) :
               /\ Handles(todo[i], k)
               /\ todo' = todo[i].handler \o Again(todo[i], k) \o SubSeq(todo, i + 1, Len(todo))
    BY <1>1, <1>4, ThrowCases
  <2>2. todo[i].op \in Markers
    BY <2>1 DEF Handles, Markers
  <2>3. 1 \in 1 .. Len(todo) /\ i \in (1 + 1) .. Len(todo)
    BY <1>1
  <2> QED
    BY <1>4, <2>1, <2>2, <2>3, CaughtBehind
<1>5. /\ rest \in Seq(S) /\ Len(rest) = Len(todo) - 1
      /\ \A i \in 1 .. Len(rest) : rest[i] = todo[i + 1]
  <2>1. rest = Tail(todo)
    BY <1>1, TailIs
  <2> HIDE DEF rest
  <2> QED
    BY <2>1, <1>1, TailIs
<1>6. /\ Barrier(c, b) => rest \in Seq(c.quiet)
      /\ \A i \in 1 .. Len(rest) : rest[i] \in c.after
  <2> HIDE DEF rest
  <2>1. \A i \in 1 .. Len(rest) : (Barrier(c, b) => rest[i] \in c.quiet) /\ rest[i] \in c.after
    BY <1>1, <1>2, <1>3, <1>5
  <2> QED
    BY <2>1, <1>5, InSeq
<1>7. CASE d.op = "raise" /\ d.kind \in Any
  <2>1. RaiseException /\ Head(todo) = d
    BY <1>1, <1>7, TailIs DEF Execute, CommandWorks, CommandGoesWrong, SetAttribute, ReadAttribute,
       Branch, Decide, RecordFailure, Control, LeaveMethod, RaiseException, At
  <2>2. Throw(Head(todo).kind) /\ Head(todo).kind \in Any
    BY <1>7, <2>1 DEF RaiseException
  <2> QED
    BY <2>2, <1>4
<1>8. CASE /\ b.is = "changed" /\ d.op = "restore" /\ d.res = b.of
           /\ d.on \in Any \/ (d.on = "note" /\ c.noting)
  <2>1. CASE changed' = changed \ {d.res} /\ todo' = rest
    BY <2>1, <1>6, <1>8 DEF Holding
  <2>2. CASE Throw(d.on) /\ d.on \in Any
    BY <2>2, <1>4
  <2> QED
    BY <1>1, <1>8, <2>1, <2>2, RestoreStep DEF Unnoted
<1>9. CASE b.is = "unset" /\ d.op = "assign" /\ d.attr = b.of
  <2>1. attrs' = attrs \cup {d.attr} /\ todo' = rest
    BY <1>1, <1>9, AssignStep
  <2> QED
    BY <2>1, <1>6, <1>9 DEF Holding
<1>10. CASE /\ d.op \in Branches \cup Bodies
            /\ \A q \in WaysAt(d, b, c) : Reaches(q, c)
  <2>1. PICK x : Becomes(d, x) /\ todo' = x \o rest
    BY <1>1, <1>10, BranchStep
  <2>2. UNCHANGED <<changed, attrs, noted>>
    BY <1>1, <1>10, BranchStep
  <2>3. \A q \in Nested(d) : q \in Seq(S)
    BY <1>1 DEF Closed
  <2>4. WaysAt(d, b, c) \subseteq Nested(d)
    BY NestedIs DEF WaysAt, WaysWhile, Branches
  <2>5. CASE x \in WaysAt(d, b, c)
    <3>1. x \in Seq(S) /\ Reaches(x, c)
      BY <1>10, <2>3, <2>4, <2>5
    <3> QED
      BY <3>1, <1>5, <1>6, <2>1, Appended
  <2>6. CASE \E q \in WaysAt(d, b, c) : x = q \o << End >>
    <3>1. PICK q \in WaysAt(d, b, c) : x = q \o << End >>
      BY <2>6
    <3>2. q \in Seq(S) /\ Reaches(q, c)
      BY <1>10, <2>3, <2>4
    <3> DEFINE e == << End >>
    <3>3. End \in S /\ End \in c.after
      BY DEF Closed, Guards
    <3>4. e \in Seq(S) /\ Len(e) = 1 /\ e[1] = End
      BY <3>3, Single
    <3> HIDE DEF e
    <3>5. \A i \in 1 .. Len(e) : e[i] \in c.after
      BY <3>3, <3>4
    <3>6. x = q \o e
      BY <3>1 DEF e
    <3>7. JoinOf(x, q, e, S)
      BY <3>2, <3>4, <3>6, Joined
    <3>8. Reaches(x, c) /\ x \in Seq(S)
      BY <3>2, <3>4, <3>5, <3>6, <3>7, Appended DEF JoinOf
    <3> QED
      BY <3>8, <1>5, <1>6, <2>1, Appended
  <2>7. CASE ~Holding(b)
    <3>1. ~Holding(b)'
      BY <2>2, <2>7 DEF Holding
    <3>2. d.op = "call" => WaysAt(d, b, c) = Nested(d)
      BY DEF WaysAt, WaysWhile
    <3>3. ASSUME x \in Nested(d) \ WaysAt(d, b, c), Barrier(c, b)
          PROVE  todo' \in Seq(c.quiet)
      <4>1. ~Stops(d, b, c)
        BY <1>10 DEF Stops, Branches, Bodies
      <4>2. x \in Seq(c.quiet)
        BY <1>2, <3>3, <4>1 DEF Barrier
      <4>3. JoinOf(x \o rest, x, rest, c.quiet)
        BY <4>2, <3>3, <1>6, Joined
      <4> QED
        BY <4>3, <2>1 DEF JoinOf
    <3>4. \/ x \in Nested(d) /\ d.op # "call"
          \/ \E q \in Nested(d) : d.op = "call" /\ x = q \o << End >>
      BY <2>1, <1>10, BecomesNested
    <3> QED
      BY <2>5, <2>6, <3>1, <3>2, <3>3, <3>4
  <2>8. Holding(b) => \/ x \in WaysAt(d, b, c)
                      \/ \E q \in WaysAt(d, b, c) : x = q \o << End >>
    <3>1. CASE d.op = "ifSet" /\ d.attr \in c.set
      <4>1. Holds(d)
        BY <3>1 DEF Holds
      <4>2. x = d.yes
        BY <2>1, <3>1, <4>1 DEF Becomes, Branches, Bodies, Markers
      <4> QED
        BY <3>1, <4>2 DEF WaysAt
    <3>2. CASE ~(d.op = "ifSet" /\ d.attr \in c.set)
      <4>1. WaysAt(d, b, c) = WaysWhile(d, b)
        BY <3>2 DEF WaysAt
      <4>2. Holding(b) => \/ x \in WaysWhile(d, b)
                          \/ \E q \in WaysWhile(d, b) : x = q \o << End >>
        BY <2>1, <1>10, BecomesWhile
      <4> QED
        BY <4>1, <4>2
    <3> QED
      BY <3>1, <3>2
  <2> QED
    BY <2>5, <2>6, <2>7, <2>8
<1> QED
  BY <1>2, <1>7, <1>8, <1>9, <1>10 DEF Guards, Stops

(* Before the goal, what does not raise keeps to the route. *)
LEMMA RouteStep ==
  ASSUME NEW S, Closed(S), todo \in Seq(S), Execute, NEW c, Flow(c),
         c.set \subseteq attrs, c.unset \cap attrs = {}, c.held \subseteq changed,
         NEW n \in 2 .. Len(todo), ReachesAt(todo, n, c)
  PROVE  Reaches(todo', c) \/ \E k \in Any : Throws(todo[1], k) /\ Throw(k)
<1>1. todo # << >> /\ todo[1] \in S
  BY ExecuteCases, TailIs
<1>2. CASE \E x : Becomes(todo[1], x) /\ todo' = x \o SubSeq(todo, 2, Len(todo))
  <2>1. PICK x : Becomes(todo[1], x) /\ todo' = x \o SubSeq(todo, 2, Len(todo))
    BY <1>2
  <2>2. \/ x = << >>
        \/ x \in Ways(todo[1], c) /\ todo[1].op # "call"
        \/ \E y \in Ways(todo[1], c) : todo[1].op = "call" /\ x = y \o << End >>
    BY <2>1, BecomesWays
  <2>3. Reaches(x \o SubSeq(todo, 2, Len(todo)), c)
    BY <2>2, RouteGoes
  <2> QED
    BY <2>1, <2>3
<1>3. CASE \E k : Throws(todo[1], k) /\ Throw(k)
  <2>1. \A k : Throws(todo[1], k) => k \in Any
    BY <1>1 DEF Throws, Closed, Any
  <2> QED
    BY <1>3, <2>1
<1>4. CASE Returns(todo[1]) /\ Leave
  <2>1. /\ EndsBefore(todo, 1, n)
        /\ \A i \in 2 .. Len(todo) :
              /\ todo[i].op = "end" /\ (\A j \in 2 .. (i - 1) : todo[j].op # "end")
              => Reaches(SubSeq(todo, i + 1, Len(todo)), c)
    BY <1>4, RouteLeaves
  <2>2. \E i \in 2 .. Len(todo) : todo[i].op = "end"
    BY <2>1 DEF EndsBefore
  <2> QED
    BY <1>1, <1>4, <2>1, <2>2, LeaveCases
<1> QED
  BY <1>2, <1>3, <1>4, ExecuteCases

(* What comes before a barrier goes on to it, or ends the test's passing. *)
LEMMA BeforeBarrier ==
  ASSUME NEW S, Closed(S), todo \in Seq(S), Execute, verdict' = "PASS",
         NEW b, NEW c, Guards(c, b), c.set \subseteq attrs,
         NEW n \in 2 .. Len(todo), ReachesAt(todo, n, c)
  PROVE  Reaches(todo', c)
<1>1. todo # << >>
  BY ExecuteCases
<1>2. /\ Flow(c) /\ c.throwers = {}
      /\ c.unset \cap attrs = {} /\ c.held \subseteq changed
  BY DEF Guards
<1>3. ASSUME NEW k \in Any, Throw(k)
      PROVE  Reaches(todo', c)
  <2>1. PICK i \in 2 .. Len(todo) :
               /\ Handles(todo[i], k)
               /\ todo' = todo[i].handler \o Again(todo[i], k) \o SubSeq(todo, i + 1, Len(todo))
    BY <1>1, <1>3, ThrowCases
  <2>2. todo[i].op \in Markers
    BY <2>1 DEF Handles, Markers
  <2>3. \A d \in c.goals : d.op \notin Markers
    BY DEF Guards, Stops, Branches, Bodies, Markers
  <2>4. i # n
    BY <2>2, <2>3 DEF ReachesAt
  <2>5. CASE i \in 2 .. (n - 1)
    <3>1. ~(Raise(k) \in c.throwers)
      BY <1>2
    <3> QED
      BY <1>2, <2>1, <2>2, <2>5, <3>1, RouteCaught
  <2>6. CASE i \in (n + 1) .. Len(todo)
    <3>1. n \in 1 .. Len(todo)
      OBVIOUS
    <3> QED
      BY <2>1, <2>2, <2>6, <3>1, CaughtBehind
  <2> QED
    BY <2>4, <2>5, <2>6
<1> QED
  BY <1>2, <1>3, RouteStep

(* A barrier that is ahead is ahead after a step, or is behind. *)
LEMMA BarrierStep ==
  ASSUME NEW S, Closed(S), todo \in Seq(S), Execute, verdict' = "PASS",
         NEW b, NEW c, Guards(c, b), c.set \subseteq attrs, Unnoted(c)',
         Reaches(todo, c)
  PROVE  Reaches(todo', c) \/ (~Holding(b)' /\ (Barrier(c, b) => todo' \in Seq(c.quiet)))
<1>1. PICK n \in 1 .. Len(todo) : ReachesAt(todo, n, c)
  BY DEF Reaches
<1>2. CASE n = 1
  BY <1>1, <1>2, AtBarrier
<1>3. CASE n # 1
  <2>1. n \in 2 .. Len(todo)
    BY <1>3
  <2> QED
    BY <1>1, <2>1, BeforeBarrier
<1> QED
  BY <1>2, <1>3

(* On the way to a barrier, and at it, the attributes c.set stay set. *)
LEMMA SetStays ==
  ASSUME NEW S, todo \in Seq(S), Execute, NEW b, NEW c, Guards(c, b), c.set \subseteq attrs,
         Reaches(todo, c)
  PROVE  c.set \subseteq attrs'
<1>1. todo # << >> /\ Len(todo) \in Nat
  BY ExecuteCases
<1>2. PICK n \in 1 .. Len(todo) : ReachesAt(todo, n, c)
  BY DEF Reaches
<1>3. todo[1] \in c.before \/ todo[1] \in c.goals
  <2>1. n = 1 \/ 1 \in 1 .. (n - 1)
    BY <1>1
  <2> QED
    BY <1>2, <2>1 DEF ReachesAt
<1>4. todo[1].op = "clear" => todo[1].attr \notin c.set
  BY <1>3 DEF Guards, Stops, Branches, Bodies
<1> QED
  BY <1>1, <1>4, Effects

--------------------------------------------------------------------------------
(***************************************************************************)
(* What follows an opener.                                                 *)
(***************************************************************************)

(* A sequence before a route that neither returns nor raises past it. *)
LEMMA Prefixed ==
  ASSUME NEW S, NEW z \in Seq(S), NEW c, Reaches(z, c), c.throwers = {}, NEW x \in Seq(c.before),
         \A i \in 1 .. Len(x) : x[i] \in c.leavers => EndsBefore(x, i, Len(x) + 1)
  PROVE  Reaches(x \o z, c)
<1>1. PICK n \in 1 .. Len(z) : ReachesAt(z, n, c)
  BY DEF Reaches
<1> DEFINE y == x \o z
           l == Len(x)
           m == n + l
<1>2. /\ Len(y) = l + Len(z) /\ l \in Nat /\ Len(z) \in Nat
      /\ \A i \in 1 .. l : y[i] = x[i]
      /\ \A i \in (l + 1) .. Len(y) : y[i] = z[i - l]
  OBVIOUS
<1> HIDE DEF y
<1>3. \A i \in 1 .. l : x[i] \in c.before
  OBVIOUS
<1> HIDE DEF l
<1>4. ASSUME NEW i \in 1 .. (m - 1)
      PROVE  /\ y[i] \in c.before
             /\ y[i] \in c.leavers => EndsBefore(y, i, m)
             /\ y[i] \in c.throwers => CaughtBefore(y, i, m)
  <2>1. CASE i <= l
    <3>1. y[i] = x[i] /\ i \in 1 .. l
      BY <1>2, <2>1
    <3>2. \A k \in (i + 1) .. l : k \in (i + 1) .. (m - 1) /\ y[k] = x[k]
      BY <1>2, <2>1
    <3>3. y[i] \in c.leavers => EndsBefore(x, i, l + 1)
      BY <3>1 DEF l
    <3>4. EndsBefore(x, i, l + 1) => EndsBefore(y, i, m)
      <4>1. (l + 1) - 1 = l
        BY <1>2
      <4> HIDE DEF m
      <4> QED
        BY <3>2, <4>1 DEF EndsBefore
    <3> QED
      BY <1>3, <3>1, <3>3, <3>4
  <2>2. CASE i > l
    <3>1. y[i] = z[i - l] /\ i - l \in 1 .. (n - 1)
      BY <1>2, <2>2
    <3>2. z[i - l] \in c.before /\ (z[i - l] \in c.leavers => EndsBefore(z, i - l, n))
      BY <1>1, <3>1 DEF ReachesAt
    <3>3. EndsBefore(z, i - l, n) => EndsBefore(y, i, m)
      <4>1. SUFFICES ASSUME NEW k \in (i - l + 1) .. (n - 1), z[k].op = "end"
                     PROVE  EndsBefore(y, i, m)
        BY DEF EndsBefore
      <4>2. k + l \in (i + 1) .. (m - 1) /\ k + l \in (l + 1) .. Len(y) /\ (k + l) - l = k
        BY <1>2, <2>2
      <4>3. y[k + l] = z[k]
        BY <1>2, <4>2
      <4> HIDE DEF m
      <4> QED
        BY <4>1, <4>2, <4>3 DEF EndsBefore
    <3> QED
      BY <3>1, <3>2, <3>3
  <2> QED
    BY <2>1, <2>2, <1>2
<1>5. y[m] \in c.goals
  <2>1. m \in (l + 1) .. Len(y) /\ m - l = n
    BY <1>2
  <2> QED
    BY <1>1, <1>2, <2>1 DEF ReachesAt
<1>6. ASSUME NEW i \in (m + 1) .. Len(y)
      PROVE  y[i] \in c.after
  <2>1. i \in (l + 1) .. Len(y) /\ i - l \in (n + 1) .. Len(z)
    BY <1>2
  <2> QED
    BY <1>1, <1>2, <2>1 DEF ReachesAt
<1>7. m \in 1 .. Len(y)
  BY <1>2
<1> HIDE DEF m
<1>8. ReachesAt(y, m, c)
  BY <1>4, <1>5, <1>6 DEF ReachesAt
<1> QED
  BY <1>7, <1>8 DEF Reaches, y

(* The end of an end of a sequence. *)
LEMMA RestOfRest ==
  ASSUME NEW S, NEW q \in Seq(S), NEW m \in 1 .. (Len(q) + 1), NEW z, z = SubSeq(q, m, Len(q)),
         NEW i \in 1 .. Len(z)
  PROVE  /\ i + m - 1 \in 1 .. Len(q) /\ z[i] = q[i + m - 1] /\ Len(z) = Len(q) - m + 1
         /\ SubSeq(z, i + 1, Len(z)) = SubSeq(q, (i + m - 1) + 1, Len(q))
OBVIOUS

(* Sequences are equal when their entries are. *)
LEMMA SameEntries ==
  ASSUME NEW S, NEW a \in Seq(S), NEW b \in Seq(S), Len(a) = Len(b),
         \A k \in 1 .. Len(a) : a[k] = b[k]
  PROVE  a = b
OBVIOUS

\* The ends of y, which is x and after it z.
RestsOf(y, x, z) ==
    /\ \A i \in 1 .. Len(x) : SubSeq(y, i + 1, Len(y)) = SubSeq(x, i + 1, Len(x)) \o z
    /\ \A i \in (Len(x) + 1) .. Len(y) :
          SubSeq(y, i + 1, Len(y)) = SubSeq(z, (i - Len(x)) + 1, Len(z))

(* The end of two sequences, one after the other. *)
LEMMA RestOfJoin ==
  ASSUME NEW S, NEW x \in Seq(S), NEW z \in Seq(S)
  PROVE  RestsOf(x \o z, x, z)
<1> DEFINE y == x \o z
<1>1. JoinOf(y, x, z, S)
  BY Joined
<1> HIDE DEF y
<1>2. /\ y \in Seq(S) /\ Len(x) \in Nat /\ Len(z) \in Nat /\ Len(y) = Len(x) + Len(z)
      /\ \A i \in 1 .. Len(x) : y[i] = x[i]
      /\ \A i \in (Len(x) + 1) .. Len(y) : y[i] = z[i - Len(x)]
  BY <1>1 DEF JoinOf
<1>3. ASSUME NEW i \in 1 .. Len(y)
      PROVE  /\ SubSeq(y, i + 1, Len(y)) \in Seq(S)
             /\ Len(SubSeq(y, i + 1, Len(y))) = Len(y) - i
             /\ \A k \in 1 .. (Len(y) - i) : SubSeq(y, i + 1, Len(y))[k] = y[k + i]
  BY <1>2
<1>4. ASSUME NEW i \in 1 .. Len(x)
      PROVE  SubSeq(y, i + 1, Len(y)) = SubSeq(x, i + 1, Len(x)) \o z
  <2> DEFINE a == SubSeq(y, i + 1, Len(y))
             u == SubSeq(x, i + 1, Len(x))
             v == u \o z
  <2>1. u \in Seq(S) /\ Len(u) = Len(x) - i /\ \A k \in 1 .. (Len(x) - i) : u[k] = x[k + i]
    OBVIOUS
  <2>2. a \in Seq(S) /\ Len(a) = Len(y) - i /\ \A k \in 1 .. (Len(y) - i) : a[k] = y[k + i]
    BY <1>2, <1>3
  <2> HIDE DEF a, u
  <2>3. JoinOf(v, u, z, S)
    BY <2>1, Joined
  <2> HIDE DEF v
  <2>4. /\ v \in Seq(S) /\ Len(v) = Len(u) + Len(z)
        /\ \A k \in 1 .. Len(u) : v[k] = u[k]
        /\ \A k \in (Len(u) + 1) .. Len(v) : v[k] = z[k - Len(u)]
    BY <2>3 DEF JoinOf
  <2>5. Len(a) = Len(v)
    BY <1>2, <2>1, <2>2, <2>4
  <2>6. ASSUME NEW k \in 1 .. Len(a) PROVE a[k] = v[k]
    <3>1. CASE k <= Len(u)
      <4>1. k \in 1 .. Len(u) /\ k \in 1 .. (Len(x) - i) /\ k + i \in 1 .. Len(x)
            /\ k \in 1 .. (Len(y) - i)
        BY <1>2, <2>1, <2>2, <3>1
      <4> QED
        BY <4>1, <1>2, <2>1, <2>2, <2>4
    <3>2. CASE k > Len(u)
      <4>1. /\ k \in (Len(u) + 1) .. Len(v) /\ k + i \in (Len(x) + 1) .. Len(y)
            /\ k \in 1 .. (Len(y) - i) /\ (k + i) - Len(x) = k - Len(u)
        BY <1>2, <2>1, <2>2, <2>4, <3>2
      <4>2. a[k] = y[k + i] /\ y[k + i] = z[(k + i) - Len(x)] /\ v[k] = z[k - Len(u)]
        BY <4>1, <1>2, <2>2, <2>4
      <4> QED
        BY <4>1, <4>2
    <3> QED
      BY <3>1, <3>2, <1>2, <2>1
  <2>7. a = v
    BY <2>2, <2>4, <2>5, <2>6, SameEntries
  <2> QED
    BY <2>7 DEF a, u, v
<1>5. ASSUME NEW i \in (Len(x) + 1) .. Len(y)
      PROVE  SubSeq(y, i + 1, Len(y)) = SubSeq(z, (i - Len(x)) + 1, Len(z))
  <2> DEFINE a == SubSeq(y, i + 1, Len(y))
             j == i - Len(x)
             v == SubSeq(z, j + 1, Len(z))
  <2>1. j \in 1 .. Len(z) /\ i \in 1 .. Len(y)
    BY <1>2
  <2> HIDE DEF j
  <2>2. v \in Seq(S) /\ Len(v) = Len(z) - j /\ \A k \in 1 .. (Len(z) - j) : v[k] = z[k + j]
    BY <2>1
  <2>3. a \in Seq(S) /\ Len(a) = Len(y) - i /\ \A k \in 1 .. (Len(y) - i) : a[k] = y[k + i]
    BY <2>1, <1>3
  <2> HIDE DEF a, v
  <2>4. Len(a) = Len(v)
    BY <1>2, <2>2, <2>3 DEF j
  <2>5. ASSUME NEW k \in 1 .. Len(a) PROVE a[k] = v[k]
    <3>1. k + i \in (Len(x) + 1) .. Len(y) /\ (k + i) - Len(x) = k + j /\ k \in 1 .. (Len(z) - j)
          /\ k \in 1 .. (Len(y) - i)
      BY <1>2, <2>3, <2>2, <2>4 DEF j
    <3>2. a[k] = y[k + i] /\ v[k] = z[k + j]
      BY <3>1, <2>2, <2>3
    <3>3. y[k + i] = z[(k + i) - Len(x)]
      BY <3>1, <1>2
    <3> QED
      BY <3>1, <3>2, <3>3
  <2>6. a = v
    BY <2>2, <2>3, <2>4, <2>5, SameEntries
  <2> QED
    BY <2>6 DEF a, v, j
<1>6. RestsOf(y, x, z)
  BY <1>4, <1>5 DEF RestsOf
<1> QED
  BY <1>6 DEF y

(* An end of a sequence in which openers are followed is one too. *)
LEMMA FollowedRest ==
  ASSUME NEW S, NEW q \in Seq(S), NEW w, Followed(q, w), NEW m \in 1 .. (Len(q) + 1)
  PROVE  Followed(SubSeq(q, m, Len(q)), w)
<1> DEFINE z == SubSeq(q, m, Len(q))
<1>1. ASSUME NEW i \in 1 .. Len(z)
      PROVE  /\ z[i] \in w.openers => Reaches(SubSeq(z, i + 1, Len(z)), w.route)
             /\ z[i] \in w.risky => \A k \in (i + 1) .. Len(z) : z[k] \in w.route.after
  <2> DEFINE j == i + m - 1
  <2>1. /\ j \in 1 .. Len(q) /\ z[i] = q[j]
        /\ SubSeq(z, i + 1, Len(z)) = SubSeq(q, j + 1, Len(q))
    BY RestOfRest
  <2>2. \A k \in (i + 1) .. Len(z) : k + m - 1 \in (j + 1) .. Len(q) /\ z[k] = q[k + m - 1]
    OBVIOUS
  <2> HIDE DEF z, j
  <2> QED
    BY <2>1, <2>2 DEF Followed
<1> QED
  BY <1>1 DEF Followed

(* What is put in front of a sequence in which openers are followed. *)
LEMMA FollowedJoined ==
  ASSUME NEW S, NEW x \in Seq(S), NEW z \in Seq(S), NEW w, Followed(z, w),
         \A i \in 1 .. Len(x) :
            /\ x[i] \in w.openers => Reaches(SubSeq(x, i + 1, Len(x)) \o z, w.route)
            /\ x[i] \in w.risky =>
                  /\ \A k \in (i + 1) .. Len(x) : x[k] \in w.route.after
                  /\ \A k \in 1 .. Len(z) : z[k] \in w.route.after
  PROVE  Followed(x \o z, w)
<1> DEFINE y == x \o z
<1>1. RestsOf(y, x, z)
  BY RestOfJoin
<1>2. JoinOf(y, x, z, S)
  BY Joined
<1> HIDE DEF y
<1>3. /\ \A i \in 1 .. Len(x) : SubSeq(y, i + 1, Len(y)) = SubSeq(x, i + 1, Len(x)) \o z
      /\ \A i \in (Len(x) + 1) .. Len(y) :
            SubSeq(y, i + 1, Len(y)) = SubSeq(z, (i - Len(x)) + 1, Len(z))
  BY <1>1 DEF RestsOf
<1>4. /\ y \in Seq(S) /\ Len(x) \in Nat /\ Len(z) \in Nat /\ Len(y) = Len(x) + Len(z)
      /\ \A i \in 1 .. Len(x) : y[i] = x[i]
      /\ \A i \in (Len(x) + 1) .. Len(y) : y[i] = z[i - Len(x)]
  BY <1>2 DEF JoinOf
<1>5. ASSUME NEW i \in 1 .. Len(x)
      PROVE  /\ y[i] \in w.openers => Reaches(SubSeq(y, i + 1, Len(y)), w.route)
             /\ y[i] \in w.risky => \A k \in (i + 1) .. Len(y) : y[k] \in w.route.after
  <2>1. y[i] = x[i] /\ SubSeq(y, i + 1, Len(y)) = SubSeq(x, i + 1, Len(x)) \o z
    BY <1>3, <1>4
  <2>2. ASSUME y[i] \in w.risky, NEW k \in (i + 1) .. Len(y) PROVE y[k] \in w.route.after
    <3>1. CASE k <= Len(x)
      <4>1. k \in (i + 1) .. Len(x) /\ k \in 1 .. Len(x)
        BY <1>4, <3>1
      <4> QED
        BY <1>4, <2>1, <2>2, <4>1
    <3>2. CASE k > Len(x)
      <4>1. k \in (Len(x) + 1) .. Len(y) /\ k - Len(x) \in 1 .. Len(z)
        BY <1>4, <3>2
      <4> QED
        BY <1>4, <2>1, <2>2, <4>1
    <3> QED
      BY <1>4, <3>1, <3>2
  <2> QED
    BY <2>1, <2>2
<1>6. ASSUME NEW i \in (Len(x) + 1) .. Len(y)
      PROVE  /\ y[i] \in w.openers => Reaches(SubSeq(y, i + 1, Len(y)), w.route)
             /\ y[i] \in w.risky => \A k \in (i + 1) .. Len(y) : y[k] \in w.route.after
  <2> DEFINE j == i - Len(x)
  <2>1. j \in 1 .. Len(z) /\ y[i] = z[j] /\ SubSeq(y, i + 1, Len(y)) = SubSeq(z, j + 1, Len(z))
    BY <1>3, <1>4
  <2>2. ASSUME NEW k \in (i + 1) .. Len(y)
        PROVE  k - Len(x) \in (j + 1) .. Len(z) /\ y[k] = z[k - Len(x)]
    <3>1. k \in (Len(x) + 1) .. Len(y) /\ k - Len(x) \in (j + 1) .. Len(z)
      BY <1>4
    <3> QED
      BY <1>4, <3>1
  <2> HIDE DEF j
  <2> QED
    BY <2>1, <2>2 DEF Followed
<1>7. \A i \in 1 .. Len(y) : i \in 1 .. Len(x) \/ i \in (Len(x) + 1) .. Len(y)
  BY <1>4
<1>8. Followed(y, w)
  BY <1>5, <1>6, <1>7 DEF Followed
<1> QED
  BY <1>8 DEF y

\* A sequence that is put behind one that a statement leads to: an end or
\* an exception that is raised again.
Closing(y, w) ==
    \A i \in 1 .. Len(y) :
        /\ y[i] \in w.route.after /\ y[i] \notin w.openers \cup w.risky
        /\ y[i] \in w.route.before /\ y[i] \notin w.route.leavers

(* A statement that leads to q, and y behind it, is replaced by them. *)
LEMMA FollowedInto ==
  ASSUME NEW t, NEW o, NEW b, NEW w, FollowedIn(t, o, b, w), NEW s \in w.all,
         NEW q \in Nested(s), NEW y \in Seq(w.all), Closing(y, w),
         s.op = "call" => Len(y) = 1 /\ y[1].op = "end",
         NEW z \in Seq(w.all), Followed(z, w), s \in w.openers => Reaches(z, w.route),
         s \in w.risky => \A k \in 1 .. Len(z) : z[k] \in w.route.after
  PROVE  Followed((q \o y) \o z, w)
<1> DEFINE x == q \o y
<1>1. q \in Seq(w.all) /\ w.route.throwers = {}
  BY DEF FollowedIn, Covers, Closed, Guards
<1>2. ASSUME NEW i \in 1 .. Len(q)
      PROVE  /\ q[i] \in w.openers =>
                   \/ s \in w.risky /\ Reaches(SubSeq(q, i + 1, Len(q)), w.route)
                   \/ s \in w.openers /\ Passes(q, i, s, w.route)
             /\ q[i] \in w.risky =>
                   s \in w.risky /\ \A k \in (i + 1) .. Len(q) : q[k] \in w.route.after
  BY DEF FollowedIn
<1>3. JoinOf(x, q, y, w.all)
  BY <1>1, Joined
<1>4. RestsOf(x, q, y)
  BY <1>1, RestOfJoin
<1> HIDE DEF x
<1>5. \A i \in 1 .. Len(q) : SubSeq(x, i + 1, Len(x)) = SubSeq(q, i + 1, Len(q)) \o y
  BY <1>4 DEF RestsOf
<1>6. /\ x \in Seq(w.all) /\ Len(q) \in Nat /\ Len(y) \in Nat /\ Len(x) = Len(q) + Len(y)
      /\ \A i \in 1 .. Len(q) : x[i] = q[i]
      /\ \A i \in (Len(q) + 1) .. Len(x) : x[i] = y[i - Len(q)]
  BY <1>3 DEF JoinOf
<1>7. ASSUME NEW i \in (Len(q) + 1) .. Len(x)
      PROVE  x[i] \in w.route.after /\ x[i] \notin w.openers \cup w.risky
  <2>1. i - Len(q) \in 1 .. Len(y) /\ x[i] = y[i - Len(q)]
    BY <1>6
  <2> QED
    BY <2>1 DEF Closing
<1>8. ASSUME NEW i \in 1 .. Len(q), q[i] \in w.openers
      PROVE  Reaches((SubSeq(q, i + 1, Len(q)) \o y) \o z, w.route)
  <2> DEFINE u == SubSeq(q, i + 1, Len(q))
             v == u \o y
  <2>1. u \in Seq(w.all) /\ Len(u) = Len(q) - i /\ \A k \in 1 .. Len(u) : u[k] = q[k + i]
    <3>1. i + 1 \in 1 .. (Len(q) + 1)
      BY <1>6
    <3>2. u \in Seq(w.all)
      BY <1>1, <3>1, RestIn
    <3> QED
      BY <3>2, <1>1
  <2> HIDE DEF u
  <2>2. JoinOf(v, u, y, w.all)
    BY <2>1, Joined
  <2>3. CASE s \in w.risky /\ Reaches(u, w.route)
    <3>1. \A k \in 1 .. Len(y) : y[k] \in w.route.after
      BY DEF Closing
    <3>2. Reaches(v, w.route)
      BY <2>1, <2>3, <3>1, Appended
    <3>3. v \in Seq(w.all)
      BY <2>2 DEF JoinOf
    <3> HIDE DEF v
    <3>4. Reaches(v \o z, w.route)
      BY <2>3, <3>2, <3>3, Appended
    <3> QED
      BY <3>4 DEF u, v
  <2>4. CASE s \in w.openers /\ Passes(q, i, s, w.route)
    <3> HIDE DEF v
    <3>1. /\ v \in Seq(w.all) /\ Len(v) = Len(u) + Len(y) /\ Len(u) \in Nat
          /\ \A k \in 1 .. Len(u) : v[k] = u[k]
          /\ \A k \in (Len(u) + 1) .. Len(v) : v[k] = y[k - Len(u)]
      BY <2>2 DEF JoinOf
    <3>2. ASSUME NEW k \in 1 .. Len(u)
          PROVE  v[k] \in w.route.before /\ (s.op = "call" \/ v[k] \notin w.route.leavers)
      <4>1. k + i \in (i + 1) .. Len(q) /\ v[k] = q[k + i]
        BY <1>6, <2>1, <3>1
      <4> QED
        BY <2>4, <4>1 DEF Passes
    <3>3. ASSUME NEW k \in (Len(u) + 1) .. Len(v)
          PROVE  /\ k - Len(u) \in 1 .. Len(y) /\ v[k] = y[k - Len(u)]
                 /\ v[k] \in w.route.before /\ v[k] \notin w.route.leavers
      <4>1. k - Len(u) \in 1 .. Len(y) /\ v[k] = y[k - Len(u)]
        BY <1>6, <3>1
      <4> QED
        BY <4>1 DEF Closing
    <3>4. \A k \in 1 .. Len(v) : k \in 1 .. Len(u) \/ k \in (Len(u) + 1) .. Len(v)
      BY <1>6, <3>1
    <3>5. v \in Seq(w.route.before)
      BY <3>1, <3>2, <3>3, <3>4, InSeq
    <3>6. ASSUME NEW k \in 1 .. Len(v), v[k] \in w.route.leavers
          PROVE  EndsBefore(v, k, Len(v) + 1)
      <4>1. k \in 1 .. Len(u) /\ s.op = "call"
        BY <3>2, <3>3, <3>4, <3>6
      <4>2. Len(y) = 1 /\ y[1].op = "end"
        BY <4>1
      <4>3. Len(v) \in (k + 1) .. ((Len(v) + 1) - 1) /\ Len(v) \in (Len(u) + 1) .. Len(v)
            /\ Len(v) - Len(u) = 1
        BY <3>1, <4>1, <4>2
      <4>4. v[Len(v)] = y[1]
        BY <3>1, <4>3
      <4> QED
        BY <4>2, <4>3, <4>4 DEF EndsBefore
    <3>7. Reaches(v \o z, w.route)
      BY <1>1, <2>4, <3>5, <3>6, Prefixed
    <3> QED
      BY <3>7 DEF u, v
  <2> QED
    BY <1>2, <1>8, <2>3, <2>4 DEF u
<1>9. ASSUME NEW i \in 1 .. Len(x)
      PROVE  /\ x[i] \in w.openers => Reaches(SubSeq(x, i + 1, Len(x)) \o z, w.route)
             /\ x[i] \in w.risky =>
                   /\ \A k \in (i + 1) .. Len(x) : x[k] \in w.route.after
                   /\ \A k \in 1 .. Len(z) : z[k] \in w.route.after
  <2>1. CASE i \in 1 .. Len(q)
    <3>1. x[i] = q[i] /\ SubSeq(x, i + 1, Len(x)) = SubSeq(q, i + 1, Len(q)) \o y
      BY <1>5, <1>6, <2>1
    <3>2. x[i] \in w.openers => Reaches(SubSeq(x, i + 1, Len(x)) \o z, w.route)
      BY <1>8, <2>1, <3>1
    <3>3. ASSUME x[i] \in w.risky, NEW k \in (i + 1) .. Len(x) PROVE x[k] \in w.route.after
      <4>1. k \in (i + 1) .. Len(q) \/ k \in (Len(q) + 1) .. Len(x)
        BY <1>6, <2>1
      <4>2. k \in (i + 1) .. Len(q) => x[k] = q[k]
        BY <1>6, <2>1
      <4> QED
        BY <1>2, <1>7, <2>1, <3>1, <3>3, <4>1, <4>2
    <3>4. x[i] \in w.risky => s \in w.risky
      BY <1>2, <2>1, <3>1
    <3> QED
      BY <3>2, <3>3, <3>4
  <2>2. CASE i \in (Len(q) + 1) .. Len(x)
    BY <1>7, <2>2
  <2> QED
    BY <1>6, <2>1, <2>2
<1>10. Followed(x \o z, w)
  BY <1>6, <1>9, FollowedJoined
<1> QED
  BY <1>10 DEF x

(* An end, and an exception raised again, close what they stand behind. *)
LEMMA Closings ==
  ASSUME NEW t, NEW o, NEW b, NEW w, FollowedIn(t, o, b, w)
  PROVE  /\ << >> \in Seq(w.all) /\ Closing(<< >>, w)
         /\ << End >> \in Seq(w.all) /\ Closing(<< End >>, w)
         /\ Len(<< End >>) = 1 /\ << End >>[1].op = "end"
         /\ \A k \in Any : << Raise(k) >> \in Seq(w.all) /\ Closing(<< Raise(k) >>, w)
<1>1. /\ Flow(w.route) /\ End \in w.route.after /\ Closed(w.all)
      /\ \A k \in Any : Raise(k) \in w.route.after
      /\ \A s \in w.openers \cup w.risky : s.op \notin {"end", "raise"}
  BY DEF FollowedIn, Guards, Covers
<1>2. << >> \in Seq(w.all) /\ Closing(<< >>, w)
  BY DEF Closing
<1>3. ASSUME NEW e \in w.all, e \in w.route.after, e \notin w.openers \cup w.risky,
             e \in w.route.before, e \notin w.route.leavers
      PROVE  << e >> \in Seq(w.all) /\ Len(<< e >>) = 1 /\ << e >>[1] = e /\ Closing(<< e >>, w)
  <2> DEFINE y == << e >>
  <2>1. y \in Seq(w.all) /\ Len(y) = 1 /\ y[1] = e
    BY Single
  <2> HIDE DEF y
  <2>2. \A i \in 1 .. Len(y) : y[i] = e
    BY <2>1
  <2>3. Closing(y, w)
    BY <1>3, <2>2 DEF Closing
  <2> QED
    BY <2>1, <2>3 DEF y
<1>4. /\ End \in w.all /\ End \in w.route.after /\ End \notin w.openers \cup w.risky
      /\ End \in w.route.before /\ End \notin w.route.leavers /\ End.op = "end"
  BY <1>1 DEF Flow, Closed, End
<1>5. ASSUME NEW k \in Any
      PROVE  /\ Raise(k) \in w.all /\ Raise(k) \in w.route.after
             /\ Raise(k) \notin w.openers \cup w.risky
             /\ Raise(k) \in w.route.before /\ Raise(k) \notin w.route.leavers
  BY <1>1 DEF Flow, Closed, Raise
<1> QED
  BY <1>2, <1>3, <1>4, <1>5

(* What follows the m-th statement of todo. *)
LEMMA AfterStatement ==
  ASSUME NEW t, NEW o, NEW b, NEW w, FollowedIn(t, o, b, w), NEW q \in Seq(w.all),
         Followed(q, w), NEW m \in 1 .. Len(q), NEW z, z = SubSeq(q, m + 1, Len(q))
  PROVE  /\ z \in Seq(w.all) /\ Followed(z, w) /\ q[m] \in w.all
         /\ q[m] \in w.openers => Reaches(z, w.route)
         /\ q[m] \in w.risky => \A k \in 1 .. Len(z) : z[k] \in w.route.after
<1>1. m + 1 \in 1 .. (Len(q) + 1)
  OBVIOUS
<1>2. z \in Seq(w.all) /\ Followed(z, w)
  BY <1>1, RestIn, FollowedRest
<1>3. q[m] \in w.all /\ (q[m] \in w.openers => Reaches(z, w.route))
  BY DEF Followed
<1>4. \A k \in 1 .. Len(z) : k + m \in (m + 1) .. Len(q) /\ z[k] = q[k + m]
  OBVIOUS
<1>5. q[m] \in w.risky => \A k \in (m + 1) .. Len(q) : q[k] \in w.route.after
  BY DEF Followed
<1> QED
  BY <1>2, <1>3, <1>4, <1>5

(* Where openers are followed they are after every statement. *)
LEMMA FollowedStep ==
  ASSUME NEW t, NEW o, NEW b, NEW w, FollowedIn(t, o, b, w), todo \in Seq(w.all), Execute,
         Followed(todo, w)
  PROVE  Followed(todo', w)
<1>1. todo # << >> /\ Len(todo) \in Nat /\ 1 \in 1 .. Len(todo) /\ Closed(w.all)
  BY ExecuteCases, TailIs DEF FollowedIn, Covers
<1>2. ASSUME NEW m \in 1 .. Len(todo), NEW q \in Nested(todo[m]), NEW y \in Seq(w.all),
             Closing(y, w), todo[m].op = "call" => Len(y) = 1 /\ y[1].op = "end"
      PROVE  Followed((q \o y) \o SubSeq(todo, m + 1, Len(todo)), w)
  <2> DEFINE z == SubSeq(todo, m + 1, Len(todo))
  <2>1. /\ z \in Seq(w.all) /\ Followed(z, w) /\ todo[m] \in w.all
        /\ todo[m] \in w.openers => Reaches(z, w.route)
        /\ todo[m] \in w.risky => \A k \in 1 .. Len(z) : z[k] \in w.route.after
    BY AfterStatement
  <2> HIDE DEF z
  <2>2. Followed((q \o y) \o z, w)
    BY <1>2, <2>1, FollowedInto
  <2> QED
    BY <2>2 DEF z
<1>3. \A q \in Seq(w.all) : q \o << >> = q /\ << >> \o q = q
  OBVIOUS
<1>4. \A m \in 1 .. Len(todo) : \A q \in Nested(todo[m]) : q \in Seq(w.all)
  BY <1>1 DEF Closed
<1>5. \A m \in 1 .. (Len(todo) + 1) : Followed(SubSeq(todo, m, Len(todo)), w)
  BY FollowedRest
<1>6. Followed(<< >>, w)
  BY DEF Followed
<1>7. CASE \E x : Becomes(todo[1], x) /\ todo' = x \o SubSeq(todo, 2, Len(todo))
  <2>1. PICK x : Becomes(todo[1], x) /\ todo' = x \o SubSeq(todo, 2, Len(todo))
    BY <1>7
  <2>2. CASE x = << >>
    <3>1. SubSeq(todo, 2, Len(todo)) \in Seq(w.all) /\ 2 \in 1 .. (Len(todo) + 1)
      <4>1. 2 \in 1 .. (Len(todo) + 1)
        BY <1>1
      <4> QED
        BY <4>1, RestIn
    <3>2. todo' = SubSeq(todo, 2, Len(todo))
      BY <1>3, <2>1, <2>2, <3>1
    <3> QED
      BY <1>5, <3>1, <3>2
  <2>3. CASE x \in Nested(todo[1]) /\ todo[1].op # "call"
    <3>1. << >> \in Seq(w.all) /\ Closing(<< >>, w)
      BY Closings
    <3>2. Followed((x \o << >>) \o SubSeq(todo, 1 + 1, Len(todo)), w)
      BY <1>1, <1>2, <2>3, <3>1
    <3>3. x \o << >> = x /\ 1 + 1 = 2
      BY <1>1, <1>3, <1>4, <2>3
    <3> QED
      BY <2>1, <3>2, <3>3
  <2>4. CASE \E q \in Nested(todo[1]) : todo[1].op = "call" /\ x = q \o << End >>
    <3>1. PICK q \in Nested(todo[1]) : todo[1].op = "call" /\ x = q \o << End >>
      BY <2>4
    <3>2. /\ << End >> \in Seq(w.all) /\ Closing(<< End >>, w)
          /\ Len(<< End >>) = 1 /\ << End >>[1].op = "end"
      BY Closings
    <3>3. Followed((q \o << End >>) \o SubSeq(todo, 1 + 1, Len(todo)), w)
      BY <1>1, <1>2, <3>1, <3>2
    <3>4. 1 + 1 = 2
      OBVIOUS
    <3> QED
      BY <2>1, <3>1, <3>3, <3>4
  <2> QED
    BY <2>1, <2>2, <2>3, <2>4, BecomesNested
<1>8. CASE \E k : Throws(todo[1], k) /\ Throw(k)
  <2>1. PICK k : Throws(todo[1], k) /\ Throw(k)
    BY <1>8
  <2>2. k \in Any
    <3>1. todo[1] \in w.all
      BY <1>1
    <3> QED
      BY <1>1, <2>1, <3>1 DEF Throws, Closed, Any
  <2>3. CASE todo' = << >>
    BY <1>6, <2>3
  <2>4. CASE \E i \in 2 .. Len(todo) :
               /\ Handles(todo[i], k)
               /\ todo' = todo[i].handler \o Again(todo[i], k) \o SubSeq(todo, i + 1, Len(todo))
    <3>1. PICK i \in 2 .. Len(todo) :
               /\ Handles(todo[i], k)
               /\ todo' = todo[i].handler \o Again(todo[i], k) \o SubSeq(todo, i + 1, Len(todo))
      BY <2>4
    <3>2. i \in 1 .. Len(todo) /\ todo[i].op \in Markers
      BY <3>1 DEF Handles, Markers
    <3>3. todo[i].handler \in Nested(todo[i]) /\ todo[i].op # "call"
      BY <3>2, NestedIs DEF Markers
    <3>4. Again(todo[i], k) \in Seq(w.all) /\ Closing(Again(todo[i], k), w)
      BY <2>2, Closings DEF Again
    <3> QED
      BY <1>2, <3>1, <3>2, <3>3, <3>4
  <2> QED
    BY <1>1, <2>1, <2>3, <2>4, ThrowCases
<1>9. CASE Leave
  <2>1. \A i \in 2 .. Len(todo) : i + 1 \in 1 .. (Len(todo) + 1)
    BY <1>1
  <2> QED
    BY <1>1, <1>5, <1>6, <1>9, <2>1, LeaveCases
<1> QED
  BY <1>7, <1>8, <1>9, ExecuteCases

(* What changes a resource, or records a failure, does nothing else. *)
LEMMA GoesOn ==
  ASSUME NEW S, todo \in Seq(S), Execute
  PROVE  todo' = SubSeq(todo, 2, Len(todo)) \/ (changed' \subseteq changed /\ (noted' => noted))
<1> DEFINE G == todo' = SubSeq(todo, 2, Len(todo)) \/ (changed' \subseteq changed /\ (noted' => noted))
<1>1. todo # << >>
  BY ExecuteCases
<1>2. Tail(todo) = SubSeq(todo, 2, Len(todo))
  BY <1>1, TailIs
<1>3. CommandWorks \/ SetAttribute \/ RecordFailure => G
  BY <1>2 DEF CommandWorks, SetAttribute, RecordFailure, Continue
<1>4. ReadAttribute \/ Branch \/ Decide \/ Control \/ LeaveMethod \/ RaiseException => G
  BY DEF ReadAttribute, Branch, Decide, Control, LeaveMethod, RaiseException
<1>5. ASSUME CommandGoesWrong PROVE G
  <2>1. React(Head(todo).on) /\ changed' = changed
    BY <1>5 DEF CommandGoesWrong
  <2>2. todo' = Tail(todo) \/ noted' = noted
    BY <2>1 DEF React, Continue
  <2> QED
    BY <1>2, <2>1, <2>2
<1> QED
  BY <1>3, <1>4, <1>5 DEF Execute

(* Only what spoils it makes o hold, and it goes on to the next statement. *)
LEMMA SpoilStep ==
  ASSUME NEW S, todo \in Seq(S), Execute, NEW o, o.is \in {"changed", "noted"}
  PROVE  ~Holding(o) /\ Holding(o)'
            => Spoils(todo[1], o) /\ todo' = SubSeq(todo, 2, Len(todo))
<1>1. todo # << >>
  BY ExecuteCases
<1>2. ~Holding(o) /\ Holding(o)' => Spoils(todo[1], o)
  BY <1>1, Unspoiled
<1>3. changed' \subseteq changed /\ (noted' => noted) /\ ~Holding(o) => ~Holding(o)'
  BY DEF Holding
<1> QED
  BY <1>2, <1>3, GoesOn

\* The openers of w are followed, and where o holds b does not, or a barrier
\* for b is ahead.
Following(o, b, w) == ~Holding(o) \/ ~Holding(b) \/ Reaches(todo, w.route)

(* While the test passes, a barrier stays ahead of what has begun to hold. *)
LEMMA FollowingStep ==
  ASSUME NEW t, NEW o, NEW b, NEW w, FollowedIn(t, o, b, w), o.is \in {"changed", "noted"},
         todo \in Seq(w.all), Execute, Followed(todo, w), Following(o, b, w),
         verdict' = "PASS", Unnoted(w.route)'
  PROVE  Following(o, b, w)'
<1>1. todo # << >> /\ Closed(w.all) /\ Guards(w.route, b) /\ w.route.set = {}
  BY ExecuteCases DEF FollowedIn, Covers
<1>2. todo[1] \in w.all /\ 1 \in 1 .. Len(todo)
  BY <1>1, TailIs
<1>3. CASE Reaches(todo, w.route)
  <2>1. w.route.set \subseteq attrs
    BY <1>1
  <2>2. Reaches(todo', w.route) \/ ~Holding(b)'
    BY <1>1, <1>3, <2>1, BarrierStep
  <2> QED
    BY <2>2 DEF Following
<1>4. CASE ~Holding(o)
  <2>1. SUFFICES ASSUME Holding(o)' PROVE Reaches(todo', w.route)
    BY DEF Following
  <2>2. Spoils(todo[1], o) /\ todo' = SubSeq(todo, 2, Len(todo))
    BY <1>4, <2>1, SpoilStep
  <2>3. todo[1] \in w.openers
    BY <1>2, <2>2 DEF FollowedIn
  <2>4. Reaches(SubSeq(todo, 1 + 1, Len(todo)), w.route)
    BY <1>2, <2>3 DEF Followed
  <2>5. 1 + 1 = 2
    OBVIOUS
  <2> QED
    BY <2>2, <2>4, <2>5
<1>5. CASE ~Holding(b) /\ b # o
  <2>1. ~Spoils(todo[1], b)
    BY <1>2, <1>5 DEF FollowedIn
  <2>2. ~Holding(b)'
    BY <1>1, <1>5, <2>1, Unspoiled
  <2> QED
    BY <2>2 DEF Following
<1> QED
  BY <1>3, <1>4, <1>5 DEF Following

--------------------------------------------------------------------------------
(***************************************************************************)
(* The runner.                                                             *)
(***************************************************************************)
\* Phases in order, and no statement left after a test or an exception.
RunnerInv ==
    /\ job \in DOMAIN Jobs /\ pos \in 1 .. Len(Jobs[job].tests)
    /\ phase \in {"setUp", "test", "tearDown", "ended", "over"}
    /\ phase = "ended" => pos < Len(Jobs[job].tests)
    /\ phase = "over" => pos = Len(Jobs[job].tests)
    /\ phase \in {"ended", "over"} => todo = << >>
    /\ phase \in {"setUp", "test"} /\ verdict # "PASS" => todo = << >>

(* A step executes a statement, is one of the runner's, or stutters. *)
LEMMA NextCases ==
  ASSUME [Next]_vars
  PROVE  Execute \/ StartTestMethod \/ StartTearDown \/ EndTest \/ StartTest \/ UNCHANGED vars
BY DEF Next, Execute, JobOver

(* A statement leaves the runner alone, and the verdict unless it ends the *)
(* phase with the first exception.                                         *)
LEMMA ExecuteRunner ==
  ASSUME Execute
  PROVE  /\ todo # << >> /\ UNCHANGED <<job, pos, phase, clean>> /\ Current' = Current
         /\ verdict' = verdict \/ (todo' = << >> /\ verdict = "PASS" /\ verdict' # "PASS")
<1>1. todo # << >> /\ UNCHANGED <<job, pos, phase, clean>>
  BY DEF Execute, CommandWorks, CommandGoesWrong, SetAttribute, ReadAttribute, Branch,
         Decide, RecordFailure, Control, LeaveMethod, RaiseException, At, TestUnchanged
<1> DEFINE G == verdict' = verdict \/ (todo' = << >> /\ verdict = "PASS" /\ verdict' # "PASS")
<1>2. ASSUME NEW STATE k, Throw(k) PROVE G
  BY <1>2 DEF Throw, VerdictOf
<1>3. G
  <2>1. CommandGoesWrong => G
    BY <1>2 DEF CommandGoesWrong, React, Continue
  <2>2. ReadAttribute => G
    BY <1>2 DEF ReadAttribute, Continue
  <2>3. RaiseException => G
    BY <1>2 DEF RaiseException
  <2>4. CommandWorks \/ SetAttribute \/ Branch \/ Decide \/ RecordFailure \/ Control
           \/ LeaveMethod => G
    BY DEF CommandWorks, SetAttribute, Branch, Decide, RecordFailure, Control, LeaveMethod,
           Continue, Instead
  <2> QED
    BY <2>1, <2>2, <2>3, <2>4 DEF Execute
<1> QED
  BY <1>1, <1>3 DEF Current

(* A job starts with the setUp of its first test. *)
LEMMA RunnerStart ==
  ASSUME Init
  PROVE  RunnerInv
BY JobsAssumption DEF Init, RunnerInv

(* Every step of the runner, and every statement, keeps the phases in order. *)
LEMMA RunnerStep ==
  ASSUME RunnerInv, [Next]_vars
  PROVE  RunnerInv'
<1>1. CASE Execute
  BY <1>1, ExecuteRunner DEF RunnerInv
<1>2. CASE StartTestMethod
  BY <1>2 DEF StartTestMethod, RunnerInv
<1>3. CASE StartTearDown
  BY <1>3 DEF StartTearDown, RunnerInv
<1>4. CASE EndTest
  <2>1. Len(Jobs[job].tests) \in Nat
    BY JobsAssumption DEF RunnerInv
  <2> QED
    BY <1>4, <2>1 DEF EndTest, RunnerInv
<1>5. CASE StartTest
  <2>1. Len(Jobs[job].tests) \in Nat
    BY JobsAssumption DEF RunnerInv
  <2> QED
    BY <1>5, <2>1 DEF StartTest, RunnerInv
<1>6. CASE UNCHANGED vars
  BY <1>6 DEF vars, RunnerInv
<1> QED
  BY <1>1, <1>2, <1>3, <1>4, <1>5, <1>6, NextCases

(* A test ends only from tearDown, a method starts only when the one before *)
(* it has ended, and no statement is left when a test has ended.           *)
THEOREM RunnerSafe == Spec => []RunnerInv
<1>1. Init => RunnerInv
  BY RunnerStart
<1>2. RunnerInv /\ [Next]_vars => RunnerInv'
  BY RunnerStep
<1> QED
  BY <1>1, <1>2, PTL DEF Spec

--------------------------------------------------------------------------------
(***************************************************************************)
(* What is executed is of the scripts, and changes only what they change.  *)
(***************************************************************************)
\* What is left to execute is of the current test.
CoverInv == \A S : Covers(S, Current) => todo \in Seq(S)

\* S has the statements of every test of job J.
CoversAll(S, J) == \A i \in 1 .. Len(J.tests) : Covers(S, J.tests[i])

\* Only what some statement of the job changes is changed.
FootInv == \A S : CoversAll(S, Jobs[job]) => changed \subseteq Footprint(S)

(* What is left to execute stays among the statements of the current test. *)
LEMMA CoverStep ==
  ASSUME RunnerInv, CoverInv, [Next]_vars
  PROVE  CoverInv'
<1> SUFFICES ASSUME NEW S, Covers(S, Current') PROVE todo' \in Seq(S)
  BY DEF CoverInv
<1>1. CASE Execute
  BY <1>1, ExecuteRunner, ClosedStep DEF CoverInv, Covers
<1>2. CASE StartTestMethod
  BY <1>2 DEF StartTestMethod, Current, Covers
<1>3. CASE StartTearDown
  BY <1>3 DEF StartTearDown, Current, Covers
<1>4. CASE EndTest
  BY <1>4 DEF EndTest, Current, CoverInv
<1>5. CASE StartTest
  BY <1>5 DEF StartTest, Current, Covers
<1>6. CASE UNCHANGED vars
  BY <1>6 DEF vars, Current, CoverInv
<1> QED
  BY <1>1, <1>2, <1>3, <1>4, <1>5, <1>6, NextCases

(* A statement changes at most its own resource. *)
LEMMA FootStatement ==
  ASSUME NEW S, Closed(S), todo \in Seq(S), Execute
  PROVE  changed' \subseteq changed \cup Footprint(S)
<1>1. todo # << >> /\ todo[1] \in S
  BY ExecuteCases, TailIs
<1>2. todo[1].op = "change" => todo[1].res \in Footprint(S)
  BY <1>1 DEF Footprint
<1> QED
  BY <1>1, <1>2, Effects

(* What is changed stays within what the statements of the job change. *)
LEMMA FootStep ==
  ASSUME RunnerInv, CoverInv, FootInv, [Next]_vars
  PROVE  FootInv'
<1> SUFFICES ASSUME NEW S, CoversAll(S, Jobs[job']) PROVE changed' \subseteq Footprint(S)
  BY DEF FootInv
<1>1. CASE Execute
  <2>1. job' = job /\ pos \in 1 .. Len(Jobs[job].tests)
    BY <1>1, ExecuteRunner DEF RunnerInv
  <2>2. Covers(S, Current)
    BY <2>1 DEF CoversAll, Current
  <2>3. todo \in Seq(S) /\ Closed(S)
    BY <2>2 DEF CoverInv, Covers
  <2>4. changed \subseteq Footprint(S)
    BY <2>1 DEF FootInv
  <2> QED
    BY <1>1, <2>3, <2>4, FootStatement
<1>2. CASE UNCHANGED <<job, changed>>
  BY <1>2 DEF FootInv
<1> QED
  BY <1>1, <1>2, NextCases DEF StartTestMethod, StartTearDown, EndTest, StartTest, vars

--------------------------------------------------------------------------------
(***************************************************************************)
(* Barriers in a job.                                                      *)
(***************************************************************************)
\* The statements of the current test are a set.
CurrentCovered == \E S : Covers(S, Current)

\* The phases after phase p.
Later(p) ==
    IF p = "setUp" THEN {"test", "tearDown", "ended", "over"}
    ELSE IF p = "test" THEN {"tearDown", "ended", "over"} ELSE {"ended", "over"}

\* The barrier of c is behind: b does not hold and nothing makes it hold.
Passed(b, c) == ~Holding(b) /\ todo \in Seq(c.quiet)

\* The test passes so far, and nothing that c depends on is on record.
Fine(c) == verdict = "PASS" /\ Unnoted(c)

\* As long as the test passes, its barriers are ahead or b does not hold.
BarrierInv ==
    \A b, p, c :
        CurrentCovered /\ BarrierIn(Current, p, b, c) /\ Fine(c) =>
            /\ phase = p => Reaches(todo, c) \/ Passed(b, c)
            /\ phase \in Later(p) => Passed(b, c)

(* Nothing is reached by a method that has ended. *)
LEMMA EndedReaches ==
  ASSUME NEW c, NEW q, q = << >>
  PROVE  ~Reaches(q, c)
BY DEF Reaches

\* Nothing in test t forgets a failure.
NoForget(t) == \E S : Covers(S, t) /\ \A s \in S : s.op # "forget"

(* A failure stays on record where nothing forgets it. *)
LEMMA NotedStays ==
  ASSUME CoverInv, Execute, NoForget(Current)
  PROVE  noted => noted'
<1>1. PICK S : Covers(S, Current) /\ \A s \in S : s.op # "forget"
  BY DEF NoForget
<1>2. todo # << >> /\ todo \in Seq(S)
  BY <1>1, ExecuteRunner DEF CoverInv
<1>3. todo[1].op # "forget"
  BY <1>1, <1>2, TailIs
<1> QED
  BY <1>2, <1>3, Effects

(* What is fine after a statement was so before it. *)
LEMMA FineBefore ==
  ASSUME CoverInv, Execute, NEW c, c.noting => NoForget(Current)
  PROVE  Fine(c)' => Fine(c)
<1>1. verdict' = "PASS" => verdict = "PASS"
  BY ExecuteRunner
<1>2. Unnoted(c)' => Unnoted(c)
  BY NotedStays DEF Unnoted
<1> QED
  BY <1>1, <1>2 DEF Fine

(* In the setUp of the first test every barrier is ahead. *)
LEMMA BarrierStart ==
  ASSUME Init
  PROVE  BarrierInv
<1> SUFFICES ASSUME NEW b, NEW p, NEW c, BarrierIn(Current, p, b, c)
             PROVE  /\ phase = p => Reaches(todo, c) \/ Passed(b, c)
                    /\ phase \in Later(p) => Passed(b, c)
  BY DEF BarrierInv
<1>1. phase = "setUp" /\ todo = Current.setUp
  BY DEF Init, Current
<1> QED
  BY <1>1 DEF BarrierIn, Later

(* Every step keeps the barriers of a passing test ahead or behind it. *)
LEMMA BarrierNext ==
  ASSUME RunnerInv, CoverInv, BarrierInv, [Next]_vars
  PROVE  BarrierInv'
<1> SUFFICES ASSUME NEW b, NEW p, NEW c, NEW S, Covers(S, Current'),
                    BarrierIn(Current', p, b, c), Fine(c)'
             PROVE  /\ phase' = p => Reaches(todo', c) \/ Passed(b, c)'
                    /\ phase' \in Later(p) => Passed(b, c)'
  BY DEF BarrierInv, CurrentCovered
<1> DEFINE G == /\ phase = p => Reaches(todo, c) \/ Passed(b, c)
                /\ phase \in Later(p) => Passed(b, c)
<1>1. UNCHANGED <<job, pos>> /\ Fine(c) => G
  <2>1. UNCHANGED <<job, pos>> => Current' = Current
    BY DEF Current
  <2> QED
    BY <2>1 DEF BarrierInv, CurrentCovered
<1>2. /\ Barrier(c, b) /\ p \in {"setUp", "test", "tearDown"} /\ c.set = {}
      /\ c.noting => NoForget(Current')
  BY DEF BarrierIn, Recording, NoForget
<1>3. todo = << >> => ~Reaches(todo, c)
  BY EndedReaches
<1>4. /\ UNCHANGED <<changed, attrs, noted>> => (Holding(b)' <=> Holding(b))
      /\ UNCHANGED <<verdict, noted>> => Fine(c) /\ verdict = "PASS"
  BY DEF Holding, Fine, Unnoted
<1>5. CASE Execute
  <2>1. UNCHANGED <<job, pos, phase>> /\ Current' = Current
    BY <1>5, ExecuteRunner
  <2>2. todo \in Seq(S) /\ Closed(S)
    BY <2>1 DEF CoverInv, Covers
  <2>3. G
    <3>1. Fine(c)
      BY <1>2, <1>5, <2>1, FineBefore
    <3> QED
      BY <1>1, <2>1, <3>1
  <2>4. Reaches(todo, c) => Reaches(todo', c) \/ Passed(b, c)'
    <3>1. verdict' = "PASS" /\ Unnoted(c)' /\ c.set \subseteq attrs /\ Guards(c, b)
      BY <1>2 DEF Fine, Barrier
    <3> QED
      BY <1>2, <1>5, <2>2, <3>1, BarrierStep DEF Passed
  <2>5. Passed(b, c) => Passed(b, c)'
    BY <1>2, <1>5, QuietStep DEF Passed, Barrier
  <2> QED
    BY <2>1, <2>3, <2>4, <2>5
<1>6. CASE StartTestMethod
  <2>1. /\ phase = "setUp" /\ phase' = "test" /\ todo = << >> /\ todo' = Current.test
        /\ Current' = Current /\ UNCHANGED <<job, pos, changed, attrs, noted, verdict>>
    BY <1>6 DEF StartTestMethod, Current
  <2>2. G
    BY <1>1, <1>4, <2>1
  <2>3. CASE p = "setUp"
    BY <1>3, <1>4, <2>1, <2>2, <2>3 DEF Passed, BarrierIn
  <2>4. CASE p = "test"
    BY <2>1, <2>4 DEF BarrierIn, Later
  <2>5. CASE p = "tearDown"
    BY <2>1, <2>5 DEF Later
  <2> QED
    BY <1>2, <2>3, <2>4, <2>5
<1>7. CASE StartTearDown
  <2>1. /\ phase = "test" /\ phase' = "tearDown" /\ todo = << >> /\ todo' = Current.tearDown
        /\ Current' = Current /\ UNCHANGED <<job, pos, changed, attrs, noted, verdict>>
    BY <1>4, <1>7 DEF StartTearDown, Current
  <2>2. G
    BY <1>1, <1>4, <2>1
  <2>3. CASE p \in {"setUp", "test"}
    <3>1. Passed(b, c)
      BY <1>3, <2>1, <2>2, <2>3 DEF Later
    <3> QED
      BY <1>4, <2>1, <2>3, <3>1 DEF Passed, BarrierIn
  <2>4. CASE p = "tearDown"
    BY <2>1, <2>4 DEF BarrierIn, Later
  <2> QED
    BY <1>2, <2>3, <2>4
<1>8. CASE EndTest
  <2>1. /\ phase = "tearDown" /\ phase' \in {"ended", "over"} /\ todo = << >> /\ todo' = todo
        /\ UNCHANGED <<job, pos, changed, attrs, noted, verdict>>
    BY <1>8 DEF EndTest
  <2>2. G
    BY <1>1, <1>4, <2>1
  <2>3. Passed(b, c)
    BY <1>2, <1>3, <2>1, <2>2 DEF Later
  <2> QED
    BY <1>2, <1>4, <2>1, <2>3 DEF Passed
<1>9. CASE StartTest
  <2>1. phase' = "setUp" /\ todo' = Current'.setUp
    BY <1>9 DEF StartTest, Current
  <2> QED
    BY <2>1 DEF BarrierIn, Later
<1>10. CASE UNCHANGED vars
  BY <1>1, <1>4, <1>10 DEF vars, Passed
<1> QED
  BY <1>5, <1>6, <1>7, <1>8, <1>9, <1>10, NextCases


--------------------------------------------------------------------------------
(***************************************************************************)
(* A job that passes.                                                      *)
(***************************************************************************)

\* From test m on, a test that passes leaves r as the job found it.
Returned(J, r, m) ==
    /\ m \in 0 .. Len(J.tests)
    /\ m = 0 \/ ResetIn(J.tests[m], r)
    /\ \A i \in (m + 1) .. Len(J.tests) : ResetIn(J.tests[i], r) \/ KeptIn(J.tests[i], r)

\* o did not hold when the test started.
Fresh(o) ==
    \/ o = Noted
    \/ \E r, m, S : /\ o = Changed(r) /\ CoversAll(S, Jobs[job])
                    /\ Returned(Jobs[job], r, m) /\ clean /\ pos > m

\* As long as the test passes, a barrier follows where o begins to hold.
FollowInv ==
    \A o, b, w : Fresh(o) /\ FollowedIn(Current, o, b, w) =>
        Followed(todo, w) /\ (Fine(w.route) => Following(o, b, w))

\* In a job that passes, r is back at the end of each test from m on, and
\* stays so in a later test that does not touch it.
PassInv ==
    \A r, m :
        (\E S : CoversAll(S, Jobs[job])) /\ Returned(Jobs[job], r, m) /\ clean =>
            /\ phase \in {"ended", "over"} /\ pos >= m => r \notin changed
            /\ phase \notin {"ended", "over"} /\ pos > m /\ Untouched(Current, r)
                  => r \notin changed

(* Within a test what did not hold at its start does not change. *)
LEMMA FreshBefore ==
  ASSUME NEW o, UNCHANGED <<job, pos>>, clean' => clean
  PROVE  Fresh(o)' => Fresh(o)
BY DEF Fresh

(* The conditions that are followed are changes and records. *)
LEMMA FreshIs ==
  ASSUME NEW o, Fresh(o)
  PROVE  o.is \in {"changed", "noted"}
BY DEF Fresh, Changed, Noted

(* At the start of a test nothing is on record, and what the tests before  *)
(* it put back is so.                                                      *)
LEMMA FreshStart ==
  ASSUME RunnerInv, PassInv, StartTest, NEW o
  PROVE  Fresh(o)' => ~Holding(o)'
<1>1. /\ phase = "ended" /\ pos' = pos + 1 /\ job' = job /\ changed' = changed
      /\ clean' = clean /\ ~noted'
  BY DEF StartTest
<1>2. CASE o = Noted
  BY <1>1, <1>2 DEF Holding, Noted
<1>3. ASSUME NEW r, NEW m, NEW S, o = Changed(r), CoversAll(S, Jobs[job]),
             Returned(Jobs[job], r, m), clean, pos' > m
      PROVE  ~Holding(o)'
  <2>1. pos >= m
    BY <1>1, <1>3, JobsAssumption DEF RunnerInv, Returned
  <2>2. r \notin changed'
    BY <1>1, <1>3, <2>1 DEF PassInv
  <2> QED
    BY <1>3, <2>2 DEF Holding, Changed
<1> QED
  BY <1>1, <1>2, <1>3 DEF Fresh

(* Every step keeps a barrier ahead of what has begun to hold. *)
LEMMA FollowNext ==
  ASSUME RunnerInv, CoverInv, FollowInv, PassInv, [Next]_vars
  PROVE  FollowInv'
<1> SUFFICES ASSUME NEW o, NEW b, NEW w, Fresh(o)', FollowedIn(Current', o, b, w)
             PROVE  Followed(todo', w) /\ (Fine(w.route)' => Following(o, b, w)')
  BY DEF FollowInv
<1>1. UNCHANGED <<job, pos>> /\ (clean' => clean)
         => /\ Current' = Current /\ Fresh(o) /\ Followed(todo, w)
            /\ Fine(w.route) => Following(o, b, w)
  <2>1. UNCHANGED <<job, pos>> => Current' = Current
    BY DEF Current
  <2> QED
    BY <2>1, FreshBefore DEF FollowInv
<1>2. Followed(<< >>, w) /\ \A q \in {Current'.setUp, Current'.test, Current'.tearDown} :
                                Followed(q, w)
  BY DEF FollowedIn, Followed
<1>3. UNCHANGED <<changed, attrs, noted, verdict>>
         => (Holding(o)' <=> Holding(o)) /\ (Holding(b)' <=> Holding(b))
            /\ (Fine(w.route)' => Fine(w.route))
  BY DEF Holding, Fine, Unnoted
<1>4. CASE Execute
  <2>1. UNCHANGED <<job, pos, clean>> /\ Current' = Current
    BY <1>4, ExecuteRunner
  <2>2. FollowedIn(Current, o, b, w) /\ todo \in Seq(w.all) /\ Followed(todo, w)
    BY <1>1, <2>1 DEF CoverInv, FollowedIn
  <2>3. Followed(todo', w)
    BY <1>4, <2>2, FollowedStep
  <2>4. w.route.noting => NoForget(Current)
    BY <2>2 DEF FollowedIn, Recording, NoForget
  <2>5. ASSUME Fine(w.route)' PROVE Following(o, b, w)'
    <3>1. Following(o, b, w)
      BY <1>1, <1>4, <2>1, <2>4, <2>5, FineBefore
    <3>2. verdict' = "PASS" /\ Unnoted(w.route)'
      BY <2>5 DEF Fine
    <3>3. o.is \in {"changed", "noted"}
      BY <1>1, <2>1, FreshIs
    <3> QED
      BY <1>4, <2>2, <3>1, <3>2, <3>3, FollowingStep
  <2> QED
    BY <2>3, <2>5
<1>5. CASE StartTestMethod \/ StartTearDown \/ EndTest
  <2>1. /\ UNCHANGED <<job, pos, changed, attrs, noted, verdict>> /\ (clean' => clean)
        /\ todo = << >>
    <3>1. UNCHANGED <<job, pos, changed, attrs, noted, verdict>> /\ todo = << >>
      BY <1>5 DEF StartTestMethod, StartTearDown, EndTest
    <3>2. clean' => clean
      BY <1>5 DEF StartTestMethod, StartTearDown, EndTest
    <3> QED
      BY <3>1, <3>2
  <2>2. Current' = Current
    BY <1>1, <2>1
  <2>3. todo' \in {<< >>, Current'.test, Current'.tearDown}
    BY <1>5, <2>2 DEF StartTestMethod, StartTearDown, EndTest
  <2>4. Followed(todo', w)
    BY <1>2, <2>3
  <2>5. ~Reaches(todo, w.route)
    BY <2>1, EndedReaches
  <2> QED
    BY <1>1, <1>3, <2>1, <2>4, <2>5 DEF Following
<1>6. CASE StartTest
  <2>1. todo' = Current'.setUp
    BY <1>6 DEF StartTest, Current
  <2>2. ~Holding(o)'
    BY <1>6, FreshStart
  <2> QED
    BY <1>2, <2>1, <2>2 DEF Following
<1>7. CASE UNCHANGED vars
  <2>1. UNCHANGED <<job, pos, changed, attrs, noted, verdict, todo, clean>>
    BY <1>7 DEF vars
  <2> QED
    BY <1>1, <1>3, <2>1 DEF Following
<1> QED
  BY <1>4, <1>5, <1>6, <1>7, NextCases

(* When a test that passes ends, what it records has been reported. *)
LEMMA ReportedAtEnd ==
  ASSUME RunnerInv, BarrierInv, FollowInv, CurrentCovered, Reported(Current), verdict = "PASS",
         phase \in {"tearDown", "ended", "over"}, todo = << >>
  PROVE  ~noted
<1>1. ASSUME NEW p, NEW c, BarrierIn(Current, p, Noted, c), ~c.noting PROVE ~noted
  <2>1. Fine(c) /\ p \in {"setUp", "test", "tearDown"}
    BY <1>1 DEF Fine, Unnoted, BarrierIn
  <2>2. phase = p \/ phase \in Later(p)
    BY <2>1 DEF Later
  <2>3. Passed(Noted, c)
    BY <1>1, <2>1, <2>2, EndedReaches DEF BarrierInv
  <2> QED
    BY <2>3 DEF Passed, Holding, Noted
<1>2. ASSUME NEW w, FollowedIn(Current, Noted, Noted, w), ~w.route.noting PROVE ~noted
  <2>1. Fine(w.route) /\ Fresh(Noted)
    BY <1>2 DEF Fine, Unnoted, Fresh
  <2>2. Following(Noted, Noted, w)
    BY <1>2, <2>1 DEF FollowInv
  <2>3. ~Holding(Noted)
    BY <2>2, EndedReaches DEF Following
  <2> QED
    BY <2>3 DEF Holding, Noted
<1> QED
  BY <1>1, <1>2 DEF Reported

\* The test passes so far, and nothing it will have to report is on record.
Good == verdict = "PASS" /\ (NoForget(Current) /\ Reported(Current) => ~noted)

\* tearDown puts r back when the attributes c.set are set, and they are.
Trusted(r, c) ==
    /\ Gated(Current, r, c) /\ Usable(Current, c)
    /\ \A a \in c.set : \/ EarlyFlag(Current, a)
                        \/ Fresh(Changed(r)) /\ LateFlag(Current, a, r)

\* As long as the test passes, tearDown has put r back or goes to do so.
GateInv ==
    \A r, c : CurrentCovered /\ Trusted(r, c) /\ Good /\ phase = "tearDown" =>
        Passed(Changed(r), c) \/ (c.set \subseteq attrs /\ Reaches(todo, c))

(* What is good for the test is fine for what it may use. *)
LEMMA GoodFine ==
  ASSUME Good, NEW c, Usable(Current, c), c.noting => NoForget(Current)
  PROVE  Fine(c)
BY DEF Good, Usable, Fine, Unnoted

(* What is good after a statement was so before it. *)
LEMMA GoodBefore ==
  ASSUME CoverInv, Execute
  PROVE  Good' => Good
<1>1. Current' = Current /\ (verdict' = "PASS" => verdict = "PASS")
  BY ExecuteRunner
<1>2. NoForget(Current) => (noted => noted')
  BY NotedStays
<1> QED
  BY <1>1, <1>2 DEF Good

(* An attribute that tearDown relies on is set, or r is as it was. *)
LEMMA FlagTrusted ==
  ASSUME RunnerInv, BarrierInv, FollowInv, CurrentCovered, Good, phase = "test", todo = << >>,
         NEW r, NEW a, \/ EarlyFlag(Current, a)
                       \/ Fresh(Changed(r)) /\ LateFlag(Current, a, r)
  PROVE  a \in attrs \/ r \notin changed
<1>1. CASE EarlyFlag(Current, a)
  <2>1. PICK p, c : /\ p \in {"setUp", "test"} /\ BarrierIn(Current, p, Unset(a), c)
                    /\ Usable(Current, c)
    BY <1>1 DEF EarlyFlag
  <2>2. Fine(c)
    BY <2>1, GoodFine DEF BarrierIn, Recording, NoForget
  <2>3. Passed(Unset(a), c)
    BY <2>1, <2>2, EndedReaches DEF BarrierInv, Later
  <2> QED
    BY <2>3 DEF Passed, Holding, Unset
<1>2. CASE Fresh(Changed(r)) /\ LateFlag(Current, a, r)
  <2>1. PICK w : FollowedIn(Current, Changed(r), Unset(a), w) /\ Usable(Current, w.route)
    BY <1>2 DEF LateFlag
  <2>2. w.route.noting => NoForget(Current)
    BY <2>1 DEF FollowedIn, Recording, NoForget
  <2>3. Fine(w.route)
    BY <2>1, <2>2, GoodFine
  <2>4. Following(Changed(r), Unset(a), w)
    BY <1>2, <2>1, <2>3 DEF FollowInv
  <2>5. ~Holding(Changed(r)) \/ ~Holding(Unset(a))
    BY <2>4, EndedReaches DEF Following
  <2> QED
    BY <2>5 DEF Holding, Changed, Unset
<1> QED
  BY <1>1, <1>2

(* Every step of tearDown goes on to put r back, or has done so. *)
LEMMA GateNext ==
  ASSUME RunnerInv, CoverInv, BarrierInv, FollowInv, GateInv, [Next]_vars
  PROVE  GateInv'
<1> SUFFICES ASSUME NEW r, NEW c, CurrentCovered', Trusted(r, c)', Good', phase' = "tearDown"
             PROVE  Passed(Changed(r), c)' \/ (c.set \subseteq attrs' /\ Reaches(todo', c))
  BY DEF GateInv
<1> DEFINE b == Changed(r)
<1>1. UNCHANGED <<job, pos, clean>>
         => Current' = Current /\ CurrentCovered /\ Trusted(r, c)
  <2>1. UNCHANGED <<job, pos>> => Current' = Current
    BY DEF Current
  <2>2. UNCHANGED <<job, pos, clean>> /\ Fresh(b)' => Fresh(b)
    BY FreshBefore
  <2> QED
    BY <2>1, <2>2 DEF CurrentCovered, Trusted
<1>2. /\ Gated(Current', r, c) /\ Usable(Current', c) /\ (c.noting => NoForget(Current'))
      /\ Barrier(c, b) /\ Guards(c, b)
  BY DEF Trusted, Gated, Barrier, Recording, NoForget
<1>3. CASE Execute
  <2>1. UNCHANGED <<job, pos, clean, phase>> /\ Current' = Current
    BY <1>3, ExecuteRunner
  <2>2. PICK S : Covers(S, Current)
    BY <1>1, <2>1 DEF CurrentCovered
  <2>3. todo \in Seq(S) /\ Closed(S)
    BY <2>2 DEF CoverInv, Covers
  <2>4. Passed(b, c) \/ (c.set \subseteq attrs /\ Reaches(todo, c))
    BY <1>1, <1>3, <2>1, GoodBefore DEF GateInv
  <2>5. CASE Passed(b, c)
    BY <1>2, <1>3, <2>5, QuietStep DEF Passed, Barrier
  <2>6. CASE c.set \subseteq attrs /\ Reaches(todo, c)
    <3>1. verdict' = "PASS" /\ Unnoted(c)'
      BY <1>2, <2>1 DEF Good, Usable, Unnoted
    <3>2. Reaches(todo', c) \/ Passed(b, c)'
      BY <1>2, <1>3, <2>3, <2>6, <3>1, BarrierStep DEF Passed
    <3>3. c.set \subseteq attrs'
      BY <1>2, <1>3, <2>3, <2>6, SetStays
    <3> QED
      BY <3>2, <3>3
  <2> QED
    BY <2>4, <2>5, <2>6
<1>4. CASE StartTearDown
  <2>1. /\ UNCHANGED <<job, pos, clean, changed, attrs, noted, verdict>> /\ todo = << >>
        /\ todo' = Current.tearDown /\ (phase = "test" \/ verdict # "PASS")
    BY <1>4 DEF StartTearDown
  <2>2. Current' = Current /\ CurrentCovered /\ Trusted(r, c)
    BY <1>1, <2>1
  <2>3. Good /\ phase = "test"
    BY <2>1, <2>2 DEF Good
  <2>4. CASE r \notin changed
    BY <1>2, <2>1, <2>2, <2>4 DEF Passed, Holding, Changed, Gated
  <2>5. CASE r \in changed
    <3>1. \A a \in c.set : a \in attrs
      BY <2>1, <2>2, <2>3, <2>5, FlagTrusted DEF Trusted
    <3>2. Reaches(todo', c)
      BY <1>2, <2>1, <2>2 DEF Gated
    <3> QED
      BY <2>1, <3>1, <3>2
  <2> QED
    BY <2>4, <2>5
<1>5. CASE StartTestMethod \/ EndTest \/ StartTest
  BY <1>5 DEF StartTestMethod, EndTest, StartTest
<1>6. CASE UNCHANGED vars
  <2>1. UNCHANGED <<job, pos, clean, phase, changed, attrs, noted, verdict, todo>>
    BY <1>6 DEF vars
  <2>2. Current' = Current /\ CurrentCovered /\ Trusted(r, c) /\ Good
    BY <1>1, <2>1 DEF Good
  <2> QED
    BY <2>1, <2>2 DEF GateInv, Passed, Holding
<1> QED
  BY <1>3, <1>4, <1>5, <1>6, NextCases

(* A test that does not change r leaves it alone. *)
LEMMA UntouchedStep ==
  ASSUME CoverInv, Execute, NEW r, Untouched(Current, r), r \notin changed
  PROVE  r \notin changed'
<1>1. PICK S : Covers(S, Current) /\ r \notin Footprint(S)
  BY DEF Untouched
<1>2. todo \in Seq(S) /\ Closed(S)
  BY <1>1 DEF CoverInv, Covers
<1> QED
  BY <1>1, <1>2, FootStatement

(* When a test that passes ends, nothing is left to report. *)
LEMMA GoodAtEnd ==
  ASSUME RunnerInv, BarrierInv, FollowInv, CurrentCovered, verdict = "PASS",
         phase = "tearDown", todo = << >>
  PROVE  Good
BY ReportedAtEnd DEF Good

(* When a test that passes ends, what it resets is back. *)
LEMMA ResetAtEnd ==
  ASSUME RunnerInv, BarrierInv, FollowInv, GateInv, CurrentCovered, NEW r, verdict = "PASS",
         phase = "tearDown", todo = << >>
  PROVE  /\ ResetIn(Current, r) => r \notin changed
         /\ KeptIn(Current, r) /\ Fresh(Changed(r)) => Untouched(Current, r) \/ r \notin changed
<1>1. Good /\ \A c : ~Reaches(todo, c)
  BY GoodAtEnd, EndedReaches
<1>2. ASSUME NEW p, NEW c, p \in {"test", "tearDown"}, BarrierIn(Current, p, Changed(r), c),
             Usable(Current, c)
      PROVE  r \notin changed
  <2>1. Fine(c)
    BY <1>1, <1>2, GoodFine DEF BarrierIn, Recording, NoForget
  <2>2. Passed(Changed(r), c)
    BY <1>1, <1>2, <2>1 DEF BarrierInv, Later
  <2> QED
    BY <2>2 DEF Passed, Holding, Changed
<1>3. ASSUME NEW c, Trusted(r, c) PROVE r \notin changed
  <2>1. Passed(Changed(r), c)
    BY <1>1, <1>3 DEF GateInv
  <2> QED
    BY <2>1 DEF Passed, Holding, Changed
<1>4. ASSUME NEW w, FollowedIn(Current, Changed(r), Changed(r), w), Usable(Current, w.route),
             Fresh(Changed(r))
      PROVE  r \notin changed
  <2>1. w.route.noting => NoForget(Current)
    BY <1>4 DEF FollowedIn, Recording, NoForget
  <2>2. Fine(w.route)
    BY <1>1, <1>4, <2>1, GoodFine
  <2>3. Following(Changed(r), Changed(r), w)
    BY <1>4, <2>2 DEF FollowInv
  <2> QED
    BY <1>1, <2>3 DEF Following, Holding, Changed
<1>5. ResetIn(Current, r) => r \notin changed
  BY <1>2, <1>3 DEF ResetIn, Trusted
<1>6. KeptIn(Current, r) /\ Fresh(Changed(r)) => Untouched(Current, r) \/ r \notin changed
  BY <1>3, <1>4 DEF KeptIn, Trusted
<1> QED
  BY <1>5, <1>6

(* Every step of a job that passes keeps a resource that was put back so. *)
LEMMA PassNext ==
  ASSUME RunnerInv, CoverInv, BarrierInv, FollowInv, GateInv, PassInv, [Next]_vars
  PROVE  PassInv'
<1> SUFFICES ASSUME NEW r, NEW m, NEW S, CoversAll(S, Jobs[job']),
                    Returned(Jobs[job'], r, m), clean'
             PROVE  /\ phase' \in {"ended", "over"} /\ pos' >= m => r \notin changed'
                    /\ phase' \notin {"ended", "over"} /\ pos' > m /\ Untouched(Current', r)
                          => r \notin changed'
  BY DEF PassInv
<1>1. job' = job
  BY NextCases, ExecuteRunner DEF StartTestMethod, StartTearDown, EndTest, StartTest, vars
<1>2. clean
  BY NextCases, ExecuteRunner DEF StartTestMethod, StartTearDown, EndTest, StartTest, vars
<1>3. /\ phase \in {"ended", "over"} /\ pos >= m => r \notin changed
      /\ phase \notin {"ended", "over"} /\ pos > m /\ Untouched(Current, r) => r \notin changed
  BY <1>1, <1>2 DEF PassInv
<1>4. /\ m \in 0 .. Len(Jobs[job].tests) /\ pos \in 1 .. Len(Jobs[job].tests)
      /\ Len(Jobs[job].tests) \in Nat
  BY <1>1, JobsAssumption DEF RunnerInv, Returned
<1>5. CASE Execute
  <2>1. UNCHANGED <<job, pos, phase>> /\ Current' = Current /\ phase \notin {"ended", "over"}
    BY <1>5, ExecuteRunner DEF RunnerInv
  <2> QED
    BY <1>3, <1>5, <2>1, UntouchedStep
<1>6. CASE StartTestMethod \/ StartTearDown
  <2>1. /\ UNCHANGED <<job, pos, changed>> /\ Current' = Current
        /\ phase \notin {"ended", "over"} /\ phase' \notin {"ended", "over"}
    BY <1>6 DEF StartTestMethod, StartTearDown, Current
  <2> QED
    BY <1>3, <2>1
<1>7. CASE EndTest
  <2>1. /\ UNCHANGED <<job, pos, changed>> /\ phase = "tearDown" /\ todo = << >>
        /\ verdict = "PASS" /\ phase' \in {"ended", "over"}
    BY <1>7 DEF EndTest
  <2>2. Covers(S, Current)
    BY <1>1, <1>4 DEF CoversAll, Current
  <2>3. /\ ResetIn(Current, r) => r \notin changed
        /\ KeptIn(Current, r) /\ Fresh(Changed(r)) => Untouched(Current, r) \/ r \notin changed
    BY <2>1, <2>2, ResetAtEnd DEF CurrentCovered
  <2>4. pos = m => ResetIn(Current, r)
    BY <1>1, <1>4 DEF Returned, Current
  <2>5. pos > m => ResetIn(Current, r) \/ KeptIn(Current, r)
    BY <1>1, <1>4 DEF Returned, Current
  <2>6. pos > m => Fresh(Changed(r))
    BY <1>1, <1>2 DEF Fresh
  <2>7. pos >= m => pos = m \/ pos > m
    BY <1>4
  <2> QED
    BY <1>3, <2>1, <2>3, <2>4, <2>5, <2>7, <2>6
<1>8. CASE StartTest
  <2>1. pos' = pos + 1 /\ changed' = changed /\ phase = "ended" /\ phase' = "setUp"
    BY <1>8 DEF StartTest
  <2>2. pos' > m => pos >= m
    BY <1>4, <2>1
  <2> QED
    BY <1>3, <2>1, <2>2
<1>9. CASE UNCHANGED vars
  BY <1>3, <1>9 DEF vars, Current
<1> QED
  BY <1>5, <1>6, <1>7, <1>8, <1>9, NextCases


--------------------------------------------------------------------------------
(***************************************************************************)
(* A check that goes wrong.                                                *)
(***************************************************************************)
\* A check that went wrong is on record.
ReportInv ==
    /\ Silent(Current) => ~failed
    /\ Honest(Current) /\ failed => noted

(* Every step keeps what went wrong in an honest test on record. *)
LEMMA ReportNext ==
  ASSUME RunnerInv, CoverInv, ReportInv, [Next]_vars
  PROVE  ReportInv'
<1>1. CASE Execute
  <2>1. Current' = Current /\ todo # << >>
    BY <1>1, ExecuteRunner
  <2>2. \A S : Covers(S, Current) => todo \in Seq(S) /\ todo[1] \in S
    BY <2>1, TailIs DEF CoverInv
  <2>3. ASSUME Silent(Current) PROVE ~failed'
    <3>1. PICK S : Covers(S, Current) /\ \A s \in S : ~Notes(s) /\ ~Drops(s)
      BY <2>3 DEF Silent
    <3>2. todo \in Seq(S) /\ ~Notes(todo[1]) /\ ~Drops(todo[1])
      BY <2>2, <3>1
    <3> QED
      BY <1>1, <2>1, <2>3, <3>2, Effects DEF ReportInv
  <2>4. ASSUME Honest(Current), failed' PROVE noted'
    <3>1. PICK S : Covers(S, Current) /\ \A s \in S : s.op # "forget" /\ ~Drops(s)
      BY <2>4 DEF Honest
    <3>2. todo \in Seq(S) /\ todo[1].op # "forget" /\ ~Drops(todo[1])
      BY <2>2, <3>1
    <3> QED
      BY <1>1, <2>1, <2>4, <3>2, Effects DEF ReportInv
  <2> QED
    BY <2>1, <2>3, <2>4 DEF ReportInv
<1>2. CASE StartTest
  BY <1>2 DEF StartTest, ReportInv
<1>3. CASE UNCHANGED <<job, pos, noted, failed>>
  BY <1>3 DEF ReportInv, Current
<1> QED
  BY <1>1, <1>2, <1>3, NextCases DEF StartTestMethod, StartTearDown, EndTest, vars

--------------------------------------------------------------------------------
(***************************************************************************)
(* Flags that are set right after the change.                              *)
(***************************************************************************)

(* What is pending stays pending when something follows, or when something *)
(* calm comes before it.                                                   *)
LEMMA PendsJoined ==
  ASSUME NEW S, NEW x \in Seq(S), NEW q \in Seq(S), NEW w, NEW z, JoinOf(z, x, q, S)
  PROVE  /\ Pends(x, w) => Pends(z, w)
         /\ (\A i \in 1 .. Len(x) : x[i] \in w.calm) /\ Pends(q, w) => Pends(z, w)
<1>1. /\ Len(z) = Len(x) + Len(q) /\ Len(x) \in Nat /\ Len(q) \in Nat
      /\ \A i \in 1 .. Len(x) : z[i] = x[i]
      /\ \A i \in 1 .. Len(q) : z[Len(x) + i] = q[i]
      /\ \A i \in (Len(x) + 1) .. Len(z) : z[i] = q[i - Len(x)]
  BY DEF JoinOf
<1>2. ASSUME Pends(x, w) PROVE Pends(z, w)
  <2>1. PICK n \in 1 .. Len(x) : x[n] \in w.settlers /\ \A i \in 1 .. (n - 1) : x[i] \in w.calm
    BY <1>2 DEF Pends
  <2>2. n \in 1 .. Len(z) /\ z[n] = x[n] /\ \A i \in 1 .. (n - 1) : z[i] = x[i]
    BY <1>1
  <2> QED
    BY <2>1, <2>2 DEF Pends
<1>3. ASSUME \A i \in 1 .. Len(x) : x[i] \in w.calm, Pends(q, w) PROVE Pends(z, w)
  <2>1. PICK n \in 1 .. Len(q) : q[n] \in w.settlers /\ \A i \in 1 .. (n - 1) : q[i] \in w.calm
    BY <1>3 DEF Pends
  <2>2. Len(x) + n \in 1 .. Len(z) /\ z[Len(x) + n] = q[n]
    BY <1>1
  <2>3. ASSUME NEW i \in 1 .. ((Len(x) + n) - 1) PROVE z[i] \in w.calm
    <3>1. CASE i <= Len(x)
      BY <1>1, <1>3, <3>1
    <3>2. CASE i > Len(x)
      <4>1. i \in (Len(x) + 1) .. Len(z) /\ i - Len(x) \in 1 .. (n - 1)
        BY <1>1, <3>2
      <4> QED
        BY <1>1, <2>1, <4>1
    <3> QED
      BY <3>1, <3>2, <1>1
  <2> QED
    BY <2>1, <2>2, <2>3 DEF Pends
<1> QED
  BY <1>2, <1>3

(* The end of a covered sequence is covered. *)
LEMMA CoveredRest ==
  ASSUME NEW S, NEW q \in Seq(S), NEW w, Covered(q, w), NEW m \in 1 .. (Len(q) + 1)
  PROVE  Covered(SubSeq(q, m, Len(q)), w)
<1> DEFINE z == SubSeq(q, m, Len(q))
<1>1. /\ Len(q) \in Nat /\ Len(z) = Len(q) - m + 1
      /\ \A i \in 1 .. Len(z) : z[i] = q[i + m - 1]
  OBVIOUS
<1> HIDE DEF z
<1>2. SUFFICES ASSUME NEW i \in 1 .. Len(z), z[i] \in w.openers
               PROVE  \E n \in (i + 1) .. Len(z) :
                         z[n] \in w.settlers /\ \A k \in (i + 1) .. (n - 1) : z[k] \in w.calm
  BY DEF Covered, z
<1>3. i + m - 1 \in 1 .. Len(q) /\ q[i + m - 1] \in w.openers
  BY <1>1, <1>2
<1>4. PICK n \in ((i + m - 1) + 1) .. Len(q) :
         q[n] \in w.settlers /\ \A k \in ((i + m - 1) + 1) .. (n - 1) : q[k] \in w.calm
  BY <1>3 DEF Covered
<1> DEFINE l == n - m + 1
<1>5. l \in (i + 1) .. Len(z) /\ l \in 1 .. Len(z) /\ l + m - 1 = n
  BY <1>1, <1>3
<1>6. z[l] = q[n]
  BY <1>1, <1>5
<1>7. ASSUME NEW k \in (i + 1) .. (l - 1) PROVE z[k] \in w.calm
  <2>1. k \in 1 .. Len(z) /\ k + m - 1 \in ((i + m - 1) + 1) .. (n - 1)
    BY <1>1, <1>3
  <2> QED
    BY <2>1, <1>1, <1>4
<1> HIDE DEF l
<1> QED
  BY <1>4, <1>5, <1>6, <1>7

(* A covered sequence in front of a covered one; and in front of a pending *)
(* one, a sequence in which everything behind an opener is calm.           *)
LEMMA CoveredJoined ==
  ASSUME NEW S, NEW x \in Seq(S), NEW q \in Seq(S), NEW w, NEW z, JoinOf(z, x, q, S), Covered(q, w)
  PROVE  /\ Covered(x, w) => Covered(z, w)
         /\ /\ Pends(q, w)
            /\ \A i \in 1 .. Len(x) : x[i] \in w.openers
                  => \A k \in (i + 1) .. Len(x) : x[k] \in w.calm
            => Covered(z, w)
<1>1. /\ Len(z) = Len(x) + Len(q) /\ Len(x) \in Nat /\ Len(q) \in Nat
      /\ \A i \in 1 .. Len(x) : z[i] = x[i]
      /\ \A i \in 1 .. Len(q) : z[Len(x) + i] = q[i]
      /\ \A i \in (Len(x) + 1) .. Len(z) : z[i] = q[i - Len(x)]
  BY DEF JoinOf
<1> DEFINE At1(i) == \E n \in (i + 1) .. Len(z) :
                        z[n] \in w.settlers /\ \A k \in (i + 1) .. (n - 1) : z[k] \in w.calm
<1>2. ASSUME NEW i \in (Len(x) + 1) .. Len(z), z[i] \in w.openers PROVE At1(i)
  <2> DEFINE j == i - Len(x)
  <2>1. j \in 1 .. Len(q) /\ q[j] \in w.openers /\ Len(x) + j = i
    BY <1>1, <1>2
  <2> HIDE DEF j
  <2>2. PICK n \in (j + 1) .. Len(q) :
           q[n] \in w.settlers /\ \A k \in (j + 1) .. (n - 1) : q[k] \in w.calm
    BY <2>1 DEF Covered
  <2>3. Len(x) + n \in (i + 1) .. Len(z) /\ z[Len(x) + n] = q[n]
    BY <1>1, <2>1
  <2>4. ASSUME NEW k \in (i + 1) .. ((Len(x) + n) - 1) PROVE z[k] \in w.calm
    <3>1. k \in (Len(x) + 1) .. Len(z) /\ k - Len(x) \in (j + 1) .. (n - 1)
      BY <1>1, <2>1
    <3> QED
      BY <3>1, <1>1, <2>2
  <2> QED
    BY <2>2, <2>3, <2>4
<1>3. ASSUME NEW i \in 1 .. Len(x), x[i] \in w.openers, Covered(x, w) PROVE At1(i)
  <2>1. PICK n \in (i + 1) .. Len(x) :
           x[n] \in w.settlers /\ \A k \in (i + 1) .. (n - 1) : x[k] \in w.calm
    BY <1>3 DEF Covered
  <2>2. n \in (i + 1) .. Len(z) /\ z[n] = x[n] /\ \A k \in (i + 1) .. (n - 1) : z[k] = x[k]
    BY <1>1
  <2> QED
    BY <2>1, <2>2
<1>4. ASSUME NEW i \in 1 .. Len(x), Pends(q, w), \A k \in (i + 1) .. Len(x) : x[k] \in w.calm
      PROVE  At1(i)
  <2>1. PICK n \in 1 .. Len(q) : q[n] \in w.settlers /\ \A k \in 1 .. (n - 1) : q[k] \in w.calm
    BY <1>4 DEF Pends
  <2>2. Len(x) + n \in (i + 1) .. Len(z) /\ z[Len(x) + n] = q[n]
    BY <1>1
  <2>3. ASSUME NEW k \in (i + 1) .. ((Len(x) + n) - 1) PROVE z[k] \in w.calm
    <3>1. CASE k <= Len(x)
      BY <1>1, <1>4, <3>1
    <3>2. CASE k > Len(x)
      <4>1. k \in (Len(x) + 1) .. Len(z) /\ k - Len(x) \in 1 .. (n - 1)
        BY <1>1, <3>2
      <4> QED
        BY <1>1, <2>1, <4>1
    <3> QED
      BY <3>1, <3>2, <1>1
  <2> QED
    BY <2>1, <2>2, <2>3
<1>5. ASSUME NEW i \in 1 .. Len(z)
      PROVE  (i \in 1 .. Len(x) /\ z[i] = x[i]) \/ i \in (Len(x) + 1) .. Len(z)
  BY <1>1
<1> HIDE DEF At1
<1>6. (\A i \in 1 .. Len(z) : z[i] \in w.openers => At1(i)) => Covered(z, w)
  BY DEF Covered, At1
<1> QED
  BY <1>2, <1>3, <1>4, <1>5, <1>6

(* Behind an opener something is pending; what is pending stands at the    *)
(* head, or the head is calm.                                              *)
LEMMA PendsRest ==
  ASSUME NEW S, NEW q \in Seq(S), q # << >>, NEW w
  PROVE  /\ Covered(q, w) /\ q[1] \in w.openers => Pends(SubSeq(q, 2, Len(q)), w)
         /\ Pends(q, w) /\ q[1] \notin w.settlers
               => q[1] \in w.calm /\ Pends(SubSeq(q, 2, Len(q)), w)
<1> DEFINE z == SubSeq(q, 2, Len(q))
<1>1. /\ Len(q) \in Nat /\ Len(q) >= 1 /\ Len(z) = Len(q) - 1
      /\ \A i \in 1 .. Len(z) : z[i] = q[i + 1]
  <2>1. z = Tail(q)
    BY TailIs
  <2> HIDE DEF z
  <2> QED
    BY <2>1, TailIs
<1> HIDE DEF z
<1>2. ASSUME NEW n \in 2 .. Len(q), q[n] \in w.settlers, \A k \in 2 .. (n - 1) : q[k] \in w.calm
      PROVE  Pends(z, w)
  <2>1. n - 1 \in 1 .. Len(z) /\ z[n - 1] = q[n]
    <3>1. n - 1 \in 1 .. Len(z) /\ (n - 1) + 1 = n
      BY <1>1
    <3> QED
      BY <3>1, <1>1
  <2>2. ASSUME NEW i \in 1 .. ((n - 1) - 1) PROVE z[i] \in w.calm
    <3>1. i \in 1 .. Len(z) /\ i + 1 \in 2 .. (n - 1)
      BY <1>1
    <3> QED
      BY <3>1, <1>1, <1>2
  <2> QED
    BY <1>2, <2>1, <2>2 DEF Pends
<1>3. Covered(q, w) /\ q[1] \in w.openers => Pends(z, w)
  <2>1. 1 \in 1 .. Len(q) /\ 1 + 1 = 2
    BY <1>1
  <2> QED
    BY <2>1, <1>2 DEF Covered
<1>4. Pends(q, w) /\ q[1] \notin w.settlers => q[1] \in w.calm /\ Pends(z, w)
  <2>1. SUFFICES ASSUME Pends(q, w), q[1] \notin w.settlers PROVE q[1] \in w.calm /\ Pends(z, w)
    OBVIOUS
  <2>2. PICK n \in 1 .. Len(q) : q[n] \in w.settlers /\ \A i \in 1 .. (n - 1) : q[i] \in w.calm
    BY <2>1 DEF Pends
  <2>3. n \in 2 .. Len(q)
    BY <2>1, <2>2
  <2> QED
    BY <2>2, <2>3, <1>2
<1> QED
  BY <1>3, <1>4 DEF z

\* r is as the job found it, or could not be put back.
Ok(r) == r \notin changed \/ stuck

\* b does not hold, or r needs nothing.
Settled(b, r) == ~Holding(b) \/ Ok(r)

(* What is not an opener is covered. *)
LEMMA CoveredFree ==
  ASSUME NEW q, NEW w, \A i \in 1 .. Len(q) : q[i] \notin w.openers
  PROVE  Covered(q, w)
BY DEF Covered

(* Statements of a covered script stay covered. *)
LEMMA CoveredStep ==
  ASSUME NEW t, NEW b, NEW r, NEW w, SettledAfter(t, b, r, w),
         todo \in Seq(w.all), Execute, Covered(todo, w)
  PROVE  Covered(todo', w)
<1> DEFINE s == todo[1]
           rest == SubSeq(todo, 2, Len(todo))
<1>1. todo # << >> /\ Len(todo) \in Nat /\ Len(todo) >= 1 /\ s \in w.all
  BY ExecuteCases, TailIs
<1>2. Closed(w.all)
  BY DEF SettledAfter, Covers
<1>3. \A m \in 1 .. (Len(todo) + 1) :
         SubSeq(todo, m, Len(todo)) \in Seq(w.all) /\ Covered(SubSeq(todo, m, Len(todo)), w)
  <2>1. \A m \in 1 .. (Len(todo) + 1) : SubSeq(todo, m, Len(todo)) \in Seq(w.all)
    BY RestIn
  <2>2. \A m \in 1 .. (Len(todo) + 1) : Covered(SubSeq(todo, m, Len(todo)), w)
    BY CoveredRest
  <2> QED
    BY <2>1, <2>2
<1>4. rest \in Seq(w.all) /\ Covered(rest, w)
  <2>1. 2 \in 1 .. (Len(todo) + 1)
    BY <1>1
  <2> QED
    BY <1>3, <2>1
<1> HIDE DEF rest
<1>5. /\ \A q \in Nested(s) : q \in Seq(w.all)
      /\ s \notin w.openers => \A q \in Nested(s) : Covered(q, w)
      /\ s \in w.openers => /\ Pends(rest, w)
                            /\ \A q \in Nested(s) : \A i \in 1 .. Len(q) : q[i] \in w.openers
                                  => \A k \in (i + 1) .. Len(q) : q[k] \in w.calm
  <2>1. s \in w.openers => Pends(rest, w)
    BY <1>1, PendsRest DEF rest
  <2> QED
    BY <1>1, <1>2, <2>1 DEF SettledAfter, Closed
<1> DEFINE e == << End >>
<1>6. /\ e \in Seq(w.all) /\ Len(e) = 1 /\ e[1] = End /\ End \notin w.openers /\ End \in w.calm
  BY <1>2, Single DEF Closed, SettledAfter
<1>7. Covered(e, w)
  <2>1. \A i \in 1 .. Len(e) : e[i] \notin w.openers
    BY <1>6
  <2> QED
    BY <2>1, CoveredFree
<1> HIDE DEF e
<1>8. CASE \E x : Becomes(s, x) /\ todo' = x \o rest
  <2>1. PICK x : Becomes(s, x) /\ todo' = x \o rest
    BY <1>8
  <2>2. CASE x = << >>
    <3>1. x \in Seq(w.all) /\ Covered(x, w)
      BY <2>2 DEF Covered
    <3> QED
      BY <2>1, <3>1, <1>4, Joined, CoveredJoined
  <2>3. CASE x \in Nested(s)
    <3>1. x \in Seq(w.all) /\ JoinOf(x \o rest, x, rest, w.all)
      BY <1>4, <1>5, <2>3, Joined
    <3> QED
      BY <1>4, <1>5, <2>1, <2>3, <3>1, CoveredJoined
  <2>4. CASE \E q \in Nested(s) : x = q \o e
    <3>1. PICK q \in Nested(s) : x = q \o e
      BY <2>4
    <3>2. q \in Seq(w.all) /\ JoinOf(x, q, e, w.all)
      BY <1>5, <1>6, <3>1, Joined
    <3>3. x \in Seq(w.all)
      BY <3>2 DEF JoinOf
    <3>4. JoinOf(x \o rest, x, rest, w.all)
      BY <1>4, <3>3, Joined
    <3>5. s \notin w.openers => Covered(x, w)
      BY <1>5, <1>6, <1>7, <3>2, CoveredJoined
    <3>6. s \in w.openers => \A i \in 1 .. Len(x) : x[i] \in w.openers
                                => \A k \in (i + 1) .. Len(x) : x[k] \in w.calm
      <4>1. SUFFICES ASSUME s \in w.openers, NEW i \in 1 .. Len(x), x[i] \in w.openers,
                            NEW k \in (i + 1) .. Len(x)
                     PROVE  x[k] \in w.calm
        OBVIOUS
      <4>2. /\ Len(x) = Len(q) + 1 /\ Len(q) \in Nat /\ x[Len(q) + 1] = End
            /\ \A j \in 1 .. Len(q) : x[j] = q[j]
        BY <1>6, <3>2 DEF JoinOf
      <4>3. i \in 1 .. Len(q) /\ q[i] \in w.openers
        BY <1>6, <4>1, <4>2
      <4>4. \A j \in (i + 1) .. Len(q) : q[j] \in w.calm
        BY <1>5, <4>1, <4>3
      <4>5. k \in (i + 1) .. Len(q) \/ k = Len(q) + 1
        BY <4>2, <4>3
      <4> QED
        BY <1>6, <4>2, <4>3, <4>4, <4>5
    <3> QED
      BY <1>4, <1>5, <2>1, <3>3, <3>4, <3>5, <3>6, CoveredJoined
  <2> QED
    BY <2>1, <2>2, <2>3, <2>4, BecomesNested DEF e
<1>9. CASE \E k : Throws(s, k) /\ Throw(k)
  <2>1. PICK k : Throws(s, k) /\ Throw(k)
    BY <1>9
  <2>2. k \in Any
    BY <1>1, <1>2, <2>1 DEF Throws, Closed, Any
  <2>3. CASE todo' = << >>
    BY <2>3 DEF Covered
  <2>4. CASE \E i \in 2 .. Len(todo) :
               /\ Handles(todo[i], k)
               /\ todo' = todo[i].handler \o Again(todo[i], k) \o SubSeq(todo, i + 1, Len(todo))
    <3>1. PICK i \in 2 .. Len(todo) :
               /\ Handles(todo[i], k)
               /\ todo' = todo[i].handler \o Again(todo[i], k) \o SubSeq(todo, i + 1, Len(todo))
      BY <2>4
    <3> DEFINE y == Again(todo[i], k)
    <3>2. todo[i] \in w.all /\ todo[i].op \in Markers
      BY <3>1, <1>1 DEF Handles, Markers
    <3>3. todo[i] \notin w.openers
      BY <3>2 DEF SettledAfter, Markers, Branches, Bodies
    <3>4. todo[i].handler \in Seq(w.all) /\ Covered(todo[i].handler, w)
      BY <1>2, <3>2, <3>3, NestedIs DEF Closed, SettledAfter
    <3>5. Raise(k) \in w.all /\ Raise(k) \notin w.openers
      BY <1>2, <2>2 DEF Closed, SettledAfter
    <3>6. y \in Seq(w.all) /\ \A j \in 1 .. Len(y) : y[j] \notin w.openers
      <4>1. CASE todo[i].op = "catch"
        BY <4>1 DEF Again
      <4>2. CASE todo[i].op # "catch"
        <5>1. y = << Raise(k) >>
          BY <4>2 DEF Again
        <5>2. y \in Seq(w.all) /\ Len(y) = 1 /\ y[1] = Raise(k)
          BY <3>5, <5>1, Single
        <5> QED
          BY <3>5, <5>2
      <4> QED
        BY <4>1, <4>2
    <3>7. Covered(y, w)
      BY <3>6, CoveredFree
    <3>8. i + 1 \in 1 .. (Len(todo) + 1)
      BY <1>1
    <3> DEFINE h == todo[i].handler
               over == SubSeq(todo, i + 1, Len(todo))
    <3>9. over \in Seq(w.all) /\ Covered(over, w)
      BY <1>3, <3>8
    <3>10. todo' = (h \o y) \o over /\ h \in Seq(w.all) /\ Covered(h, w)
      BY <3>1, <3>4
    <3> HIDE DEF h, over, y
    <3>11. JoinOf(h \o y, h, y, w.all)
      BY <3>6, <3>10, Joined
    <3>12. h \o y \in Seq(w.all) /\ Covered(h \o y, w)
      BY <3>6, <3>7, <3>10, <3>11, CoveredJoined DEF JoinOf
    <3>13. JoinOf((h \o y) \o over, h \o y, over, w.all)
      BY <3>9, <3>12, Joined
    <3> QED
      BY <3>9, <3>10, <3>12, <3>13, CoveredJoined
  <2> QED
    BY <1>1, <2>1, <2>3, <2>4, ThrowCases
<1>10. CASE Leave
  <2>1. CASE todo' = << >>
    BY <2>1 DEF Covered
  <2>2. CASE \E i \in 2 .. Len(todo) : todo' = SubSeq(todo, i + 1, Len(todo))
    <3>1. \A i \in 2 .. Len(todo) : i + 1 \in 1 .. (Len(todo) + 1)
      BY <1>1
    <3> QED
      BY <1>3, <2>2, <3>1
  <2> QED
    BY <1>1, <1>10, <2>1, <2>2, LeaveCases
<1> QED
  BY <1>8, <1>9, <1>10, ExecuteCases DEF rest

(* A command that changes something works or goes wrong. *)
LEMMA ChangeStep ==
  ASSUME NEW S, todo \in Seq(S), Execute, todo # << >>, todo[1].op = "change"
  PROVE  /\ todo' = SubSeq(todo, 2, Len(todo)) \/ changed' = changed
         /\ attrs' = attrs /\ (stuck => stuck')
<1>1. Head(todo) = todo[1] /\ Tail(todo) = SubSeq(todo, 2, Len(todo))
  BY TailIs
<1>2. CommandWorks \/ CommandGoesWrong
  BY <1>1 DEF Execute, SetAttribute, ReadAttribute, Branch,
         Decide, RecordFailure, Control, LeaveMethod, RaiseException, At
<1>3. todo' = SubSeq(todo, 2, Len(todo)) \/ changed' = changed
  BY <1>1, <1>2 DEF CommandWorks, CommandGoesWrong, Continue
<1>4. attrs' = attrs /\ (stuck => stuck')
  BY Effects
<1> QED
  BY <1>3, <1>4

(* What is settled stays so, unless an opener leaves something pending. *)
LEMMA StaysSettled ==
  ASSUME NEW t, NEW b, NEW r, NEW w, SettledAfter(t, b, r, w),
         todo \in Seq(w.all), Execute, Covered(todo, w), Settled(b, r)
  PROVE  Settled(b, r)' \/ Pends(todo', w)
<1>1. todo # << >> /\ todo[1] \in w.all
  BY ExecuteCases, TailIs
<1>2. b = Changed(r) \/ (b.is = "unset" /\ ~Spoils(todo[1], b))
  BY <1>1 DEF SettledAfter
<1>3. b.is \in {"changed", "unset"}
  BY <1>2 DEF Changed
<1>4. CASE todo[1] \notin w.openers
  <2>1. ~Spoils(todo[1], Changed(r))
    BY <1>1, <1>4 DEF SettledAfter
  <2>2. ~Holding(b) => ~Holding(b)'
    BY <1>1, <1>2, <2>1, Unspoiled
  <2>3. r \notin changed => r \notin changed'
    BY <1>1, <2>1, Effects DEF Spoils, Changed
  <2>4. stuck => stuck'
    BY <1>1, Effects
  <2> QED
    BY <2>2, <2>3, <2>4 DEF Settled, Ok
<1>5. CASE todo[1] \in w.openers /\ todo[1].op = "change"
  <2>1. Pends(SubSeq(todo, 2, Len(todo)), w)
    BY <1>1, <1>5, PendsRest
  <2>2. CASE todo' = SubSeq(todo, 2, Len(todo))
    BY <2>1, <2>2
  <2>3. CASE changed' = changed /\ attrs' = attrs /\ (stuck => stuck')
    BY <1>3, <2>3 DEF Settled, Ok, Holding
  <2> QED
    BY <1>1, <1>5, <2>2, <2>3, ChangeStep
<1>6. CASE todo[1] \in w.openers /\ todo[1].op # "change"
  <2>1. todo[1].op \in Branches \cup Bodies
    BY <1>6 DEF SettledAfter
  <2>2. UNCHANGED <<changed, attrs, stuck>>
    BY <1>1, <2>1, BranchStep
  <2> QED
    BY <1>3, <2>2 DEF Settled, Ok, Holding
<1> QED
  BY <1>4, <1>5, <1>6

(* What is pending goes on to what settles it. *)
LEMMA GetsSettled ==
  ASSUME NEW t, NEW b, NEW r, NEW w, SettledAfter(t, b, r, w),
         todo \in Seq(w.all), Execute, Pends(todo, w), ~Settled(b, r)
  PROVE  Settled(b, r)' \/ Pends(todo', w)
<1> DEFINE s == todo[1]
           rest == SubSeq(todo, 2, Len(todo))
<1>1. todo # << >> /\ s \in w.all
  BY ExecuteCases, TailIs
<1>2. rest \in Seq(w.all)
  <2>1. 2 \in 1 .. (Len(todo) + 1)
    BY <1>1, TailIs
  <2> QED
    BY <2>1, RestIn
<1> HIDE DEF rest
<1>3. \A q \in Nested(s) : q \in Seq(w.all)
  BY <1>1 DEF SettledAfter, Covers, Closed
<1> DEFINE e == << End >>
<1>4. e \in Seq(w.all) /\ Len(e) = 1 /\ e[1] = End /\ End \in w.calm
  BY Single DEF SettledAfter, Covers, Closed
<1> HIDE DEF e
<1>5. CASE s \notin w.settlers
  <2>1. s \in w.calm /\ Pends(rest, w)
    BY <1>1, <1>5, PendsRest DEF rest
  <2>2. /\ s.op \notin {"raise", "return", "use"}
        /\ s.op \in Commands => s.on # "return"
        /\ s.op \in {"run", "change"} => s.on \notin Any
        /\ Nested(s) \subseteq Seq(w.calm)
    BY <2>1 DEF SettledAfter
  <2>3. CASE \E x : Becomes(s, x) /\ todo' = x \o rest
    <3>1. PICK x : Becomes(s, x) /\ todo' = x \o rest
      BY <2>3
    <3>2. \/ x = << >> \/ x \in Nested(s)
          \/ \E q \in Nested(s) : x = q \o e
      BY <3>1, BecomesNested DEF e
    <3>3. x \in Seq(w.all) /\ \A i \in 1 .. Len(x) : x[i] \in w.calm
      <4>1. CASE x = << >>
        BY <4>1
      <4>2. CASE x \in Nested(s)
        BY <1>3, <2>2, <4>2
      <4>3. CASE \E q \in Nested(s) : x = q \o e
        <5>1. PICK q \in Nested(s) : x = q \o e
          BY <4>3
        <5>2. JoinOf(x, q, e, w.all)
          BY <1>3, <1>4, <5>1, Joined
        <5>3. \A i \in 1 .. Len(q) : q[i] \in w.calm
          BY <2>2, <5>1
        <5> QED
          BY <1>4, <5>2, <5>3 DEF JoinOf
      <4> QED
        BY <3>2, <4>1, <4>2, <4>3
    <3>4. JoinOf(x \o rest, x, rest, w.all)
      BY <1>2, <3>3, Joined
    <3> QED
      BY <1>2, <2>1, <3>1, <3>3, <3>4, PendsJoined
  <2>4. CASE \E k : Throws(s, k)
    <3>1. stuck'
      BY <2>2, <2>4 DEF Throws, Commands
    <3> QED
      BY <3>1 DEF Settled, Ok
  <2>5. ~Returns(s)
    BY <2>2 DEF Returns
  <2> QED
    BY <2>3, <2>4, <2>5, ExecuteCases DEF rest
<1>6. CASE Settles(s, b)
  <2>1. CASE b.is = "unset" /\ s.op = "assign" /\ s.attr = b.of
    <3>1. b.of \in attrs'
      BY <1>1, <2>1, AssignStep
    <3> QED
      BY <2>1, <3>1 DEF Settled, Holding
  <2>2. CASE b.is = "changed" /\ s.op = "restore" /\ s.res = b.of
    <3>1. b.of \notin changed' \/ stuck'
      BY <1>1, <2>2, RestoreStep
    <3> QED
      BY <2>2, <3>1 DEF Settled, Holding, Ok
  <2> QED
    BY <1>6, <2>1, <2>2 DEF Settles
<1>7. CASE s.op \in Branches \cup Bodies /\ \A q \in WaysWhile(s, b) : Pends(q, w)
  <2>1. PICK x : Becomes(s, x) /\ todo' = x \o rest
    BY <1>1, <1>7, BranchStep DEF rest
  <2>2. Holding(b)
    BY DEF Settled
  <2>3. x \in WaysWhile(s, b) \/ \E q \in WaysWhile(s, b) : x = q \o e
    <3>1. s.op \in Branches \cup Bodies
      BY <1>7
    <3>2. Becomes(s, x)
      BY <2>1
    <3>3. \/ x = << >> /\ s.op \notin Branches \cup Bodies
          \/ x \in WaysWhile(s, b) /\ s.op # "call"
          \/ \E q \in WaysWhile(s, b) : s.op = "call" /\ x = q \o << End >>
      BY <2>2, <3>2, BecomesWhile
    <3> QED
      BY <3>1, <3>3 DEF e
  <2>4. \A q \in WaysWhile(s, b) : q \in Seq(w.all) /\ Pends(q, w)
    <3>1. WaysWhile(s, b) \subseteq Nested(s)
      BY NestedIs DEF WaysWhile, Branches
    <3> QED
      BY <1>3, <1>7, <3>1
  <2>5. x \in Seq(w.all) /\ Pends(x, w)
    <3>1. CASE x \in WaysWhile(s, b)
      BY <2>4, <3>1
    <3>2. CASE \E q \in WaysWhile(s, b) : x = q \o e
      <4>1. PICK q \in WaysWhile(s, b) : x = q \o e
        BY <3>2
      <4>2. q \in Seq(w.all) /\ Pends(q, w) /\ JoinOf(x, q, e, w.all)
        BY <1>4, <2>4, <4>1, Joined
      <4>3. x \in Seq(w.all)
        BY <4>2 DEF JoinOf
      <4> QED
        BY <1>4, <4>2, <4>3, PendsJoined
    <3> QED
      BY <2>3, <3>1, <3>2
  <2>6. JoinOf(x \o rest, x, rest, w.all)
    BY <1>2, <2>5, Joined
  <2> QED
    BY <1>2, <2>1, <2>5, <2>6, PendsJoined
<1> QED
  BY <1>5, <1>6, <1>7 DEF SettledAfter

--------------------------------------------------------------------------------
(***************************************************************************)
(* What tearDown puts back.                                                *)
(***************************************************************************)

(* Statements that do not change r leave it as it is. *)
LEMMA OkStep ==
  ASSUME NEW S, todo \in Seq(S), Execute, todo # << >>, NEW r, Ok(r),
         ~Spoils(todo[1], Changed(r))
  PROVE  Ok(r)'
BY Effects DEF Ok, Spoils, Changed

(* Until the attribute is set, r is not changed. *)
LEMMA FirstStep ==
  ASSUME NEW S, Closed(S), todo \in Seq(S), Execute, NEW a, NEW r, NEW c, Reaches(todo, c),
         Barrier(c, Unset(a)), \A s \in c.before : ~Spoils(s, Changed(r)), Ok(r)
  PROVE  Ok(r)'
<1>1. todo # << >>
  BY ExecuteCases
<1>2. todo[1] \in c.before \/ todo[1] \in c.goals
  BY <1>1, TailIs DEF Reaches, ReachesAt
<1>3. \A d \in c.goals : d.op # "change"
  BY DEF Barrier, Guards, Stops, Unset, Branches, Bodies
<1>4. ~Spoils(todo[1], Changed(r))
  BY <1>2, <1>3 DEF Spoils, Changed
<1> QED
  BY <1>1, <1>4, OkStep

\* tearDown reaches the statement that puts r back, or r needs none.
MendState(r, c) ==
    /\ todo \in Seq(c.after)
    /\ Ok(r) \/ (c.set \subseteq attrs /\ c.unset \cap attrs = {} /\ Reaches(todo, c))

(* At the statement that puts r back. *)
LEMMA AtMender ==
  ASSUME NEW S, Closed(S), todo \in Seq(S), Execute, NEW r, NEW c, Mender(c, r),
         c.set \subseteq attrs, c.unset \cap attrs = {}, r \in changed, ReachesAt(todo, 1, c)
  PROVE  Reaches(todo', c) \/ Ok(r)'
<1> DEFINE d == todo[1]
           rest == SubSeq(todo, 2, Len(todo))
<1>1. todo # << >> /\ Len(todo) \in Nat /\ Len(todo) >= 1 /\ d \in S
  BY ExecuteCases, TailIs
<1>2. d \in c.goals /\ \A i \in 2 .. Len(todo) : todo[i] \in c.after
  BY DEF ReachesAt
<1>3. rest \in Seq(S) /\ \A i \in 1 .. Len(rest) : rest[i] \in c.after
  <2>1. rest = Tail(todo)
    BY <1>1, TailIs
  <2> HIDE DEF rest
  <2>2. /\ rest \in Seq(S) /\ Len(rest) = Len(todo) - 1
        /\ \A i \in 1 .. Len(rest) : rest[i] = todo[i + 1]
    BY <2>1, <1>1, TailIs
  <2> QED
    BY <1>1, <1>2, <2>2
<1>4. CASE d.op = "restore" /\ d.res = r
  <2>1. r \notin changed' \/ stuck'
    BY <1>1, <1>4, RestoreStep
  <2> QED
    BY <2>1 DEF Ok
<1>5. CASE d.op \in Branches \cup Bodies /\ \A q \in Ways(d, c) : Reaches(q, c)
  <2>1. PICK x : Becomes(d, x) /\ todo' = x \o rest
    BY <1>1, <1>5, BranchStep
  <2>2. c.held \subseteq changed
    BY DEF Mender
  <2>3. \A q \in Ways(d, c) : q \in Seq(S)
    <3>1. Ways(d, c) \subseteq Nested(d)
      BY NestedIs DEF Ways, Branches
    <3> QED
      BY <1>1, <3>1 DEF Closed
  <2>4. CASE x \in Ways(d, c)
    <3>1. x \in Seq(S) /\ Reaches(x, c)
      BY <1>5, <2>3, <2>4
    <3> QED
      BY <1>3, <2>1, <3>1, Appended
  <2>5. CASE \E q \in Ways(d, c) : x = q \o << End >>
    <3>1. PICK q \in Ways(d, c) : x = q \o << End >>
      BY <2>5
    <3>2. q \in Seq(S) /\ Reaches(q, c)
      BY <1>5, <2>3
    <3> DEFINE e == << End >>
    <3>3. End \in S /\ End \in c.after
      BY DEF Closed, Mender
    <3>4. e \in Seq(S) /\ Len(e) = 1 /\ e[1] = End
      BY <3>3, Single
    <3> HIDE DEF e
    <3>5. \A i \in 1 .. Len(e) : e[i] \in c.after
      BY <3>3, <3>4
    <3>6. x = q \o e
      BY <3>1 DEF e
    <3>7. JoinOf(x, q, e, S)
      BY <3>2, <3>4, <3>6, Joined
    <3>8. Reaches(x, c) /\ x \in Seq(S)
      BY <3>2, <3>4, <3>5, <3>6, <3>7, Appended DEF JoinOf
    <3> QED
      BY <1>3, <2>1, <3>8, Appended
  <2>6. \/ x = << >> /\ d.op \notin Branches \cup Bodies
        \/ x \in Ways(d, c) /\ d.op # "call"
        \/ \E q \in Ways(d, c) : d.op = "call" /\ x = q \o << End >>
    <3>1. Becomes(d, x)
      BY <2>1
    <3> QED
      BY <2>2, <3>1, BecomesWays
  <2> QED
    BY <1>5, <2>4, <2>5, <2>6
<1> QED
  BY <1>2, <1>4, <1>5 DEF Mender

(* On the way to it: what raises does it inside a try that catches all. *)
LEMMA BeforeMender ==
  ASSUME NEW S, Closed(S), todo \in Seq(S), Execute, NEW r, NEW c, Mender(c, r),
         c.set \subseteq attrs, c.unset \cap attrs = {}, r \in changed,
         NEW n \in 2 .. Len(todo), ReachesAt(todo, n, c)
  PROVE  Reaches(todo', c) \/ Ok(r)'
<1>1. todo # << >> /\ 1 \in 1 .. (n - 1)
  BY ExecuteCases
<1>2. Flow(c) /\ c.held \subseteq changed
  BY DEF Mender
<1>3. ASSUME NEW k \in Any, Throws(todo[1], k), Throw(k)
      PROVE  Reaches(todo', c) \/ Ok(r)'
  <2>1. /\ todo[1] \in c.before
        /\ todo[1] \in c.throwers => CaughtBefore(todo, 1, n)
    BY <1>1 DEF ReachesAt
  <2>2. CASE todo[1] \notin c.throwers
    <3>1. /\ todo[1].op # "raise"
          /\ todo[1].op \in {"run", "change"} => todo[1].on \notin Any
          /\ todo[1].op = "use" => todo[1].attr \in c.set
      BY <2>1, <2>2 DEF Mender
    <3>2. stuck'
      BY <1>3, <3>1 DEF Throws, Commands
    <3> QED
      BY <3>2 DEF Ok
  <2>3. CASE todo[1] \in c.throwers
    <3>1. PICK l \in 2 .. (n - 1) : CatchesAll(todo[l])
      BY <2>1, <2>3 DEF CaughtBefore
    <3>2. Handles(todo[l], k) /\ todo[l].op = "catch"
      BY <3>1 DEF CatchesAll, Handles
    <3>3. PICK i \in 2 .. Len(todo) :
               /\ Handles(todo[i], k)
               /\ \A j \in 2 .. (i - 1) : ~Handles(todo[j], k)
               /\ todo' = todo[i].handler \o Again(todo[i], k) \o SubSeq(todo, i + 1, Len(todo))
      <4>1. l \in 2 .. Len(todo)
        OBVIOUS
      <4>2. ~(\A i \in 2 .. Len(todo) : ~Handles(todo[i], k))
        BY <3>2, <4>1
      <4> QED
        BY <1>1, <1>3, <4>2, ThrowCases
    <3>4. todo[i].op \in Markers
      BY <3>3 DEF Handles, Markers
    <3>5. i \in 2 .. (n - 1) /\ i <= l
      BY <3>2, <3>3
    <3>6. todo[i].op # "catch" => CaughtBefore(todo, i, n)
      <4>1. todo[i].op # "catch" => l \in (i + 1) .. (n - 1)
        BY <3>2, <3>5
      <4> QED
        BY <3>1, <4>1 DEF CaughtBefore
    <3> QED
      BY <1>2, <3>3, <3>4, <3>5, <3>6, RouteCaught
  <2> QED
    BY <2>2, <2>3
<1> QED
  BY <1>2, <1>3, RouteStep

(* tearDown keeps to the route that puts r back. *)
LEMMA MendStep ==
  ASSUME NEW S, Closed(S), todo \in Seq(S), Execute, NEW r, NEW c, Mender(c, r),
         \A s \in S : s.op = "assign" => s.attr \notin c.unset, MendState(r, c)
  PROVE  MendState(r, c)'
<1>1. todo # << >> /\ todo[1] \in S /\ todo[1] \in c.after
  BY ExecuteCases, TailIs DEF MendState
<1>2. todo' \in Seq(c.after)
  BY ClosedStep DEF MendState, Mender
<1>3. CASE Ok(r)
  <2>1. ~Spoils(todo[1], Changed(r))
    BY <1>1 DEF Mender
  <2> QED
    BY <1>1, <1>2, <1>3, <2>1, OkStep DEF MendState
<1>4. CASE ~Ok(r)
  <2>1. /\ r \in changed /\ c.set \subseteq attrs /\ c.unset \cap attrs = {}
        /\ Reaches(todo, c)
    BY <1>4 DEF MendState, Ok
  <2>2. c.set \subseteq attrs'
    <3>1. todo[1].op = "clear" => todo[1].attr \notin c.set
      BY <1>1 DEF Mender
    <3> QED
      BY <1>1, <2>1, <3>1, Effects
  <2>3. c.unset \cap attrs' = {}
    BY <1>1, <2>1, Effects
  <2>4. Reaches(todo', c) \/ Ok(r)'
    <3>1. PICK n \in 1 .. Len(todo) : ReachesAt(todo, n, c)
      BY <2>1 DEF Reaches
    <3>2. CASE n = 1
      BY <2>1, <3>1, <3>2, AtMender
    <3>3. CASE n # 1
      <4>1. n \in 2 .. Len(todo)
        BY <3>3
      <4> QED
        BY <2>1, <3>1, <4>1, BeforeMender
    <3> QED
      BY <3>2, <3>3
  <2> QED
    BY <1>2, <2>2, <2>3, <2>4 DEF MendState
<1> QED
  BY <1>3, <1>4

\* What no statement assigns is not set.
UnsetInv ==
    \A S, A : Covers(S, Current) /\ (\A s \in S : s.op = "assign" => s.attr \notin A)
        => attrs \cap A = {}

(* Every step leaves unset what no statement of the test assigns. *)
LEMMA UnsetNext ==
  ASSUME RunnerInv, CoverInv, UnsetInv, [Next]_vars
  PROVE  UnsetInv'
<1> SUFFICES ASSUME NEW S, NEW A, Covers(S, Current'),
                    \A s \in S : s.op = "assign" => s.attr \notin A
             PROVE  attrs' \cap A = {}
  BY DEF UnsetInv
<1>1. CASE Execute
  <2>1. Current' = Current /\ todo # << >>
    BY <1>1, ExecuteRunner
  <2>2. todo \in Seq(S) /\ attrs \cap A = {}
    BY <2>1 DEF CoverInv, UnsetInv
  <2>3. todo[1] \in S
    BY <2>1, <2>2, TailIs
  <2> QED
    BY <1>1, <2>1, <2>2, <2>3, Effects
<1>2. CASE StartTest
  BY <1>2 DEF StartTest
<1>3. CASE UNCHANGED <<job, pos, attrs>>
  BY <1>3 DEF UnsetInv, Current
<1> QED
  BY <1>1, <1>2, <1>3, NextCases DEF StartTestMethod, StartTearDown, EndTest, vars

\* The attribute is set, or r is as the job found it.
FirstState(a, r, c) ==
    phase \in {"setUp", "test"} =>
        \/ a \in attrs /\ todo \in Seq(c.quiet)
        \/ phase = "setUp" /\ Ok(r) /\ (Reaches(todo, c) \/ verdict # "PASS")

\* In a test that found r as the job did.
FlagInv(r) ==
    /\ Untouched(Current, r) => Ok(r)
    /\ \A b, w : SettledAfter(Current, b, r, w)
          => Covered(todo, w) /\ (Settled(b, r) \/ Pends(todo, w))
    /\ \A a, c : SetFirst(Current, a, r, c) => FirstState(a, r, c)

(* A statement of the test keeps its flags as good as FlagInv says. *)
LEMMA FlagStatement ==
  ASSUME RunnerInv, CoverInv, CurrentCovered, Execute, NEW r, FlagInv(r)
  PROVE  FlagInv(r)'
<1>1. UNCHANGED <<job, pos, phase>> /\ Current' = Current /\ todo # << >>
  BY ExecuteRunner
<1>2. Untouched(Current, r) => Ok(r)'
  <2>1. SUFFICES ASSUME Untouched(Current, r) PROVE Ok(r)'
    OBVIOUS
  <2>2. PICK S : Covers(S, Current) /\ r \notin Footprint(S)
    BY <2>1 DEF Untouched
  <2>3. todo \in Seq(S) /\ todo[1] \in S
    BY <1>1, <2>2, TailIs DEF CoverInv
  <2>4. ~Spoils(todo[1], Changed(r))
    BY <2>2, <2>3 DEF Footprint, Spoils, Changed
  <2> QED
    BY <1>1, <2>1, <2>3, <2>4, OkStep DEF FlagInv
<1>3. ASSUME NEW b, NEW w, SettledAfter(Current, b, r, w)
      PROVE  Covered(todo', w) /\ (Settled(b, r)' \/ Pends(todo', w))
  <2>1. todo \in Seq(w.all)
    BY <1>3 DEF CoverInv, SettledAfter
  <2>2. Covered(todo, w) /\ (Settled(b, r) \/ Pends(todo, w))
    BY <1>3 DEF FlagInv
  <2>3. Covered(todo', w)
    BY <1>3, <2>1, <2>2, CoveredStep
  <2>4. Settled(b, r)' \/ Pends(todo', w)
    BY <1>3, <2>1, <2>2, StaysSettled, GetsSettled
  <2> QED
    BY <2>3, <2>4
<1>4. ASSUME NEW a, NEW c, SetFirst(Current, a, r, c)
      PROVE  FirstState(a, r, c)'
  <2>1. SUFFICES ASSUME phase \in {"setUp", "test"} PROVE FirstState(a, r, c)'
    BY <1>1 DEF FirstState
  <2>2. /\ Barrier(c, Unset(a)) /\ \A s \in c.before : ~Spoils(s, Changed(r))
        /\ Guards(c, Unset(a)) /\ c.set = {} /\ Unnoted(c)'
    BY <1>4 DEF SetFirst, BarrierIn, Barrier, Unnoted
  <2>3. /\ Closed(c.quiet) /\ \A s \in c.quiet : ~Spoils(s, Unset(a))
    BY <2>2 DEF Barrier
  <2>4. (Holding(Unset(a)) <=> a \notin attrs) /\ (Holding(Unset(a))' <=> a \notin attrs')
    BY DEF Holding, Unset
  <2>5. CASE a \in attrs /\ todo \in Seq(c.quiet)
    BY <2>3, <2>4, <2>5, QuietStep DEF FirstState
  <2>6. CASE phase = "setUp" /\ Ok(r) /\ (Reaches(todo, c) \/ verdict # "PASS")
    <3>1. Reaches(todo, c)
      BY <1>1, <2>6 DEF RunnerInv
    <3>2. PICK S : Covers(S, Current)
      BY DEF CurrentCovered
    <3>3. todo \in Seq(S) /\ Closed(S)
      BY <3>2 DEF CoverInv, Covers
    <3>4. Ok(r)'
      BY <2>2, <2>6, <3>1, <3>3, FirstStep
    <3>5. verdict' = "PASS"
             => Reaches(todo', c) \/ (a \in attrs' /\ todo' \in Seq(c.quiet))
      BY <2>2, <2>4, <3>1, <3>3, BarrierStep
    <3> QED
      BY <1>1, <2>6, <3>4, <3>5 DEF FirstState
  <2> QED
    BY <1>4, <2>1, <2>5, <2>6 DEF FlagInv, FirstState
<1> QED
  BY <1>1, <1>2, <1>3, <1>4 DEF FlagInv

(* Nothing is about to be settled by a method that has ended. *)
LEMMA EndedPends ==
  ASSUME NEW w, NEW q, q = << >>
  PROVE  ~Pends(q, w)
BY DEF Pends

(* The runner starts and ends methods. *)
LEMMA FlagRunner ==
  ASSUME RunnerInv, StartTestMethod \/ StartTearDown \/ EndTest \/ UNCHANGED vars,
         NEW r, FlagInv(r)
  PROVE  FlagInv(r)'
<1>1. Current' = Current /\ UNCHANGED <<changed, attrs, noted, verdict, stuck>>
  BY DEF StartTestMethod, StartTearDown, EndTest, vars, Current
<1>2. Ok(r)' = Ok(r)
  BY <1>1 DEF Ok
<1>3. ASSUME NEW b, NEW w, SettledAfter(Current, b, r, w)
      PROVE  Covered(todo', w) /\ (Settled(b, r)' \/ Pends(todo', w))
  <2>1. Covered(todo, w) /\ (Settled(b, r) \/ Pends(todo, w))
    BY <1>3 DEF FlagInv
  <2>2. Settled(b, r) => Settled(b, r)'
    BY <1>1 DEF Settled, Ok, Holding
  <2>3. CASE todo' = todo
    BY <2>1, <2>2, <2>3
  <2>4. CASE todo = << >> /\ todo' \in {Current.test, Current.tearDown}
    <3>1. Settled(b, r)
      BY <2>1, <2>4, EndedPends
    <3>2. Covered(todo', w)
      BY <1>3, <2>4 DEF SettledAfter
    <3> QED
      BY <2>2, <3>1, <3>2
  <2> QED
    BY <2>3, <2>4 DEF StartTestMethod, StartTearDown, EndTest, vars
<1>4. ASSUME NEW a, NEW c, SetFirst(Current, a, r, c)
      PROVE  FirstState(a, r, c)'
  <2>1. FirstState(a, r, c)
    BY <1>4 DEF FlagInv
  <2>2. CASE StartTestMethod
    <3>1. phase = "setUp" /\ todo = << >> /\ verdict = "PASS" /\ todo' = Current.test
      BY <2>2 DEF StartTestMethod
    <3>2. a \in attrs
      BY <2>1, <3>1, EndedReaches DEF FirstState
    <3>3. Current.test \in Seq(c.quiet)
      BY <1>4 DEF SetFirst, BarrierIn
    <3> QED
      BY <1>1, <3>1, <3>2, <3>3 DEF FirstState
  <2>3. CASE StartTearDown \/ EndTest
    BY <2>3 DEF FirstState, StartTearDown, EndTest
  <2>4. CASE UNCHANGED vars
    BY <1>2, <2>1, <2>4 DEF FirstState, vars
  <2> QED
    BY <2>2, <2>3, <2>4
<1> QED
  BY <1>1, <1>2, <1>3, <1>4 DEF FlagInv

(* A test that starts with r as the job found it. *)
LEMMA FlagStart ==
  ASSUME NEW r, Ok(r), phase = "setUp", todo = Current.setUp
  PROVE  FlagInv(r)
<1>1. ASSUME NEW b, NEW w, SettledAfter(Current, b, r, w)
      PROVE  Covered(todo, w) /\ Settled(b, r)
  BY <1>1 DEF SettledAfter, Settled
<1>2. ASSUME NEW a, NEW c, SetFirst(Current, a, r, c)
      PROVE  FirstState(a, r, c)
  <2>1. Reaches(todo, c)
    BY <1>2 DEF SetFirst, BarrierIn
  <2> QED
    BY <2>1 DEF FirstState
<1> QED
  BY <1>1, <1>2 DEF FlagInv

(* The next test may trust its flags when r is as the job found it. *)
LEMMA FlagRestart ==
  ASSUME NEW r, Ok(r)', phase' = "setUp", todo' = Current'.setUp
  PROVE  FlagInv(r)'
<1>1. ASSUME NEW b, NEW w, SettledAfter(Current', b, r, w)
      PROVE  Covered(todo', w) /\ Settled(b, r)'
  BY <1>1 DEF SettledAfter, Settled
<1>2. ASSUME NEW a, NEW c, SetFirst(Current', a, r, c)
      PROVE  FirstState(a, r, c)'
  <2>1. Reaches(todo', c)
    BY <1>2 DEF SetFirst, BarrierIn
  <2> QED
    BY <2>1 DEF FirstState
<1> QED
  BY <1>1, <1>2 DEF FlagInv

\* From test m on, every test ends with r as the job found it.
Guarded(J, r, m) ==
    /\ m \in 0 .. Len(J.tests)
    /\ m = 0 \/ MendedAlways(J.tests[m], r)
    /\ \A i \in (m + 1) .. Len(J.tests) : Preserved(J.tests[i], r)

\* tearDown is on its way to put r back.
TearInv(r, m) ==
    phase = "tearDown" =>
        \A c : /\ MendedBy(Current, r, c)
               /\ c.set = {} \/ (pos > m /\ \A a \in c.set : Flagged(Current, a, r))
               => MendState(r, c)

\* Whatever fails, r is back at the end of each test from m on; until then
\* the flags of the test are right and its tearDown is on the way.
MendInv ==
    \A r, m :
        (\E S : CoversAll(S, Jobs[job])) /\ Guarded(Jobs[job], r, m) =>
            /\ phase \in {"ended", "over"} /\ pos >= m => Ok(r)
            /\ pos > m => FlagInv(r)
            /\ TearInv(r, m)

(* tearDown starts on a route that puts r back, with the flags it asks set. *)
LEMMA TearStart ==
  ASSUME CoverInv, UnsetInv, NEW r, NEW m, pos > m => FlagInv(r), StartTearDown
  PROVE  TearInv(r, m)'
<1>1. /\ Current' = Current /\ todo = << >> /\ todo' = Current.tearDown
      /\ phase \in {"setUp", "test"} /\ UNCHANGED <<pos, changed, attrs, stuck>>
  BY DEF StartTearDown, Current
<1>2. SUFFICES ASSUME NEW c, MendedBy(Current, r, c),
                      c.set = {} \/ (pos > m /\ \A a \in c.set : Flagged(Current, a, r))
               PROVE  MendState(r, c)'
  BY <1>1 DEF TearInv
<1>3. Reaches(todo', c) /\ todo' \in Seq(c.after)
  BY <1>1, <1>2 DEF MendedBy
<1>4. c.unset \cap attrs = {}
  BY <1>2 DEF MendedBy, UnsetInv
<1>5. ASSUME NEW a \in c.set
      PROVE  a \in attrs \/ Ok(r)
  <2>1. FlagInv(r) /\ Flagged(Current, a, r)
    BY <1>2, <1>5
  <2>2. CASE \E d : SetFirst(Current, a, r, d)
    BY <1>1, <2>1, <2>2 DEF FlagInv, FirstState
  <2>3. CASE \E w : SettledAfter(Current, Unset(a), r, w)
    <3>1. PICK w : SettledAfter(Current, Unset(a), r, w)
      BY <2>3
    <3>2. Settled(Unset(a), r)
      BY <1>1, <2>1, <3>1, EndedPends DEF FlagInv
    <3> QED
      BY <3>2 DEF Settled, Holding, Unset
  <2> QED
    BY <2>1, <2>2, <2>3 DEF Flagged
<1>6. Ok(r)' = Ok(r)
  BY <1>1 DEF Ok
<1> QED
  BY <1>1, <1>3, <1>4, <1>5, <1>6 DEF MendState

(* A test that has ended has put r back. *)
LEMMA TearEnd ==
  ASSUME RunnerInv, NEW r, NEW m, Guarded(Jobs[job], r, m), pos >= m, pos > m => FlagInv(r),
         TearInv(r, m), phase = "tearDown", todo = << >>
  PROVE  Ok(r)
<1>1. \A c : MendState(r, c) => Ok(r)
  BY EndedReaches DEF MendState
<1>2. /\ m \in 0 .. Len(Jobs[job].tests) /\ pos \in 1 .. Len(Jobs[job].tests)
      /\ Len(Jobs[job].tests) \in Nat
  BY JobsAssumption DEF RunnerInv, Guarded
<1>3. CASE pos = m
  <2>1. MendedAlways(Current, r)
    BY <1>2, <1>3 DEF Guarded, Current
  <2> QED
    BY <1>1, <2>1 DEF MendedAlways, TearInv
<1>4. CASE pos > m
  <2>1. Preserved(Current, r)
    BY <1>2, <1>4 DEF Guarded, Current
  <2>2. CASE Mended(Current, r)
    BY <1>1, <1>4, <2>2 DEF Mended, TearInv
  <2>3. CASE Untouched(Current, r)
    BY <1>4, <2>3 DEF FlagInv
  <2>4. CASE \E w : SettledAfter(Current, Changed(r), r, w)
    <3>1. PICK w : SettledAfter(Current, Changed(r), r, w)
      BY <2>4
    <3>2. Settled(Changed(r), r)
      BY <1>4, <3>1, EndedPends DEF FlagInv
    <3> QED
      BY <3>2 DEF Settled, Holding, Changed, Ok
  <2> QED
    BY <2>1, <2>2, <2>3, <2>4 DEF Preserved
<1> QED
  BY <1>2, <1>3, <1>4

(* Every step keeps r on its way back to what the job found. *)
LEMMA MendNext ==
  ASSUME RunnerInv, CoverInv, UnsetInv, MendInv, [Next]_vars
  PROVE  MendInv'
<1> SUFFICES ASSUME NEW r, NEW m, NEW S, CoversAll(S, Jobs[job']), Guarded(Jobs[job'], r, m)
             PROVE  /\ phase' \in {"ended", "over"} /\ pos' >= m => Ok(r)'
                    /\ pos' > m => FlagInv(r)'
                    /\ TearInv(r, m)'
  BY DEF MendInv
<1>1. job' = job
  BY NextCases, ExecuteRunner DEF StartTestMethod, StartTearDown, EndTest, StartTest, vars
<1>2. /\ phase \in {"ended", "over"} /\ pos >= m => Ok(r)
      /\ pos > m => FlagInv(r)
      /\ TearInv(r, m)
  BY <1>1 DEF MendInv
<1>3. /\ m \in 0 .. Len(Jobs[job].tests) /\ pos \in 1 .. Len(Jobs[job].tests)
      /\ Len(Jobs[job].tests) \in Nat
  BY <1>1, JobsAssumption DEF RunnerInv, Guarded
<1>4. Covers(S, Current)
  BY <1>1, <1>3 DEF CoversAll, Current
<1>5. CASE Execute
  <2>1. UNCHANGED <<job, pos, phase>> /\ Current' = Current /\ phase \notin {"ended", "over"}
    BY <1>5, ExecuteRunner DEF RunnerInv
  <2>2. pos > m => FlagInv(r)'
    BY <1>2, <1>4, <1>5, FlagStatement DEF CurrentCovered
  <2>3. TearInv(r, m)'
    <3>1. SUFFICES ASSUME phase = "tearDown", NEW c, MendedBy(Current, r, c),
                          c.set = {} \/ (pos > m /\ \A a \in c.set : Flagged(Current, a, r))
                   PROVE  MendState(r, c)'
      BY <2>1 DEF TearInv
    <3>2. MendState(r, c) /\ Mender(c, r)
      BY <1>2, <3>1 DEF TearInv, MendedBy
    <3>3. PICK T : Covers(T, Current) /\ \A s \in T : s.op = "assign" => s.attr \notin c.unset
      BY <3>1 DEF MendedBy
    <3>4. todo \in Seq(T) /\ Closed(T)
      BY <3>3 DEF CoverInv, Covers
    <3> QED
      BY <1>5, <3>2, <3>3, <3>4, MendStep
  <2> QED
    BY <2>1, <2>2, <2>3
<1>6. CASE StartTestMethod
  <2>1. phase' = "test" /\ pos' = pos
    BY <1>6 DEF StartTestMethod
  <2> QED
    BY <1>2, <1>6, <2>1, FlagRunner DEF TearInv
<1>7. CASE StartTearDown
  <2>1. phase' = "tearDown" /\ pos' = pos
    BY <1>7 DEF StartTearDown
  <2>2. TearInv(r, m)'
    BY <1>2, <1>7, TearStart
  <2> QED
    BY <1>2, <1>7, <2>1, <2>2, FlagRunner
<1>8. CASE EndTest
  <2>1. /\ phase = "tearDown" /\ todo = << >> /\ phase' \in {"ended", "over"}
        /\ UNCHANGED <<pos, changed, stuck>>
    BY <1>8 DEF EndTest
  <2>2. pos >= m => Ok(r)'
    <3>1. pos >= m => Ok(r)
      BY <1>1, <1>2, <2>1, TearEnd
    <3> QED
      BY <2>1, <3>1 DEF Ok
  <2> QED
    BY <1>2, <1>8, <2>1, <2>2, FlagRunner DEF TearInv
<1>9. CASE StartTest
  <2>1. /\ phase = "ended" /\ phase' = "setUp" /\ pos' = pos + 1
        /\ UNCHANGED <<changed, stuck>> /\ todo' = Current'.setUp
    BY <1>9 DEF StartTest, Current
  <2>2. pos' > m => Ok(r)'
    <3>1. pos' > m => pos >= m
      BY <1>3, <2>1
    <3> QED
      BY <1>2, <2>1, <3>1 DEF Ok
  <2>3. pos' > m => FlagInv(r)'
    BY <2>1, <2>2, FlagRestart
  <2> QED
    BY <2>1, <2>3 DEF TearInv
<1>10. CASE UNCHANGED vars
  <2>1. TearInv(r, m)' = TearInv(r, m)
    BY <1>10 DEF TearInv, MendState, Ok, vars, Current
  <2>2. Ok(r)' = Ok(r) /\ UNCHANGED <<pos, phase>>
    BY <1>10 DEF Ok, vars
  <2> QED
    BY <1>2, <1>10, <2>1, <2>2, FlagRunner
<1> QED
  BY <1>5, <1>6, <1>7, <1>8, <1>9, <1>10, NextCases

--------------------------------------------------------------------------------
(***************************************************************************)
(* The theorems.                                                           *)
(***************************************************************************)
\* The inductive invariant of a job.
ScriptInv ==
    /\ RunnerInv /\ CoverInv /\ FootInv /\ BarrierInv /\ FollowInv
    /\ GateInv /\ PassInv /\ ReportInv /\ UnsetInv /\ MendInv

(* When the job starts nothing is changed, set or on record. *)
LEMMA ScriptStart ==
  ASSUME Init
  PROVE  ScriptInv
<1>1. RunnerInv
  BY RunnerStart
<1>2. /\ phase = "setUp" /\ todo = Current.setUp /\ changed = {} /\ attrs = {}
      /\ ~failed
  BY DEF Init, Current
<1>3. CoverInv /\ FootInv
  BY <1>2 DEF CoverInv, Covers, FootInv
<1>4. BarrierInv /\ FollowInv /\ GateInv
  <2>1. ~noted
    BY DEF Init
  <2>2. ASSUME NEW o, NEW b, NEW w, Fresh(o), FollowedIn(Current, o, b, w)
        PROVE  Followed(todo, w) /\ Following(o, b, w)
    <3>1. ~Holding(o)
      BY <1>2, <2>1, <2>2 DEF Fresh, Holding, Changed, Noted
    <3> QED
      BY <1>2, <2>2, <3>1 DEF FollowedIn, Following
  <2> QED
    BY <1>2, <2>2, BarrierStart DEF FollowInv, GateInv
<1>5. PassInv /\ ReportInv /\ UnsetInv
  BY <1>2 DEF PassInv, ReportInv, UnsetInv
<1>6. \A r : FlagInv(r)
  BY <1>2, FlagStart DEF Ok
<1>7. MendInv
  BY <1>2, <1>6 DEF MendInv, TearInv
<1> QED
  BY <1>1, <1>3, <1>4, <1>5, <1>7 DEF ScriptInv

(* Every step preserves the inductive invariant. *)
LEMMA ScriptNext ==
  ASSUME ScriptInv, [Next]_vars
  PROVE  ScriptInv'
<1>1. /\ RunnerInv /\ CoverInv /\ FootInv /\ BarrierInv /\ FollowInv
      /\ GateInv /\ PassInv /\ ReportInv /\ UnsetInv /\ MendInv
  BY DEF ScriptInv
<1>2. RunnerInv' /\ CoverInv' /\ FootInv'
  BY <1>1, RunnerStep, CoverStep, FootStep
<1>3. BarrierInv' /\ FollowInv' /\ GateInv' /\ PassInv' /\ ReportInv'
  BY <1>1, BarrierNext, FollowNext, GateNext, PassNext, ReportNext
<1>4. UnsetInv' /\ MendInv'
  BY <1>1, UnsetNext, MendNext
<1> QED
  BY <1>2, <1>3, <1>4 DEF ScriptInv

(* The inductive invariant. *)
THEOREM ScriptsSafe == Spec => []ScriptInv
<1>1. Init => ScriptInv
  BY ScriptStart
<1>2. ScriptInv /\ [Next]_vars => ScriptInv'
  BY ScriptNext
<1> QED
  BY <1>1, <1>2, PTL DEF Spec

(* A file that keeps the rule for passing restores the host when all of its *)
(* tests pass.                                                              *)
THEOREM PassingRestores == Spec => [](PassRule(Jobs[job]) => PassRestoresHost)
<1>1. ASSUME ScriptInv, PassRule(Jobs[job]) PROVE PassRestoresHost
  <2>1. SUFFICES ASSUME phase = "over", clean, NEW r \in changed, r \notin Jobs[job].keeps
                 PROVE  FALSE
    BY DEF PassRestoresHost
  <2>2. PICK S : /\ CoversAll(S, Jobs[job])
                 /\ \A x \in Footprint(S) \ Jobs[job].keeps : RestoredOnPass(Jobs[job], x)
    BY <1>1 DEF PassRule, CoversAll
  <2>3. r \in Footprint(S)
    BY <1>1, <2>1, <2>2 DEF ScriptInv, FootInv
  <2>4. RestoredOnPass(Jobs[job], r)
    BY <2>1, <2>2, <2>3
  <2>5. PICK m : Returned(Jobs[job], r, m)
    BY <2>4 DEF RestoredOnPass, Returned
  <2>6. pos >= m
    BY <1>1, <2>1, <2>5, JobsAssumption DEF ScriptInv, RunnerInv, Returned
  <2> QED
    BY <1>1, <2>1, <2>2, <2>5, <2>6 DEF ScriptInv, PassInv
<1>2. ScriptInv => (PassRule(Jobs[job]) => PassRestoresHost)
  BY <1>1
<1> QED
  BY <1>2, ScriptsSafe, PTL

(* A file that keeps the rule for reports reports what went wrong. *)
THEOREM FailuresReported == Spec => [](ReportRule(Jobs[job]) => FailureReported)
<1>1. ASSUME ScriptInv, ReportRule(Jobs[job]) PROVE FailureReported
  <2>1. SUFFICES ASSUME phase \in {"ended", "over"}, verdict = "PASS", failed,
                        Current.name \notin Jobs[job].unreported
                 PROVE  FALSE
    BY DEF FailureReported
  <2>2. Reporting(Current)
    BY <1>1, <2>1 DEF ScriptInv, RunnerInv, ReportRule, Current
  <2>3. CASE Silent(Current)
    BY <1>1, <2>1, <2>3 DEF ScriptInv, ReportInv
  <2>4. CASE Honest(Current) /\ Reported(Current)
    <3>1. CurrentCovered /\ noted
      BY <1>1, <2>1, <2>4 DEF ScriptInv, ReportInv, Honest, CurrentCovered
    <3>2. todo = << >>
      BY <1>1, <2>1 DEF ScriptInv, RunnerInv
    <3>3. ~noted
      BY <1>1, <2>1, <2>4, <3>1, <3>2, ReportedAtEnd DEF ScriptInv
    <3> QED
      BY <3>1, <3>3
  <2> QED
    BY <2>2, <2>3, <2>4 DEF Reporting
<1>2. ScriptInv => (ReportRule(Jobs[job]) => FailureReported)
  BY <1>1
<1> QED
  BY <1>2, ScriptsSafe, PTL

(* A file that keeps the rule for failures puts back what it changed, but   *)
(* for what it is known to lose, whatever fails.                            *)
THEOREM FailuresKnown == Spec => [](FailureRule(Jobs[job]) => FailureLeavesKnown)
<1>1. ASSUME ScriptInv, FailureRule(Jobs[job]) PROVE FailureLeavesKnown
  <2>1. SUFFICES ASSUME phase = "over", ~stuck, NEW r \in changed, r \notin Jobs[job].leaves
                 PROVE  FALSE
    BY DEF FailureLeavesKnown
  <2>2. PICK S : /\ CoversAll(S, Jobs[job])
                 /\ \A x \in Footprint(S) \ Jobs[job].leaves : RestoredOnFailure(Jobs[job], x)
    BY <1>1 DEF FailureRule, CoversAll
  <2>3. r \in Footprint(S)
    BY <1>1, <2>1, <2>2 DEF ScriptInv, FootInv
  <2>4. RestoredOnFailure(Jobs[job], r)
    BY <2>1, <2>2, <2>3
  <2>5. PICK m : Guarded(Jobs[job], r, m)
    BY <2>4 DEF RestoredOnFailure, Guarded
  <2>6. pos >= m
    BY <1>1, <2>1, <2>5, JobsAssumption DEF ScriptInv, RunnerInv, Guarded
  <2>7. Ok(r)
    BY <1>1, <2>1, <2>2, <2>5, <2>6 DEF ScriptInv, MendInv
  <2> QED
    BY <2>1, <2>7 DEF Ok
<1>2. ScriptInv => (FailureRule(Jobs[job]) => FailureLeavesKnown)
  BY <1>1
<1> QED
  BY <1>2, ScriptsSafe, PTL

(* The first exception decides the verdict of a test until the next test   *)
(* starts, and a job with a test that did not pass is never clean again.   *)
THEOREM VerdictSticks ==
  Spec => [][/\ verdict # "PASS" /\ pos' = pos => verdict' = verdict
             /\ clean' => clean]_vars
<1> DEFINE A == /\ verdict # "PASS" /\ pos' = pos => verdict' = verdict
                /\ clean' => clean
<1>1. ASSUME RunnerInv, [Next]_vars PROVE [A]_vars
  <2>1. CASE Execute
    BY <2>1, ExecuteRunner
  <2>2. CASE StartTestMethod
    BY <2>2 DEF StartTestMethod
  <2>3. CASE StartTearDown
    BY <2>3 DEF StartTearDown
  <2>4. CASE EndTest
    BY <2>4 DEF EndTest
  <2>5. CASE StartTest
    <3>1. pos \in Int
      BY <1>1 DEF RunnerInv
    <3> QED
      BY <2>5, <3>1 DEF StartTest
  <2> QED
    BY <1>1, <2>1, <2>2, <2>3, <2>4, <2>5, NextCases
<1>2. RunnerInv /\ [Next]_vars => [A]_vars
  BY <1>1
<1> QED
  BY <1>2, RunnerSafe, PTL DEF Spec
================================================================================
