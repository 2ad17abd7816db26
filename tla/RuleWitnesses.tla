----------------------------- MODULE RuleWitnesses ----------------------------
(***************************************************************************)
(* Which scripts keep a rule.  The rules of TestRules ask for sets of      *)
(* statements; this module computes them from the scripts, and checks with *)
(* the definitions of TestRules that they are such sets.  A script that    *)
(* keeps a rule here keeps it there: what is computed is a witness.        *)
(***************************************************************************)
EXTENDS TestRules

ItemsOf(q) == {q[i] : i \in 1 .. Len(q)}

\* The statements of a sequence, and of a test, with all they lead to.
RECURSIVE StatementsIn(_)
StatementsIn(q) ==
    ItemsOf(q) \cup UNION {UNION {StatementsIn(x) : x \in Nested(s)} : s \in ItemsOf(q)}

Machine == {End} \cup {Raise(k) : k \in Any}

StatementsOf(t) == Machine \cup StatementsIn(t.setUp \o t.test \o t.tearDown)

LeavesAlone(t, r) == LET S == StatementsOf(t) IN Covers(S, t) /\ r \notin Footprint(S)

\* s, or what it leads to, may return from its method, or make b hold.
RECURSIVE MayReturn(_)
MayReturn(s) ==
    Returns(s) \/ (s.op # "call" /\ \E q \in Nested(s) : \E x \in ItemsOf(q) : MayReturn(x))

RECURSIVE MayMake(_, _)
MayMake(s, b) == Spoils(s, b) \/ \E q \in Nested(s) : \E x \in ItemsOf(q) : MayMake(x, b)

(***************************************************************************)
(* Barriers.                                                               *)
(***************************************************************************)
RECURSIVE IsBarrier(_, _, _)
IsBarrier(s, b, c) ==
    \/ Stops(s, b, c)
    \/ /\ s.op \in Branches \cup Bodies
       /\ \A q \in WaysAt(s, b, c) :
             Reaches(q, [c EXCEPT !.goals = {x \in ItemsOf(q) : IsBarrier(x, b, c)}])

\* A handler behind a barrier that reaches a barrier again.
Rejoins(s, b, c) ==
    s.op \in Markers => \A k \in Any :
        LET q == s.handler \o Again(s, k)
        IN Reaches(q, [c EXCEPT !.goals = {x \in ItemsOf(q) : IsBarrier(x, b, c)}])

\* The route through U to the barriers of t for b when the attributes A are
\* set; behind them come statements of Q.
RouteTo(t, b, U, Q, A, noting) ==
    LET c0 == [all |-> StatementsOf(t), noting |-> noting, set |-> A, unset |-> {},
               held |-> {}, throwers |-> {}, before |-> U,
               leavers |-> {s \in U : MayReturn(s)}, goals |-> {}, quiet |-> Q,
               after |-> {s \in Q : s.op \notin Markers}]
        c  == [c0 EXCEPT !.after = {s \in Q : Rejoins(s, b, c0)}]
    IN [c EXCEPT !.goals =
           {s \in U : /\ IsBarrier(s, b, c)
                      /\ Stops(s, b, c) \/ Nested(s) \ WaysAt(s, b, c) \subseteq Seq(Q)}]

BarriersOf(t, b, noting) ==
    LET U == StatementsOf(t) IN RouteTo(t, b, U, {s \in U : ~MayMake(s, b)}, {}, noting)

(***************************************************************************)
(* What follows an opener.                                                 *)
(***************************************************************************)

\* s may leave o holding without a barrier behind what made it hold.
RECURSIVE IsOpening(_, _, _)
IsOpening(s, o, c) ==
    \/ Spoils(s, o)
    \/ \E q \in Nested(s) : \E i \in 1 .. Len(q) :
          IsOpening(q[i], o, c) /\ ~Reaches(SubSeq(q, i + 1, Len(q)), c)

\* s leads to something that makes o hold and to the barrier behind it.
RECURSIVE IsRisky(_, _, _)
IsRisky(s, o, c) ==
    \E q \in Nested(s) : \E i \in 1 .. Len(q) :
       \/ IsRisky(q[i], o, c)
       \/ IsOpening(q[i], o, c) /\ Reaches(SubSeq(q, i + 1, Len(q)), c)

IsFollowed(t, o, b, noting) ==
    LET U == StatementsOf(t)
        c == RouteTo(t, b, U, U, {}, noting)
    IN FollowedIn(t, o, b,
         [all |-> U, route |-> c, risky |-> {s \in U : IsRisky(s, o, c)},
          openers |-> {s \in U : IsOpening(s, o, c)}])

IsReported(t) ==
    \/ \E p \in {"setUp", "test", "tearDown"} :
          BarrierIn(t, p, Noted, BarriersOf(t, Noted, FALSE))
    \/ IsFollowed(t, Noted, Noted, FALSE)

Reports(t) ==
    LET S == StatementsOf(t)
    IN /\ Covers(S, t)
       /\ \/ \A s \in S : ~Notes(s) /\ ~Drops(s)
          \/ (\A s \in S : s.op # "forget" /\ ~Drops(s)) /\ IsReported(t)

KeepsReportRule(J) ==
    \A i \in 1 .. Len(J.tests) : Reports(J.tests[i]) \/ J.tests[i].name \in J.unreported

(***************************************************************************)
(* A job that passes.                                                      *)
(***************************************************************************)
Attributes(t, op) == {s.attr : s \in {x \in StatementsOf(t) : x.op = op}}

\* What may be relied on: no record, or what is on record where t reports it.
Notings(t) == {FALSE} \cup {n \in {TRUE} : IsReported(t)}

IsEarlyFlag(t, a) ==
    \E p \in {"setUp", "test"} : BarrierIn(t, p, Unset(a), BarriersOf(t, Unset(a), FALSE))

IsLateFlag(t, a, r) == \E n \in Notings(t) : IsFollowed(t, Changed(r), Unset(a), n)

IsGated(t, r, A) ==
    LET U == Machine \cup StatementsIn(t.tearDown)
        Q == {s \in U : ~MayMake(s, Changed(r))}
    IN \E n \in Notings(t) : Gated(t, r, RouteTo(t, Changed(r), U, Q, A, n))

Resets(t, r) ==
    \/ \E p \in {"test", "tearDown"}, n \in Notings(t) :
          BarrierIn(t, p, Changed(r), BarriersOf(t, Changed(r), n))
    \/ IsGated(t, r, {a \in Attributes(t, "assign") : IsEarlyFlag(t, a)})

Keeps(t, r) ==
    \/ LeavesAlone(t, r)
    \/ \E n \in Notings(t) : IsFollowed(t, Changed(r), Changed(r), n)
    \/ IsGated(t, r, {a \in Attributes(t, "assign") : IsEarlyFlag(t, a) \/ IsLateFlag(t, a, r)})

RestoresOnPass(J, r) ==
    \E m \in 0 .. Len(J.tests) :
        /\ m = 0 \/ Resets(J.tests[m], r)
        /\ \A i \in (m + 1) .. Len(J.tests) : Resets(J.tests[i], r) \/ Keeps(J.tests[i], r)

\* The statements of the tests of J, and what they may change.
JobStatements(J) == UNION {StatementsOf(J.tests[i]) : i \in 1 .. Len(J.tests)}
CoversJob(J)     == \A i \in 1 .. Len(J.tests) : Covers(JobStatements(J), J.tests[i])
Touched(J)       == Footprint(JobStatements(J))

KeepsPassRule(J) ==
    CoversJob(J) /\ \A r \in Touched(J) \ J.keeps : RestoresOnPass(J, r)

(***************************************************************************)
(* Flags.                                                                  *)
(***************************************************************************)
IsSetFirst(t, a, r) ==
    LET c == BarriersOf(t, Unset(a), FALSE)
    IN SetFirst(t, a, r, [c EXCEPT !.before = {s \in @ : ~MayMake(s, Changed(r))}])

RECURSIVE IsCalm(_)
IsCalm(s) ==
    /\ s.op \notin {"raise", "use"} /\ ~Returns(s)
    /\ s.op \in {"run", "change"} => s.on \notin Any
    /\ \A q \in Nested(s) : \A x \in ItemsOf(q) : IsCalm(x)

RECURSIVE IsSettler(_, _, _)
IsSettler(s, b, calm) ==
    \/ Settles(s, b)
    \/ /\ s.op \in Branches \cup Bodies
       /\ \A q \in WaysWhile(s, b) :
             Pends(q, [calm |-> calm, settlers |-> {x \in ItemsOf(q) : IsSettler(x, b, calm)}])

RECURSIVE IsOpener(_, _, _)
IsOpener(s, r, w) ==
    \/ Spoils(s, Changed(r))
    \/ \E q \in Nested(s) : \E i \in 1 .. Len(q) :
          IsOpener(q[i], r, w) /\ ~Pends(SubSeq(q, i + 1, Len(q)), w)

IsSettledAfter(t, b, r) ==
    LET S    == StatementsOf(t)
        calm == {s \in S : IsCalm(s)}
        w    == [all |-> S, calm |-> calm, openers |-> {},
                 settlers |-> {s \in S : IsSettler(s, b, calm)}]
    IN SettledAfter(t, b, r, [w EXCEPT !.openers = {s \in S : IsOpener(s, r, w)}])

IsFlagged(t, a, r) == IsSetFirst(t, a, r) \/ IsSettledAfter(t, Unset(a), r)

(***************************************************************************)
(* What tearDown puts back.                                                *)
(***************************************************************************)
RECURSIVE MayThrow(_, _)
MayThrow(s, c) ==
    \/ s.op = "raise" \/ (s.op \in {"run", "change"} /\ s.on \in Any)
    \/ s.op = "use" /\ s.attr \notin c.set
    \/ \E q \in Ways(s, c) : \E i \in 1 .. Len(q) :
          MayThrow(q[i], c) /\ ~CaughtBefore(q, i, Len(q) + 1)

RECURSIVE IsMender(_, _, _)
IsMender(s, r, c) ==
    \/ s.op = "restore" /\ s.res = r
    \/ /\ s.op \in Branches \cup Bodies
       /\ \A q \in Ways(s, c) :
             Reaches(q, [c EXCEPT !.goals = {x \in ItemsOf(q) : IsMender(x, r, c)}])

\* The route of tearDown to what puts r back, when the attributes A are set.
\* What is asked and never assigned is not set.
MendersOf(t, r, A) ==
    LET U  == Machine \cup StatementsIn(t.tearDown)
        c  == [set |-> A, unset |-> Attributes(t, "ifSet") \ Attributes(t, "assign"),
               held |-> {r}, before |-> U, leavers |-> {s \in U : MayReturn(s)},
               throwers |-> {}, goals |-> {}, after |-> U]
        ct == [c EXCEPT !.throwers = {s \in U : MayThrow(s, c)}]
    IN [ct EXCEPT !.goals = {s \in U : IsMender(s, r, ct)}]

Mends(t, r, A) ==
    LET c == MendersOf(t, r, A)
        S == StatementsOf(t)
    IN /\ Mender(c, r) /\ Reaches(t.tearDown, c) /\ t.tearDown \in Seq(c.after)
       /\ Covers(S, t) /\ \A s \in S : s.op = "assign" => s.attr \notin c.unset

Preserves(t, r) ==
    \/ Mends(t, r, {a \in Attributes(t, "assign") : IsFlagged(t, a, r)})
    \/ LeavesAlone(t, r)
    \/ IsSettledAfter(t, Changed(r), r)

RestoresOnFailure(J, r) ==
    \E m \in 0 .. Len(J.tests) :
        /\ m = 0 \/ Mends(J.tests[m], r, {})
        /\ \A i \in (m + 1) .. Len(J.tests) : Preserves(J.tests[i], r)

KeepsFailureRule(J) ==
    CoversJob(J) /\ \A r \in Touched(J) \ J.leaves : RestoresOnFailure(J, r)
================================================================================
