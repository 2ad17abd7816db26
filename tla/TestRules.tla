------------------------------ MODULE TestRules -------------------------------
(***************************************************************************)
(* Rules a file of tests may keep.  A rule is about the scripts alone, not *)
(* about a run; TestJobProofs shows what a file that keeps it guarantees   *)
(* in every run: PassRestoresHost, FailureLeavesKnown, FailureReported.    *)
(* MCTests says which files of the repository keep which rule.             *)
(*                                                                         *)
(* The sets a rule speaks of (the statements before a goal, the ones that  *)
(* may return, ...) are records c of sets of statements, so that a rule is *)
(* a condition on c and not a recursive definition over the scripts.       *)
(***************************************************************************)
EXTENDS TestJob

Commands == {"run", "change", "restore"}
Branches == {"choose", "ifChanged", "ifSet", "ifNoted"}
Bodies   == {"call", "block"}
Markers  == {"catch", "undo", "finally"}

\* The sequences that the execution of a statement may put in its place.
Nested(s) ==
    CASE s.op \in Branches -> {s.yes, s.no}
      [] s.op \in Bodies   -> {s.body}
      [] s.op \in Markers  -> {s.handler}
      [] OTHER -> {}

\* S holds all that the execution of its members can lead to.
Closed(S) ==
    /\ End \in S /\ \A k \in Any : Raise(k) \in S
    /\ \A s \in S : Nested(s) \subseteq Seq(S) /\ (s.op = "raise" => s.kind \in Any)

Covers(S, t) == Closed(S) /\ {t.setUp, t.test, t.tearDown} \subseteq Seq(S)

\* What the statements of S may change on the host or the peer.
Footprint(S) == {s.res : s \in {x \in S : x.op = "change"}}

\* Test t does not change r.
Untouched(t, r) == \E S : Covers(S, t) /\ r \notin Footprint(S)

(***************************************************************************)
(* Routes.  A sequence reaches a goal when what comes before the goal can  *)
(* neither return past it (a return is followed by the end of its method)  *)
(* nor, where c.throwers says what may raise, raise past it (it is in a    *)
(* try that catches everything).                                           *)
(***************************************************************************)
Returns(s)    == s.op = "return" \/ (s.op \in Commands /\ s.on = "return")
CatchesAll(s) == s.op = "catch" /\ Any \subseteq s.kinds

EndsBefore(q, i, n)   == \E k \in (i + 1) .. (n - 1) : q[k].op = "end"
CaughtBefore(q, i, n) == \E k \in (i + 1) .. (n - 1) : CatchesAll(q[k])

ReachesAt(q, n, c) ==
    /\ \A i \in 1 .. (n - 1) :
          /\ q[i] \in c.before
          /\ q[i] \in c.leavers => EndsBefore(q, i, n)
          /\ q[i] \in c.throwers => CaughtBefore(q, i, n)
    /\ q[n] \in c.goals
    /\ \A i \in (n + 1) .. Len(q) : q[i] \in c.after

Reaches(q, c) == \E n \in 1 .. Len(q) : ReachesAt(q, n, c)

\* What a statement may lead to while the attributes c.set are set, those of
\* c.unset are not, and the resources c.held are changed.
Ways(s, c) ==
    CASE s.op = "ifSet" /\ s.attr \in c.set     -> {s.yes}
      [] s.op = "ifSet" /\ s.attr \in c.unset   -> {s.no}
      [] s.op = "ifChanged" /\ s.res \in c.held -> {s.yes}
      [] OTHER -> Nested(s)

\* c.before is closed; c.leavers are the statements of it that may return
\* from the method they stand in, and c.throwers is closed in the same way.
Flow(c) ==
    /\ End \in c.before /\ End \notin c.leavers \cup c.throwers
    /\ \A k \in Any : Raise(k) \in c.before /\ Raise(k) \notin c.leavers
    /\ \A s \in c.before :
          /\ s.op = "raise" => s.kind \in Any
          /\ Returns(s) => s \in c.leavers
          /\ \A q \in Ways(s, c) :
                /\ q \in Seq(c.before)
                /\ s \notin c.leavers /\ s.op # "call"
                      => \A i \in 1 .. Len(q) : q[i] \notin c.leavers
                /\ s \notin c.throwers
                      => \A i \in 1 .. Len(q) :
                            q[i] \in c.throwers => CaughtBefore(q, i, Len(q) + 1)

(***************************************************************************)
(* Barriers.  A condition b is a resource that is changed, an attribute    *)
(* that is not set, or a failure on record.  A barrier is a statement that *)
(* is not passed, but by an exception, while b holds: a command that puts  *)
(* the resource back and raises when it cannot, a check that raises.       *)
(***************************************************************************)
Changed(r) == [is |-> "changed", of |-> r]
Unset(a)   == [is |-> "unset", of |-> a]
Noted      == [is |-> "noted"]

Holding(b) == \/ b.is = "changed" /\ b.of \in changed
              \/ b.is = "unset" /\ b.of \notin attrs
              \/ b.is = "noted" /\ noted

\* s may make b hold.
Spoils(s, b) ==
    \/ b.is = "changed" /\ s.op = "change" /\ s.res = b.of
    \/ b.is = "unset" /\ s.op = "clear" /\ s.attr = b.of
    \/ b.is = "noted" /\ (s.op = "note" \/ (s.op \in Commands /\ s.on = "note"))

\* With c.noting, to record that the resource could not be put back counts
\* too: what is on record is then reported, and ends the test's passing.
Stops(s, b, c) ==
    \/ s.op = "raise" /\ s.kind \in Any
    \/ b.is = "changed" /\ s.op = "restore" /\ s.res = b.of
          /\ (s.on \in Any \/ (s.on = "note" /\ c.noting))
    \/ b.is = "unset" /\ s.op = "assign" /\ s.attr = b.of

\* What s may lead to while b holds, and while the attributes c.set are set.
WaysWhile(s, b) ==
    CASE b.is = "changed" /\ s.op = "ifChanged" /\ s.res = b.of -> {s.yes}
      [] b.is = "unset" /\ s.op = "ifSet" /\ s.attr = b.of      -> {s.no}
      [] b.is = "noted" /\ s.op = "ifNoted"                     -> {s.yes}
      [] OTHER -> Nested(s)

WaysAt(s, b, c) == IF s.op = "ifSet" /\ s.attr \in c.set THEN {s.yes} ELSE WaysWhile(s, b)

\* What a handler that takes exception k raises at its end.
Again(s, k) == IF s.op # "catch" THEN << Raise(k) >> ELSE << >>

\* The goals of c are barriers for b: what catches the exception they raise
\* reaches a barrier again.
Guards(c, b) ==
    /\ c.unset = {} /\ c.held = {} /\ c.throwers = {} /\ Flow(c)
    /\ \A s \in c.before : s.op = "clear" => s.attr \notin c.set
    /\ End \in c.after
    /\ \A s \in c.after : s.op \in Markers =>
          \A k \in Any : Reaches(s.handler \o Again(s, k), c)
    /\ \A d \in c.goals :
          \/ Stops(d, b, c)
          \/ /\ d.op \in Branches \cup Bodies
             /\ \A q \in WaysAt(d, b, c) : Reaches(q, c)

\* Behind the barriers nothing makes b hold again.
Barrier(c, b) ==
    /\ Guards(c, b)
    /\ Closed(c.quiet) /\ \A s \in c.quiet : ~Spoils(s, b)
    /\ c.after \subseteq c.quiet
    /\ \A d \in c.goals : Stops(d, b, c) \/ Nested(d) \ WaysAt(d, b, c) \subseteq Seq(c.quiet)

\* What c.noting relies on stays on record: no statement of t forgets it.
Recording(t, c) == c.noting => Covers(c.all, t) /\ \A s \in c.all : s.op # "forget"

\* Phase p of test t has a barrier for b.
BarrierIn(t, p, b, c) ==
    /\ Barrier(c, b) /\ c.set = {} /\ Recording(t, c)
    /\ \/ p = "setUp" /\ Reaches(t.setUp, c) /\ {t.test, t.tearDown} \subseteq Seq(c.quiet)
       \/ p = "test" /\ Reaches(t.test, c) /\ t.tearDown \in Seq(c.quiet)
       \/ p = "tearDown" /\ Reaches(t.tearDown, c)

(***************************************************************************)
(* Followed.  Where o begins to hold, a barrier for b follows.             *)
(***************************************************************************)

\* w.openers may leave o holding; what follows one reaches a barrier of
\* w.route.  What follows one of w.risky leaves the barriers in it alone.
Followed(q, w) ==
    \A i \in 1 .. Len(q) :
        /\ q[i] \in w.openers => Reaches(SubSeq(q, i + 1, Len(q)), w.route)
        /\ q[i] \in w.risky => \A k \in (i + 1) .. Len(q) : q[k] \in w.route.after

\* After the i-th statement of q, which s leads to, comes what follows s.
Passes(q, i, s, c) ==
    \A k \in (i + 1) .. Len(q) :
        q[k] \in c.before /\ (s.op = "call" \/ q[k] \notin c.leavers)

FollowedIn(t, o, b, w) ==
    /\ Covers(w.all, t) /\ Guards(w.route, b) /\ w.route.set = {} /\ Recording(t, w.route)
    /\ b = o \/ (b.is = "unset" /\ \A s \in w.all : ~Spoils(s, b))
    /\ \A k \in Any : Raise(k) \in w.route.after
    /\ \A s \in w.openers \cup w.risky : s.op \notin {"end", "raise"}
    /\ \A s \in w.all \ w.openers : ~Spoils(s, o)
    /\ \A s \in w.all : \A q \in Nested(s) : \A i \in 1 .. Len(q) :
          /\ q[i] \in w.openers =>
                \/ s \in w.risky /\ Reaches(SubSeq(q, i + 1, Len(q)), w.route)
                \/ s \in w.openers /\ Passes(q, i, s, w.route)
          /\ q[i] \in w.risky =>
                s \in w.risky /\ \A k \in (i + 1) .. Len(q) : q[k] \in w.route.after
    /\ \A q \in {t.setUp, t.test, t.tearDown} : Followed(q, w)

(***************************************************************************)
(* The rule for reports.                                                   *)
(***************************************************************************)

\* A test that passes has nothing on record.
Reported(t) ==
    \/ \E p, c : BarrierIn(t, p, Noted, c) /\ ~c.noting
    \/ \E w : FollowedIn(t, Noted, Noted, w) /\ ~w.route.noting

\* What c.noting relies on is reported.
Usable(t, c) == c.noting => Reported(t)

\* Nothing in t goes wrong silently: no check is made or all are recorded.
Notes(s) == s.op = "note" \/ (s.op \in Commands /\ s.on = "note")
Drops(s) == s.op \in Commands /\ s.on = "drop"
Silent(t) == \E S : Covers(S, t) /\ \A s \in S : ~Notes(s) /\ ~Drops(s)
Honest(t) == \E S : Covers(S, t) /\ \A s \in S : s.op # "forget" /\ ~Drops(s)

\* What is on record is reported.
Reporting(t) == Silent(t) \/ (Honest(t) /\ Reported(t))

ReportRule(J) ==
    \A i \in 1 .. Len(J.tests) :
        Reporting(J.tests[i]) \/ J.tests[i].name \in J.unreported

(***************************************************************************)
(* The rule for a job that passes.                                         *)
(***************************************************************************)

\* tearDown puts r back when the attributes c.set are set, and changes it not.
Gated(t, r, c) ==
    /\ Barrier(c, Changed(r)) /\ Recording(t, c)
    /\ Reaches(t.tearDown, c) /\ t.tearDown \in Seq(c.quiet)

\* a is set in a test that passes, or at least in one that changes r.
EarlyFlag(t, a) ==
    \E p, c : p \in {"setUp", "test"} /\ BarrierIn(t, p, Unset(a), c) /\ Usable(t, c)
LateFlag(t, a, r) == \E w : FollowedIn(t, Changed(r), Unset(a), w) /\ Usable(t, w.route)

\* A test that passes has put r back.
ResetIn(t, r) ==
    \/ \E p, c : p \in {"test", "tearDown"} /\ BarrierIn(t, p, Changed(r), c) /\ Usable(t, c)
    \/ \E c : Gated(t, r, c) /\ Usable(t, c) /\ \A a \in c.set : EarlyFlag(t, a)

\* A test that passes leaves r as it was, if that was as the job found it.
KeptIn(t, r) ==
    \/ Untouched(t, r)
    \/ \E w : FollowedIn(t, Changed(r), Changed(r), w) /\ Usable(t, w.route)
    \/ \E c : /\ Gated(t, r, c) /\ Usable(t, c)
              /\ \A a \in c.set : EarlyFlag(t, a) \/ LateFlag(t, a, r)

\* The last test that changes r, if there is one, puts it back.
RestoredOnPass(J, r) ==
    \E m \in 0 .. Len(J.tests) :
        /\ m = 0 \/ ResetIn(J.tests[m], r)
        /\ \A i \in (m + 1) .. Len(J.tests) : ResetIn(J.tests[i], r) \/ KeptIn(J.tests[i], r)

PassRule(J) ==
    \E S : /\ \A i \in 1 .. Len(J.tests) : Covers(S, J.tests[i])
           /\ \A r \in Footprint(S) \ J.keeps : RestoredOnPass(J, r)

(***************************************************************************)
(* Flags.  tearDown often asks an attribute whether there is something to  *)
(* put back.  The answer can be trusted when the attribute is set before   *)
(* the resource is changed, or right after: nothing in between raises.     *)
(***************************************************************************)
SetFirst(t, a, r, c) ==
    /\ BarrierIn(t, "setUp", Unset(a), c) /\ ~c.noting
    /\ \A s \in c.before : ~Spoils(s, Changed(r))

\* w.calm never raises or returns, but when a command that puts something
\* back goes wrong; w.openers leave r changed; w.settlers end b.
Pends(q, w) ==
    \E n \in 1 .. Len(q) : q[n] \in w.settlers /\ \A i \in 1 .. (n - 1) : q[i] \in w.calm

Settles(s, b) ==
    \/ b.is = "unset" /\ s.op = "assign" /\ s.attr = b.of
    \/ b.is = "changed" /\ s.op = "restore" /\ s.res = b.of

Covered(q, w) ==
    \A i \in 1 .. Len(q) : q[i] \in w.openers =>
        \E n \in (i + 1) .. Len(q) :
            q[n] \in w.settlers /\ \A k \in (i + 1) .. (n - 1) : q[k] \in w.calm

SettledAfter(t, b, r, w) ==
    /\ Covers(w.all, t) /\ w.openers \cup w.calm \subseteq w.all
    /\ b = Changed(r) \/ (b.is = "unset" /\ \A s \in w.all : ~Spoils(s, b))
    /\ End \in w.calm /\ End \notin w.openers /\ \A k \in Any : Raise(k) \notin w.openers
    /\ \A s \in w.openers :
          /\ s.op \in {"change"} \cup Branches \cup Bodies
          /\ \A q \in Nested(s) : \A i \in 1 .. Len(q) :
                q[i] \in w.openers => \A k \in (i + 1) .. Len(q) : q[k] \in w.calm
    /\ \A s \in w.all \ w.openers :
          ~Spoils(s, Changed(r)) /\ \A q \in Nested(s) : Covered(q, w)
    /\ \A s \in w.calm :
          /\ s.op \notin {"raise", "return", "use"}
          /\ s.op \in Commands => s.on # "return"
          /\ s.op \in {"run", "change"} => s.on \notin Any
          /\ Nested(s) \subseteq Seq(w.calm)
    /\ \A s \in w.settlers :
          \/ Settles(s, b)
          \/ s.op \in Branches \cup Bodies /\ \A q \in WaysWhile(s, b) : Pends(q, w)
    /\ \A q \in {t.setUp, t.test, t.tearDown} : Covered(q, w)

Flagged(t, a, r) ==
    (\E c : SetFirst(t, a, r, c)) \/ (\E w : SettledAfter(t, Unset(a), r, w))

(***************************************************************************)
(* The rule for a job some test of which fails.  tearDown puts r back:     *)
(* what comes before it raises only inside a try, and after it nothing     *)
(* changes r.                                                              *)
(***************************************************************************)
Mender(c, r) ==
    /\ c.held = {r} /\ Flow(c)
    /\ \A s \in c.before \ c.throwers :
          /\ s.op # "raise"
          /\ s.op \in {"run", "change"} => s.on \notin Any
          /\ s.op = "use" => s.attr \in c.set
    /\ Closed(c.after) /\ \A s \in c.after : ~Spoils(s, Changed(r))
    /\ \A s \in c.after : s.op = "clear" => s.attr \notin c.set
    /\ \A d \in c.goals :
          \/ d.op = "restore" /\ d.res = r
          \/ d.op \in Branches \cup Bodies /\ \A q \in Ways(d, c) : Reaches(q, c)

MendedBy(t, r, c) ==
    /\ Mender(c, r) /\ Reaches(t.tearDown, c) /\ t.tearDown \in Seq(c.after)
    /\ \E S : Covers(S, t) /\ \A s \in S : s.op = "assign" => s.attr \notin c.unset

Mended(t, r) == \E c : MendedBy(t, r, c) /\ \A a \in c.set : Flagged(t, a, r)
MendedAlways(t, r) == \E c : MendedBy(t, r, c) /\ c.set = {}

\* r is back when t ends if it was when t started.
Preserved(t, r) ==
    Mended(t, r) \/ Untouched(t, r) \/ \E w : SettledAfter(t, Changed(r), r, w)

RestoredOnFailure(J, r) ==
    \E m \in 0 .. Len(J.tests) :
        /\ m = 0 \/ MendedAlways(J.tests[m], r)
        /\ \A i \in (m + 1) .. Len(J.tests) : Preserved(J.tests[i], r)

FailureRule(J) ==
    \E S : /\ \A i \in 1 .. Len(J.tests) : Covers(S, J.tests[i])
           /\ \A r \in Footprint(S) \ J.leaves : RestoredOnFailure(J, r)
================================================================================
