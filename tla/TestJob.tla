------------------------------- MODULE TestJob --------------------------------
(***************************************************************************)
(* A job: the tests of one file of the repository, run one after another   *)
(* on one host by the Avocado runner.  The runner makes a new object for   *)
(* each test and calls its setUp, the test method and tearDown.  tearDown  *)
(* is called whatever happened before it; the test method is called only   *)
(* when setUp ended without an exception.  The first exception decides the *)
(* verdict of the test.  What a test changed on the host or on the peer    *)
(* and did not put back is there when the next test starts.                *)
(*                                                                         *)
(* The runner and process.run are libraries outside the repository: they   *)
(* are modelled from how the tests use them.  The scripts are translated   *)
(* from the tests.                                                         *)
(***************************************************************************)
EXTENDS Statements, FiniteSets, FiniteSetsExt, Integers

CONSTANT Jobs   \* Jobs[j] = [tests, keeps, leaves, unreported]

ASSUME JobsAssumption == \A j \in DOMAIN Jobs : Len(Jobs[j].tests) \in Nat \ {0}

VARIABLES
    job,      \* the file whose tests run
    pos,      \* the number of the test that runs
    phase,    \* setUp, test, tearDown, ended (this test) or over (the job)
    todo,     \* the statements the current phase still has to execute
    changed,  \* the resources that are not as the job found them
    attrs,    \* the attributes of the test object that are set
    noted,    \* a failure is on record (is_fail, self.err)
    failed,   \* a check of this test went wrong without an exception
    verdict,  \* of the current test: PASS, FAIL, CANCEL or ERROR
    clean,    \* every test so far has passed
    stuck     \* a command that puts something back went wrong

vars == <<job, pos, phase, todo, changed, attrs, noted, failed, verdict, clean,
          stuck>>

(***************************************************************************)
(* Raising.  The innermost handler for the kind takes over; the body of a  *)
(* finally, and a handler that raises again, runs on the way.  Without a  *)
(* handler the phase ends.                                                 *)
(***************************************************************************)
Handles(s, k) == s.op \in {"finally", "undo"} \/ (s.op = "catch" /\ k \in s.kinds)

\* The verdict of an exception of kind k: outside the test method every
\* exception but a cancel is an error.
VerdictOf(k) ==
    CASE k = "cancel" -> "CANCEL"
      [] k = "fail" /\ phase = "test" -> "FAIL"
      [] OTHER -> "ERROR"

Throw(k) ==
    LET rest == Tail(todo)
        hs   == {i \in 1..Len(rest) : Handles(rest[i], k)}
        n    == Min(hs)
        over == SubSeq(rest, n + 1, Len(rest))
        again == IF rest[n].op # "catch" THEN << Raise(k) >> ELSE << >>
    IN IF hs = {}
       THEN /\ todo' = << >>
            /\ verdict' = IF verdict = "PASS" THEN VerdictOf(k) ELSE verdict
       ELSE /\ todo' = rest[n].handler \o again \o over
            /\ UNCHANGED verdict

\* return: on with what follows the end of the method.  The body of a try with
\* a finally that the code returns from is a Call, so it ends at the finally.
Leave ==
    LET rest == Tail(todo)
        ends == {i \in 1..Len(rest) : rest[i].op = "end"}
    IN todo' = IF ends = {} THEN << >> ELSE SubSeq(rest, Min(ends) + 1, Len(rest))

Continue == todo' = Tail(todo) /\ UNCHANGED verdict

Instead(s) == todo' = s \o Tail(todo) /\ UNCHANGED verdict

(***************************************************************************)
(* What follows a command that went wrong.                                 *)
(***************************************************************************)
React(w) ==
    \/ w \in Any /\ Throw(w) /\ UNCHANGED <<noted, failed>>
    \/ w = "ignore" /\ Continue /\ UNCHANGED <<noted, failed>>
    \/ w = "return" /\ Leave /\ UNCHANGED <<verdict, noted, failed>>
    \/ w = "note" /\ Continue /\ noted' = TRUE /\ failed' = TRUE
    \/ w = "drop" /\ Continue /\ failed' = TRUE /\ UNCHANGED noted

(***************************************************************************)
(* The statements.                                                         *)
(***************************************************************************)
At(ops) == todo # << >> /\ Head(todo).op \in ops

TestUnchanged == UNCHANGED <<job, pos, phase, clean>>

CommandWorks ==
    /\ At({"run", "change", "restore"})
    /\ Continue
    /\ changed' = CASE Head(todo).op = "change"  -> changed \cup {Head(todo).res}
                    [] Head(todo).op = "restore" -> changed \ {Head(todo).res}
                    [] OTHER -> changed
    /\ UNCHANGED <<attrs, noted, failed, stuck>> /\ TestUnchanged

CommandGoesWrong ==
    /\ At({"run", "change", "restore"})
    /\ React(Head(todo).on)
    /\ stuck' = (stuck \/ Head(todo).op = "restore")
    /\ UNCHANGED <<attrs, changed>> /\ TestUnchanged

SetAttribute ==
    /\ At({"assign", "clear"})
    /\ attrs' = IF Head(todo).op = "assign" THEN attrs \cup {Head(todo).attr}
                                           ELSE attrs \ {Head(todo).attr}
    /\ Continue
    /\ UNCHANGED <<changed, noted, failed, stuck>> /\ TestUnchanged

ReadAttribute ==
    /\ At({"use"})
    /\ IF Head(todo).attr \in attrs THEN Continue ELSE Throw("error")
    /\ UNCHANGED <<attrs, changed, noted, failed, stuck>> /\ TestUnchanged

\* A branch whose condition is an input of the test.
Branch ==
    /\ At({"choose"})
    /\ Instead(Head(todo).yes) \/ Instead(Head(todo).no)
    /\ UNCHANGED <<attrs, changed, noted, failed, stuck>> /\ TestUnchanged

\* A branch whose condition is known to the model.
Holds(s) ==
    CASE s.op = "ifChanged" -> s.res \in changed
      [] s.op = "ifSet"     -> s.attr \in attrs
      [] s.op = "ifNoted"   -> noted

Decide ==
    /\ At({"ifChanged", "ifSet", "ifNoted"})
    /\ Instead(IF Holds(Head(todo)) THEN Head(todo).yes ELSE Head(todo).no)
    /\ UNCHANGED <<attrs, changed, noted, failed, stuck>> /\ TestUnchanged

RecordFailure ==
    /\ At({"note", "forget"})
    /\ Continue
    /\ noted' = (Head(todo).op = "note")
    /\ failed' = (failed \/ Head(todo).op = "note")
    /\ UNCHANGED <<attrs, changed, stuck>> /\ TestUnchanged

\* Calls, blocks, and markers that are reached without an exception.
Control ==
    /\ At({"call", "block", "end", "catch", "undo", "finally"})
    /\ Instead(CASE Head(todo).op = "call"    -> Head(todo).body \o << End >>
                 [] Head(todo).op = "block"   -> Head(todo).body
                 [] Head(todo).op = "finally" -> Head(todo).handler
                 [] OTHER -> << >>)
    /\ UNCHANGED <<attrs, changed, noted, failed, stuck>> /\ TestUnchanged

LeaveMethod ==
    /\ At({"return"})
    /\ Leave
    /\ UNCHANGED <<verdict, attrs, changed, noted, failed, stuck>> /\ TestUnchanged

RaiseException ==
    /\ At({"raise"})
    /\ Throw(Head(todo).kind)
    /\ UNCHANGED <<attrs, changed, noted, failed, stuck>> /\ TestUnchanged

(***************************************************************************)
(* The runner.                                                             *)
(***************************************************************************)
Current == Jobs[job].tests[pos]

StartTestMethod ==
    /\ phase = "setUp" /\ todo = << >> /\ verdict = "PASS"
    /\ phase' = "test" /\ todo' = Current.test
    /\ UNCHANGED <<job, pos, changed, attrs, noted, failed, verdict, clean, stuck>>

StartTearDown ==
    /\ todo = << >>
    /\ \/ phase = "setUp" /\ verdict # "PASS"
       \/ phase = "test"
    /\ phase' = "tearDown" /\ todo' = Current.tearDown
    /\ UNCHANGED <<job, pos, changed, attrs, noted, failed, verdict, clean, stuck>>

EndTest ==
    /\ phase = "tearDown" /\ todo = << >>
    /\ phase' = IF pos = Len(Jobs[job].tests) THEN "over" ELSE "ended"
    /\ clean' = (clean /\ verdict = "PASS")
    /\ UNCHANGED <<job, pos, todo, changed, attrs, noted, failed, verdict, stuck>>

\* The next test of the file: a new object, on the same host.
StartTest ==
    /\ phase = "ended"
    /\ pos' = pos + 1
    /\ phase' = "setUp" /\ todo' = Jobs[job].tests[pos + 1].setUp
    /\ attrs' = {} /\ noted' = FALSE /\ failed' = FALSE /\ verdict' = "PASS"
    /\ UNCHANGED <<job, changed, clean, stuck>>

JobOver == phase = "over" /\ UNCHANGED vars

Init ==
    /\ job \in DOMAIN Jobs
    /\ pos = 1 /\ phase = "setUp" /\ todo = Jobs[job].tests[1].setUp
    /\ changed = {} /\ attrs = {} /\ noted = FALSE /\ failed = FALSE
    /\ verdict = "PASS" /\ clean = TRUE /\ stuck = FALSE

Next ==
    \/ CommandWorks \/ CommandGoesWrong \/ SetAttribute \/ ReadAttribute
    \/ Branch \/ Decide \/ RecordFailure \/ Control \/ LeaveMethod
    \/ RaiseException \/ StartTestMethod \/ StartTearDown \/ EndTest
    \/ StartTest \/ JobOver

Spec == Init /\ [][Next]_vars

--------------------------------------------------------------------------------
(***************************************************************************)
(* Properties.                                                             *)
(***************************************************************************)

\* A job whose tests all pass leaves the host and the peer as it found them,
\* but for what its file is known to keep.
PassRestoresHost ==
    phase = "over" /\ clean => changed \subseteq Jobs[job].keeps

\* Whatever fails, and wherever, as long as the commands that put things back
\* work, only what the file is known to lose is left changed when the job is
\* over: everything else its tearDown, or a later test, puts back.
FailureLeavesKnown ==
    phase = "over" /\ ~stuck => changed \subseteq Jobs[job].leaves

\* A test that passes had no check go wrong: a failure that was put on record
\* is reported by the end of the test, and the result of every check is used,
\* but for the tests known to lose one.
FailureReported ==
    phase \in {"ended", "over"} /\ verdict = "PASS" /\ failed
        => Current.name \in Jobs[job].unreported
================================================================================
