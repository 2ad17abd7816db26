------------------------------ MODULE Statements ------------------------------
(***************************************************************************)
(* The statements a test method is made of.  A method of a test class is   *)
(* the sequence of its statements; what a statement does is defined by     *)
(* TestJob.  Data is abstracted: a statement names what it changes on the  *)
(* host or the peer (a "resource": the module loaded, the bond created,    *)
(* the SMT mode), never the command line.  A loop over the interfaces,     *)
(* disks or modules of a test is its body once (one representative of      *)
(* each), and a loop that retries a command is that command, which in the  *)
(* end succeeds or not.                                                    *)
(*                                                                         *)
(* The reactions to a command that goes wrong:                             *)
(*   "fail", "cancel"  self.fail(...), self.cancel(...)                    *)
(*   "error"   an exception the method does not handle (CmdError, a write  *)
(*             to a file that is not there, an index out of range)         *)
(*   "note"    the failure is recorded, to be reported later (is_fail)     *)
(*   "ignore"  the status is not looked at                                 *)
(*   "drop"    a check is made and its result is not used                  *)
(*   "return"  the method returns to its caller                            *)
(***************************************************************************)
EXTENDS Sequences

\* A command, or a check, that changes nothing on the host.
Run(w) == [op |-> "run", on |-> w]

\* A command that takes resource r away from the state it was found in, or
\* puts it back.
Change(r, w)  == [op |-> "change", res |-> r, on |-> w]
Restore(r, w) == [op |-> "restore", res |-> r, on |-> w]

\* self.a = ..., self.a = False or None, and a read of self.a: an
\* AttributeError if it was not set.
Assign(a) == [op |-> "assign", attr |-> a]
Clear(a)  == [op |-> "clear", attr |-> a]
Use(a)    == [op |-> "use", attr |-> a]

\* A branch on an input of the test, and on the state of the host.
Choose(A, B)       == [op |-> "choose", yes |-> A, no |-> B]
May(A)             == Choose(A, << >>)
IfChanged(r, A, B) == [op |-> "ifChanged", res |-> r, yes |-> A, no |-> B]
IfSet(a, A, B)     == [op |-> "ifSet", attr |-> a, yes |-> A, no |-> B]

\* Branch on whether a failure is on record; put one on record; forget what
\* is on record.
IfNoted(A, B) == [op |-> "ifNoted", yes |-> A, no |-> B]
Note          == [op |-> "note"]
Forget        == [op |-> "forget"]

\* A call of another method of the class, and the return from it.
Call(m) == [op |-> "call", body |-> m]
Return  == [op |-> "return"]
End     == [op |-> "end"]

\* raise, and what catches it: try A except kinds: H; try A except: H, raise;
\* try A finally: H.
Raise(k)            == [op |-> "raise", kind |-> k]
Catch(kinds, H)     == [op |-> "catch", kinds |-> kinds, handler |-> H]
Undo(H)             == [op |-> "undo", handler |-> H]
Finally(H)          == [op |-> "finally", handler |-> H]
Try(A, kinds, H)    == [op |-> "block", body |-> A \o << Catch(kinds, H) >>]
TryUndo(A, H)       == [op |-> "block", body |-> A \o << Undo(H) >>]
TryFinally(A, H)    == [op |-> "block", body |-> A \o << Finally(H) >>]

\* except Exception catches self.fail and self.cancel as well; except
\* CmdError and its like only an error.
Any    == {"fail", "cancel", "error"}
Errors == {"error"}

\* The check at the end of a test: if self.is_fail: self.fail(...).
Report(k) == IfNoted(<< Raise(k) >>, << >>)

\* A test: its name and the three methods the runner calls.
Test(n, s, t, d) == [name |-> n, setUp |-> s, test |-> t, tearDown |-> d]
================================================================================
