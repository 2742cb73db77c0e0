---------------------------- MODULE GuestMachine ----------------------------
(***************************************************************************)
(* What Jit::run_bounded promises an embedder, without blocks, a cache or  *)
(* links: a guest that executes the instruction at its PC, one at a time,  *)
(* for at most `budget` instructions, and an outcome that says why it      *)
(* stopped and how many instructions it executed.                          *)
(***************************************************************************)
EXTENDS GuestCode

CONSTANTS
  Word,         \* the addresses that hold guest code
  Programs,     \* the contents guest code memory may have
  Budgets,      \* the budgets run_bounded is called with
  Limit         \* the instruction count saturates here

Count(n) == IF n < Limit THEN n + 1 ELSE Limit

VARIABLES
  code,         \* the guest code in memory
  gpc,          \* the address of the next instruction to execute
  running,      \* run_bounded has been called and has not returned
  budget, done, \* its budget, and the instructions executed so far
  halt, fault,  \* CpuContext::should_halt and mem_fault
  outcome       \* what the last run_bounded returned

vars == <<code, gpc, running, budget, done, halt, fault, outcome>>

NoOutcome == [reason |-> "none", retired |-> 0]

Init ==
  /\ code \in Programs
  /\ gpc \in Pc
  /\ running = FALSE /\ budget = 0 /\ done = 0
  /\ halt = FALSE /\ fault = FALSE
  /\ outcome = NoOutcome

\* The embedder writes guest code, and sets the PC, between runs.
Rewrite == ~running /\ code' \in Programs /\ UNCHANGED <<gpc, running, budget, done, halt, fault, outcome>>
SetPc == ~running /\ gpc' \in Pc /\ UNCHANGED <<code, running, budget, done, halt, fault, outcome>>

Halt == halt' = TRUE /\ UNCHANGED <<code, gpc, running, budget, done, fault, outcome>>

Start ==
  /\ ~running
  /\ running' = TRUE /\ budget' \in Budgets /\ done' = 0 /\ fault' = FALSE
  /\ outcome' = NoOutcome
  /\ UNCHANGED <<code, gpc, halt>>

\* One instruction: the one at gpc, while the budget lasts.
Execute ==
  /\ running /\ done < budget /\ ~fault
  /\ gpc \in Word
  /\ \E dir \in {"taken", "fall"}, t \in Pc : gpc' = GuestNext(code[gpc], gpc, dir, t)
  /\ done' = Count(done)
  /\ UNCHANGED <<code, running, budget, halt, fault, outcome>>

\* An access faults; the rest of its block is still executed, and counted.
Fault ==
  /\ running /\ done < budget /\ ~fault
  /\ gpc \in Word /\ code[gpc].op = "ld"
  /\ fault' = TRUE /\ gpc' \in Pc
  /\ done' = Count(done)
  /\ UNCHANGED <<code, running, budget, halt, outcome>>
Drain ==
  /\ running /\ done < budget /\ fault
  /\ gpc' \in Pc
  /\ done' = Count(done)
  /\ UNCHANGED <<code, running, budget, halt, fault, outcome>>

\* The straight line from pc ends at `at`, which holds nothing executable.
Untranslatable(pc, at) ==
  /\ at >= pc /\ (at - pc) % 4 = 0
  /\ \A q \in Pc : pc <= q /\ q < at /\ (q - pc) % 4 = 0 => q \in Word /\ ~Terminator(code[q])
  /\ at \in Word => code[at].op = "udf"

\* Why a run may end.  Only a run that made progress, or had no budget, ends
\* for its budget; a stop needs a request, and consumes it; a fetch failure or
\* an unsupported instruction ends the straight line from the PC.
Ends(reason) ==
  CASE reason = "budget"  -> budget = 0 \/ done > 0
    [] reason = "stopped" -> halt
    [] reason = "svc"     -> \E p \in Word : code[p].op = "svc" /\ gpc = After(p)
    [] reason = "brk"     -> gpc \in Word /\ code[gpc].op = "brk"
    [] reason = "fault"   -> fault
    [] reason = "unsupported" -> \E q \in Word : Untranslatable(gpc, q)
    [] reason = "unmapped"    -> \E q \in Pc \ Word : Untranslatable(gpc, q)

Reason == {"budget", "stopped", "svc", "brk", "fault", "unsupported", "unmapped"}

Return ==
  /\ running /\ running' = FALSE
  /\ \E reason \in Reason :
       /\ Ends(reason)
       /\ (reason # "fault" => ~fault)
       /\ outcome' = [reason |-> reason, retired |-> done]
       /\ halt' = IF reason = "stopped" THEN FALSE ELSE halt
       /\ gpc' = gpc \/ (reason = "fault" /\ gpc' \in Pc)
  /\ budget' = 0 /\ done' = 0
  /\ UNCHANGED <<code, fault>>

Next == Rewrite \/ SetPc \/ Halt \/ Start \/ Execute \/ Fault \/ Drain \/ Return

Spec == Init /\ [][Next]_vars

=============================================================================
