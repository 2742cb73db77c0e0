----------------------------- MODULE Dispatcher -----------------------------
(***************************************************************************)
(* Jit::run_bounded (src/src/jit/mod.rs), the blocks emit_block generates  *)
(* (src/src/backend/emit.rs), the translator and the code cache together.  *)
(* The runner is the one thread that owns the Jit; another thread, or a    *)
(* memory callback, may set should_halt between any two of its steps.      *)
(*                                                                         *)
(* The generated code takes one step per guest instruction and one per     *)
(* block entry.  Its registers and flags are nondeterministic: they choose *)
(* the direction of a conditional branch and the target of an indirect     *)
(* one.                                                                    *)
(***************************************************************************)
EXTENDS CodeCacheOps, Translator

CONSTANTS
  Programs,     \* the contents guest code memory may have
  Budgets,      \* the budgets run_bounded is called with
  Limit,        \* instruction counts saturate here (unlimited runs only)
  HostSize,     \* host units taken by a block of n instructions
  Vector,       \* addresses of instructions whose host code uses XMM6-15
  Unmapped,     \* addresses of "ld" instructions whose access faults
  Order,        \* iteration orders of the hash table of blocks
  LinkBlocks, ResumeAfterFault     \* JitConfig

\* A budget that no run of the model exhausts.
Unlimited == 2 * Limit + MaxInsts

\* mem_fault_skip_pc when no access was skipped: address 0, which therefore
\* may not hold guest code.
NoSkip == 0

ASSUME DispatcherAssumption ==
  /\ Programs \subseteq Code /\ NoSkip \notin Pc
  /\ Budgets \subseteq 0 .. Limit \cup {Unlimited}
  /\ Limit \in Nat \ {0}
  /\ HostSize \in [1 .. MaxInsts -> Nat \ {0}]
  /\ Chain = {"taken", "fall"} /\ 1 .. (MaxInsts - 1) \subseteq Cap
  /\ Vector \subseteq Word /\ Unmapped \subseteq Word
  /\ Order \subseteq [Pc -> Nat]
  /\ LinkBlocks \in BOOLEAN /\ ResumeAfterFault \in BOOLEAN

\* Every block fits the cache when it is empty, so compile does not fail for
\* want of space.
FitsEmpty == \A n \in 1 .. MaxInsts : StubsEnd + HostSize[n] <= Capacity + 1

Plus(a, b) == IF a + b < Limit THEN a + b ELSE Limit

VARIABLES
  code,    \* guest code memory
  cache,   \* Jit::cache
  body,    \* the instructions of the block written at each host unit
  ctx,     \* CpuContext: pc, should_halt, mem_fault, mem_fault_skip_pc
  run,     \* run_bounded's locals and where the runner is
  outcome, \* the last RunOutcome, with the embedder's view of it
  due,     \* ghost: after a fault, where the guest is to be re-entered
  done,    \* ghost: instructions executed since run_bounded was called
  late     \* ghost: those executed since a halt or a fault was pending

vars == <<code, cache, body, ctx, run, outcome, due, done, late>>

Idle == [at |-> "idle", budget |-> 0, retired |-> 0, pc |-> EMPTY_PC, slice |-> 0,
         charged |-> 0, host |-> 0, thunk |-> "Full", capped |-> FALSE, ip |-> 0,
         exit |-> "none", next |-> EMPTY_PC]

NoOutcome == [reason |-> "none", retired |-> 0]

Init ==
  /\ code \in Programs
  /\ cache = NewCache
  /\ body = [h \in Unit |-> [start |-> EMPTY_PC, insns |-> <<>>, next |-> EMPTY_PC]]
  /\ \E p \in Pc : ctx = [pc |-> p, halt |-> FALSE, fault |-> FALSE, skip |-> NoSkip]
  /\ run = Idle /\ outcome = NoOutcome
  /\ due = EMPTY_PC /\ done = 0 /\ late = 0

-----------------------------------------------------------------------------
(* The embedder, and whoever sets should_halt.                             *)

\* Guest code is written and reported, the report covering what changed; the blocks it
\* meets are removed in the order ord.
Rewrite(new, ord) ==
  LET changed == {w \in Word : new[w] # code[w]}
      start   == CHOOSE w \in changed : \A v \in changed : w <= v
      last    == CHOOSE w \in changed : \A v \in changed : w >= v
  IN /\ run.at = "idle" /\ changed # {}
     /\ code' = new
     /\ cache' = InvalidateRange(cache, start, last + 4 - start, ord)
     /\ UNCHANGED <<body, ctx, run, outcome, due, done, late>>

SetPc(p) ==
  /\ run.at = "idle"
  /\ ctx' = [ctx EXCEPT !.pc = p]
  /\ UNCHANGED <<code, cache, body, run, outcome, due, done, late>>

RequestHalt ==
  /\ ~ctx.halt
  /\ ctx' = [ctx EXCEPT !.halt = TRUE]
  /\ UNCHANGED <<code, cache, body, run, outcome, due, done, late>>

\* run_bounded is called: fault state belongs to one invocation.
Call(b) ==
  /\ run.at = "idle"
  /\ run' = [Idle EXCEPT !.at = "loop", !.budget = b]
  /\ ctx' = [ctx EXCEPT !.fault = FALSE, !.skip = NoSkip]
  /\ outcome' = NoOutcome
  /\ UNCHANGED <<code, cache, body, due, done, late>>

-----------------------------------------------------------------------------
(* The dispatcher loop.                                                    *)

Return(reason, retired) ==
  /\ run' = Idle
  /\ due' = EMPTY_PC /\ done' = 0 /\ late' = 0
  /\ outcome' = [reason |-> reason, retired |-> retired]

\* The loop's first two returns.
LoopHalted ==
  /\ run.at = "loop" /\ ctx.halt
  /\ ctx' = [ctx EXCEPT !.halt = FALSE]
  /\ Return("stopped", run.retired)
  /\ UNCHANGED <<code, cache, body>>

LoopBudget ==
  /\ run.at = "loop" /\ ~ctx.halt
  /\ run.retired >= run.budget
  /\ Return("budget", run.retired)
  /\ UNCHANGED <<code, cache, body, ctx>>

\* What Jit::compile translates from each program: a table, so that TLC
\* translates each block once.
Translated == [x \in Programs \X Pc \X (1 .. MaxInsts) |-> Emitted(x[1], x[2], x[3])]

\* Mutant of Certificate: looks at the first instruction only.
CertificateOfFirst(b) == IF b.insns[1].pc \in Vector THEN "Full" ELSE "XmmFree"

\* Emission's certificate: the block uses no callee-saved vector register.
Certificate(b) ==
  IF \E n \in DOMAIN b.insns : b.insns[n].pc \in Vector THEN "Full" ELSE "XmmFree"

\* The chain sites of a block: one for a LinkBlock or direct branch, two for a
\* conditional branch; none is registered without link_blocks.
ChainTarget(b, k) ==
  LET s == b.insns[Len(b.insns)] IN
  CASE ~LinkBlocks                             -> EMPTY_PC
    [] LinkBlocks /\ k = "taken"               -> IF b.next # EMPTY_PC THEN b.next
                                                  ELSE s.insn.to
    [] OTHER -> IF s.insn.op = "bcond" /\ b.next = EMPTY_PC THEN After(s.pc)
                ELSE EMPTY_PC

\* What compile passes to install_block for the translated block b.
Emission(b) ==
  [src |-> b.ranges, targets |-> [k \in Chain |-> ChainTarget(b, k)],
   size |-> HostSize[Len(b.insns)], thunk |-> Certificate(b)]

\* Mutant of Enter: the entry thunk is that of the first block, linked to others or not.
EnterOwn(r, host, thunk) ==
  [r EXCEPT !.at = "entry", !.charged = 0, !.host = host, !.thunk = thunk]

\* A block is entered: run.host and run.thunk, the slice charged with nothing.
Enter(r, host, thunk) ==
  [r EXCEPT !.at = "entry", !.charged = 0, !.host = host,
            !.thunk = IF LinkBlocks THEN "Full" ELSE thunk]

\* Jit::compile(pc, cap) from the dispatcher, ending in the entry of the new
\* block, or in the return of run_bounded when nothing could be translated or
\* installed.
Compile(r, cap) ==
  LET max == IF cap = 0 \/ MaxInsts < cap THEN MaxInsts ELSE cap
      b   == Translated[<<code, r.pc, max>>]
      e   == Emission(b)
      c   == Room(cache, e.size)
  IN IF b.status # "ok"
     THEN Return(b.status, r.retired) /\ UNCHANGED <<cache, body>>
     ELSE IF ~Fits(c, e.size)
     THEN Return("error", r.retired) /\ cache' = c /\ UNCHANGED body
     ELSE /\ cache' = IF cap = 0 THEN InstallCached(c, r.pc, e)
                      ELSE InstallCapped(c, r.pc, cap, e)
          /\ body' = [body EXCEPT ![c.cursor] =
                        [start |-> r.pc, insns |-> b.insns, next |-> b.next]]
          /\ run' = Enter(r, c.cursor, e.thunk)
          /\ UNCHANGED <<outcome, due, done, late>>

\* The block at ctx.pc is looked up, or compiled.
LoopLookup ==
  /\ run.at = "loop" /\ ~ctx.halt
  /\ run.retired < run.budget
  /\ LET r == [run EXCEPT !.pc = ctx.pc, !.slice = run.budget - run.retired,
                          !.capped = FALSE]
         f == Found(cache, ctx.pc)
     IN IF f.host = 0 THEN Compile(r, 0)
        ELSE /\ run' = Enter(r, f.host, f.thunk)
             /\ cache' = IF SlotHit(cache, ctx.pc) THEN cache
                         ELSE AfterLookup(cache, ctx.pc)
             /\ UNCHANGED <<body, outcome, due, done, late>>
  /\ UNCHANGED <<code, ctx>>

-----------------------------------------------------------------------------
(* Generated code.                                                         *)

Charge(h) == Len(body[h].insns)

\* Mutants of Bails: an entry that does not look at the budget, and one that
\* does not look at should_halt and mem_fault.
BailsOnRequest(h) == ctx.halt \/ ctx.fault
BailsOnBudget(h) == run.charged + Charge(h) > run.slice

\* The entry of a block bails out with the block's own PC when a halt or a
\* fault is pending or the block does not fit the budget, and charges the
\* budget otherwise.
Bails(h) == ctx.halt \/ ctx.fault \/ run.charged + Charge(h) > run.slice

EntryBails ==
  /\ run.at = "entry" /\ Bails(run.host)
  /\ run' = [run EXCEPT !.at = "exit", !.exit = "pc", !.next = body[run.host].start]
  /\ UNCHANGED <<code, cache, body, ctx, outcome, due, done, late>>

EntryRuns ==
  /\ run.at = "entry" /\ ~Bails(run.host)
  /\ run' = [run EXCEPT !.at = "body", !.ip = 1,
                        !.charged = IF run.budget = Unlimited
                                    THEN Plus(@, Charge(run.host))
                                    ELSE @ + Charge(run.host)]
  /\ UNCHANGED <<code, cache, body, ctx, outcome, due, done, late>>

\* A block is left over chain site k: to a linked block's entry, or back to
\* the dispatcher with the target PC.
Chained(k, target) ==
  LET h == cache.rel[<<run.host, k>>] IN
  IF h # 0 THEN [run EXCEPT !.at = "entry", !.host = h]
  ELSE [run EXCEPT !.at = "exit", !.exit = "pc", !.next = target]

\* The dispatch probe of an indirect branch.
Probed(t) ==
  IF LinkBlocks /\ SlotHit(cache, t)
  THEN [run EXCEPT !.at = "entry", !.host = cache.dispatch[Index[t]].host]
  ELSE [run EXCEPT !.at = "exit", !.exit = "pc", !.next = t]

\* Where the runner is after instruction s, the one at run.ip.
Leave(s, dir, t) ==
  LET b == body[run.host] IN
  CASE run.ip < Len(b.insns)       -> [run EXCEPT !.ip = @ + 1]
    [] b.next # EMPTY_PC /\ run.ip = Len(b.insns)
                                   -> Chained("taken", b.next)
    [] OTHER                       ->
         CASE s.insn.op = "b" \/ (s.insn.op = "bcond" /\ dir = "taken")
                                   -> Chained("taken", s.insn.to)
           [] s.insn.op = "bcond" /\ dir = "fall"
                                   -> Chained("fall", After(s.pc))
           [] s.insn.op = "br"     -> Probed(t)
           [] OTHER                -> [run EXCEPT !.at = "exit", !.exit = s.insn.op]

\* ctx after instruction s.  A callback access stores its PC; the first one to
\* fault raises mem_fault, the first one after that is the skipped one.  SVC
\* stores the PC after it, BRK its own.
CtxAfter(s) ==
  CASE s.insn.op = "ld" ->
         [ctx EXCEPT !.pc = s.pc,
                     !.fault = @ \/ s.pc \in Unmapped,
                     !.skip = IF ctx.fault /\ @ = NoSkip THEN s.pc ELSE @]
    [] s.insn.op = "svc" -> [ctx EXCEPT !.pc = After(s.pc)]
    [] s.insn.op = "brk" -> [ctx EXCEPT !.pc = s.pc]
    [] OTHER -> ctx

\* Where the guest is to be re-entered.  A faulting access is passed when the
\* embedder asked to resume after faults, and is to be retried otherwise.  From
\* there on only what has its effect is passed, in order: a skipped access and
\* the discarded exit of SVC or BRK are not.
DueAfter(s, dir, t) ==
  CASE ~ctx.fault -> IF s.insn.op # "ld" \/ s.pc \notin Unmapped THEN due
                     ELSE IF ResumeAfterFault THEN After(s.pc) ELSE s.pc
    [] ctx.fault /\ due = s.pc /\ s.insn.op \notin {"ld", "svc", "brk"}
                  -> GuestNext(s.insn, s.pc, dir, t)
    [] OTHER      -> due

Execute(dir, t) ==
  /\ run.at = "body"
  /\ LET s == body[run.host].insns[run.ip] IN
     /\ (s.insn.op # "bcond" => dir = "taken")
     /\ (s.insn.op # "br" => t = run.pc)
     /\ run' = Leave(s, dir, t)
     /\ ctx' = CtxAfter(s)
     /\ due' = DueAfter(s, dir, t)
  /\ done' = IF run.budget = Unlimited THEN Plus(done, 1) ELSE done + 1
  /\ late' = IF (ctx.halt \/ ctx.fault) /\ late <= MaxInsts THEN late + 1 ELSE late
  /\ UNCHANGED <<code, cache, body, outcome>>

-----------------------------------------------------------------------------
(* The dispatcher, back from generated code.                               *)

\* Mutant of Refused: a slice that retired nothing is not taken for refused.
RefusedAfterProgress ==
  /\ run.charged = 0 /\ run.exit = "pc" /\ run.next = run.pc /\ run.retired > 0
  /\ ~ctx.halt /\ ~ctx.fault

Refused ==
  /\ run.charged = 0 /\ run.exit = "pc" /\ run.next = run.pc
  /\ ~ctx.halt /\ ~ctx.fault

\* The block at pc is longer than the remaining budget: the slice ends, or a
\* capped block is looked up or compiled when nothing has been retired yet.
ExitRefused ==
  /\ run.at = "exit" /\ Refused /\ ~run.capped
  /\ IF run.retired > 0
     THEN Return("budget", run.retired) /\ UNCHANGED <<cache, body>>
     ELSE LET r == [run EXCEPT !.capped = TRUE, !.exit = "none", !.next = EMPTY_PC]
              h == cache.capped[<<run.pc, run.slice>>].host
          IN IF h = 0 THEN Compile(r, run.slice)
             ELSE /\ run' = Enter(r, h, "Full")
                  /\ UNCHANGED <<cache, body, outcome, due, done, late>>
  /\ UNCHANGED <<code, ctx>>

Retired == IF run.budget = Unlimited THEN Plus(run.retired, run.charged)
           ELSE run.retired + run.charged

\* Mutant of FaultResumePc: resumes after a call whose exit was discarded.
FaultResumePastCall ==
  CASE ctx.skip # NoSkip                       -> ctx.skip
    [] ctx.skip = NoSkip /\ run.exit # "pc"    -> ctx.pc
    [] OTHER                                   -> run.next

\* fault_resume_pc; the stop sentinel u64::MAX is not a branch target here.
FaultResumePc ==
  CASE ctx.skip # NoSkip                       -> ctx.skip
    [] ctx.skip = NoSkip /\ run.exit = "svc"   -> (ctx.pc - 4) % (MaxAddr + 1)
    [] ctx.skip = NoSkip /\ run.exit = "brk"   -> ctx.pc
    [] OTHER                                   -> run.next

ExitFault ==
  /\ run.at = "exit" /\ (~Refused \/ run.capped)
  /\ ctx.fault
  /\ ctx' = IF ResumeAfterFault THEN [ctx EXCEPT !.pc = FaultResumePc] ELSE ctx
  /\ Return("fault", Retired)
  /\ UNCHANGED <<code, cache, body>>

ExitException ==
  /\ run.at = "exit" /\ run.exit # "pc" /\ ~ctx.fault
  /\ Return(run.exit, Retired)
  /\ UNCHANGED <<code, cache, body, ctx>>

ExitContinue ==
  /\ run.at = "exit" /\ (~Refused \/ run.capped)
  /\ run.exit = "pc" /\ ~ctx.fault
  /\ ctx' = [ctx EXCEPT !.pc = run.next]
  /\ run' = [Idle EXCEPT !.at = "loop", !.budget = run.budget, !.retired = Retired]
  /\ UNCHANGED <<code, cache, body, outcome, due, done, late>>

-----------------------------------------------------------------------------

Runner ==
  \/ LoopHalted \/ LoopBudget \/ LoopLookup
  \/ EntryBails \/ EntryRuns
  \/ \E dir \in Chain, t \in Pc : Execute(dir, t)
  \/ ExitRefused \/ ExitFault \/ ExitException \/ ExitContinue

Next ==
  \/ \E new \in Programs, ord \in Order : Rewrite(new, ord)
  \/ \E p \in Pc : SetPc(p)
  \/ RequestHalt
  \/ \E b \in Budgets : Call(b)
  \/ Runner

Spec == Init /\ [][Next]_vars

\* The runner is a thread that keeps being scheduled while run_bounded runs:
\* weak fairness of Runner, which is enabled exactly while run.at # "idle" and
\* changes `run` in every step. It is written out because TLC evaluates
\* ENABLED of a compilation too slowly; callers and guest memory owe nothing.
Scheduled == []<>(run.at = "idle") \/ []<><<Runner>>_run

FairSpec == Spec /\ Scheduled

-----------------------------------------------------------------------------
(* Properties.                                                             *)

Steps == UNION {[1 .. n -> Step] : n \in 0 .. MaxInsts}
Counter == 0 .. Unlimited

\* Guest code, cache, context and the runner's locals are well formed.
TypeOK ==
  /\ code \in Code
  /\ cache.cursor \in Unit /\ DOMAIN cache.table = Pc
  /\ body \in [Unit -> [start : Pc \cup {EMPTY_PC}, insns : Steps, next : Pc \cup {EMPTY_PC}]]
  /\ ctx \in [pc : Pc, halt : BOOLEAN, fault : BOOLEAN, skip : Pc \cup {NoSkip}]
  /\ run \in [at : {"idle", "loop", "entry", "body", "exit"}, budget : Counter,
              retired : Counter, pc : Pc \cup {EMPTY_PC}, slice : Counter,
              charged : Counter, host : Unit, thunk : ThunkKind, capped : BOOLEAN,
              ip : 0 .. MaxInsts, exit : {"none", "pc", "svc", "brk"},
              next : Pc \cup {EMPTY_PC}]
  /\ due \in Pc \cup {EMPTY_PC} /\ done \in Counter /\ late \in 0 .. (MaxInsts + 1)

\* The guest PC the runner stands for: that of the next instruction of the
\* block it is in, or the one it is about to enter or return.
GuestPc ==
  CASE run.at = "body"                      -> body[run.host].insns[run.ip].pc
    [] run.at = "entry"                     -> body[run.host].start
    [] run.at = "exit" /\ run.exit = "pc"   -> run.next
    [] OTHER                                -> ctx.pc

Guest == INSTANCE GuestMachine WITH
  gpc <- GuestPc, running <- run.at # "idle", budget <- run.budget,
  halt <- ctx.halt, fault <- ctx.fault

\* run_bounded implements the guest that executes one instruction at a time:
\* over chained, probed, capped, rolled-over and re-translated blocks, every
\* instruction executed is the one guest memory holds at the guest's PC, no
\* more than `budget` of them run, and the outcome gives the number executed
\* and a reason that holds.
ImplementsGuest == Guest!Spec

LiveHosts == {cache.table[p].host : p \in Pc} \cup {cache.capped[k].host : k \in Pc \X Cap}

\* Generated code runs only in blocks the cache still holds: a pointer taken
\* by lookup, by compile before a rollover, or followed over a link or a
\* dispatch slot is never one of a dropped block.
RunsLiveCode == run.at \in {"entry", "body"} => run.host \in LiveHosts \ {0}

\* Once a halt is requested or an access has faulted, no block is started any
\* more: fewer instructions than the longest block are still executed ("Every
\* entry ... honours halt / fault requests, so chained execution stays
\* bounded", emit_block).
HaltLatency == late <= MaxInsts

\* A block that uses the callee-saved vector registers is only ever entered,
\* directly or over links, through the thunk that saves them (run_bounded's
\* choice of entry_thunk, emitted_thunk_kind).
VectorsSaved ==
  run.at = "body" /\ body[run.host].insns[run.ip].pc \in Vector => run.thunk = "Full"

\* "Execution resumes there" (fault_resume_pc): a run that returns a memory
\* fault leaves in ctx.pc the first instruction that has not had its effect;
\* with resume_after_fault = false that is the access that faulted, so that
\* "re-entering an unchanged mapping faults again" (JitConfig).
FaultPcExact == [][ExitFault => ctx'.pc = due]_vars

\* A run with a budget returns, and so does one without as soon as a halt is
\* requested, whatever the guest loops over.
RunReturns == (run.at # "idle" /\ (run.budget # Unlimited \/ ctx.halt)) ~> run.at = "idle"

-----------------------------------------------------------------------------
(* The inductive invariant, in parts: the first two for any cache c, block *)
(* bodies b and guest memory m.                                            *)

\* The code at h is a block of guest memory.
BlockAt(c, b, m, h) ==
  Block(m, b[h].start, MaxInsts, [insns |-> b[h].insns, ranges |-> c.image[h].src, next |-> b[h].next])

\* Every block the cache holds is one of guest memory as it is now, at the PC it
\* is held under, with its certificate and the targets of its chain sites.
CodeInv(c, b, m) ==
  /\ \A p \in Pc : c.table[p].host # 0 =>
       LET h == c.table[p].host IN
       /\ BlockAt(c, b, m, h) /\ b[h].start = p
       /\ c.table[p].thunk = Certificate(b[h])
       /\ \A t \in Pc, k \in Chain :
            <<t, <<h, k>>>> \in c.table[p].out => ChainTarget(b[h], k) = t
  /\ \A e \in Pc \X Cap : c.capped[e].host # 0 =>
       BlockAt(c, b, m, c.capped[e].host) /\ b[c.capped[e].host].start = e[1]

Pending == ctx.halt \/ ctx.fault

\* The counts saturate in unlimited runs.
Sum(a, b) == IF run.budget = Unlimited THEN Plus(a, b) ELSE a + b

\* Instructions that are charged and not executed yet.
Owed == IF run.at = "body" THEN Len(body[run.host].insns) + 1 - run.ip ELSE 0

\* What has been charged has been executed, except for the rest of the block.
CountInv ==
  /\ Sum(run.retired, run.charged) = Sum(done, Owed)
  /\ IF run.budget = Unlimited THEN done <= Limit /\ run.retired <= Limit
     ELSE run.charged <= run.slice
  /\ done \in Nat

\* Between runs the runner is where run_bounded left it; within one it belongs
\* to the call's budget, and nothing is skipped before a fault.
IdleInv ==
  IF run.at = "idle" THEN run = Idle /\ due = EMPTY_PC /\ done = 0
  ELSE run.budget \in Budgets /\ (~ctx.fault => ctx.skip = NoSkip)

\* In the loop nothing is pending but halts, and nothing is charged.
LoopInv == run.at = "loop" => ~ctx.fault /\ run.charged = 0

\* Out of the loop there is budget left, and ctx.pc is run.pc until a block runs.
SliceInv ==
  run.at \in {"entry", "body", "exit"} =>
    /\ run.pc \in Pc
    /\ run.retired < run.budget /\ run.slice = run.budget - run.retired
    /\ run.charged = 0 => ctx.pc = run.pc

\* In generated code the block is one the cache holds, entered through a thunk
\* it may be entered by; the first one is that of run.pc.
HostInv ==
  run.at \in {"entry", "body"} =>
    /\ run.host \in LiveHosts \ {0}
    /\ LinkBlocks => run.thunk = "Full"
    /\ run.thunk = "Full" \/ Certificate(body[run.host]) = "XmmFree"
    /\ run.at = "entry" /\ run.charged = 0 => body[run.host].start = run.pc

BodyInv == run.at = "body" => run.ip \in 1 .. Len(body[run.host].insns) /\ run.charged > 0

\* Back from generated code: the reason is that of the instruction before, and
\* a block that was refused is longer than what is left of the budget.
ExitInv ==
  run.at = "exit" =>
    /\ run.exit \in {"pc", "svc", "brk"}
    /\ run.exit = "pc" => run.next \in Pc
    /\ run.exit = "svc" => \E p \in Word : code[p].op = "svc" /\ ctx.pc = p + 4
    /\ run.exit = "brk" => ctx.pc \in Word /\ code[ctx.pc].op = "brk"
    /\ run.charged = 0 /\ ~Pending =>
         run.exit = "pc" /\ run.next = run.pc /\ run.slice < MaxInsts

\* While something is pending only the block that is running goes on.
LateInv ==
  /\ late <= MaxInsts
  /\ ~Pending \/ run.at = "idle" => late = 0
  /\ run.at = "body" => late <= run.ip - 1

\* After a fault, where the guest is to be re-entered: at the skipped access, or
\* at the instruction the runner is at.
Resume ==
  CASE run.at = "body"                      -> body[run.host].insns[run.ip].pc
    [] run.at = "entry"                     -> body[run.host].start
    [] run.at = "exit" /\ run.exit = "svc"  -> ctx.pc - 4
    [] run.at = "exit" /\ run.exit = "brk"  -> ctx.pc
    [] OTHER                                -> run.next
ResumeInv ==
  ResumeAfterFault /\ run.at # "idle" /\ ctx.fault =>
    IF ctx.skip = NoSkip THEN due = Resume
    ELSE due = ctx.skip /\ due \in Word /\ code[due].op = "ld"

Inductive ==
  /\ TypeOK /\ code \in Programs
  /\ CacheInv(cache) /\ CodeInv(cache, body, code)
  /\ IdleInv /\ LoopInv /\ SliceInv /\ HostInv /\ BodyInv /\ ExitInv
  /\ CountInv /\ LateInv /\ ResumeInv

=============================================================================
