------------------------------ MODULE BorrowCheck ------------------------------
(***************************************************************************)
(* The borrow checker's analysis of one function: the future-use sets are  *)
(* computed by sweeps over the blocks, then the states of the blocks by a  *)
(* first-in first-out worklist, one statement, call argument or edge per   *)
(* step.  The analysis ends when the worklist is empty, or with the first  *)
(* error.                                                                  *)
(***************************************************************************)
EXTENDS BorrowTransfer

CONSTANT Programs   \* the functions to analyse

Arguments == [local : Locals, effect : Effects]

StatementSet ==
    [kind : {"eval", "assign", "pack", "write", "call"},
     to : Locals \cup {None}, from : Locals \cup {None},
     args : Seq(Arguments), ret : SUBSET Nat]

WellFormed(s) ==
    /\ s \in StatementSet
    /\ s.kind \in {"assign", "pack", "write"} => s.to \in Locals
    /\ s.kind \in {"eval", "pack"} => s.from \in Locals
    \* Only a call has arguments, and what a write or a call loads besides is
    \* read before it.
    /\ s.kind # "call" => s.args = << >>
    /\ s.kind \in {"write", "call"} => s.from = None
    /\ s.ret \subseteq DOMAIN s.args
    \* The result of a call goes to a temporary.
    /\ s.kind = "call" => s.to \in Temps \cup {None}

ASSUME ProgramsAssumption ==
    \A p \in Programs :
      /\ p.stmts \in Seq(Seq(StatementSet)) \ {<< >>}
      /\ \A b \in DOMAIN p.stmts : \A i \in DOMAIN p.stmts[b] : WellFormed(p.stmts[b][i])
      /\ p.succ \in [DOMAIN p.stmts -> Seq(DOMAIN p.stmts)]
      /\ p.reads \in [DOMAIN p.stmts -> SUBSET Locals]

VARIABLES
    phase,      \* "may", "must", "flow", then "accepted" or "rejected"
    ins, outs,  \* the state on entry to and exit of each block: a set of at most one
    work,       \* the blocks to visit
    block,      \* the block being visited, 0 for none
    state,      \* the state at this point of it
    index,      \* its next statement; the terminator comes last
    arg,        \* the next argument of the call being checked, 0 for none
    roots,      \* the roots of that call's arguments when it began
    tracker,    \* the accesses that call has made
    edge,       \* the next edge out of the block, 0 before the terminator
    entries     \* the locals on entry to each statement, as last seen

visit == << block, state, index, arg, roots, tracker, edge >>

facts == << prog, layout >>

checkVars == << prog, layout, may, must, phase, ins, outs, work, visit, entries >>

Statements(b) == prog.stmts[b]

Idle ==
    /\ block = 0
    /\ state = NewUninitialized
    /\ index = 0 /\ arg = 0 /\ edge = 0
    /\ roots = << >>
    /\ tracker = NoAccess

Init ==
    /\ prog \in Programs
    /\ layout = FunctionLayout(prog)
    /\ may = [b \in Blocks |-> {}]
    /\ must = [b \in Blocks |-> Locals]
    /\ phase = "may"
    /\ ins = [b \in Blocks |->
                IF b = 1 THEN {KillInvisible(InitializeParameters(Params), Visible(1))} ELSE {}]
    /\ outs = [b \in Blocks |-> {}]
    /\ work = << 1 >>
    /\ Idle
    /\ entries = [b \in Blocks |-> [i \in DOMAIN Statements(b) |-> {}]]

-----------------------------------------------------------------------------
(* Future uses *)

UsesOf(b) == {l \in Locals : layout.most[b][l] > 0}

Successors(b) == {prog.succ[b][i] : i \in DOMAIN prog.succ[b]}

\* One sweep visits the blocks from the last to the first and updates in
\* place: a later block gives its new set, an earlier one the set it had.
MaySweep ==
    LET new[b \in Blocks] ==
            UsesOf(b) \cup UNION {IF s > b THEN new[s] ELSE may[s] : s \in Successors(b)}
    IN  new

\* A plausible bug: a block without successors must use everything.
MustSweepOpenEnd ==
    LET new[b \in Blocks] ==
            UsesOf(b) \cup {l \in Locals :
                \A s \in Successors(b) : l \in IF s > b THEN new[s] ELSE must[s]}
    IN  new

MustSweep ==
    LET new[b \in Blocks] ==
            UsesOf(b) \cup {l \in Locals :
                /\ Successors(b) # {}
                /\ \A s \in Successors(b) : l \in IF s > b THEN new[s] ELSE must[s]}
    IN  new

ComputeMayUse ==
    /\ phase = "may"
    /\ may' = MaySweep
    /\ phase' = IF may' = may THEN "must" ELSE "may"
    /\ UNCHANGED << facts, must, ins, outs, work, visit, entries >>

ComputeMustUse ==
    /\ phase = "must"
    /\ must' = MustSweep
    /\ phase' = IF must' = must THEN "flow" ELSE "must"
    /\ UNCHANGED << facts, may, ins, outs, work, visit, entries >>

-----------------------------------------------------------------------------
(* The worklist *)

Reject == phase' = "rejected" /\ UNCHANGED << visit, ins, outs, work, entries >>

TakeBlock ==
    /\ phase = "flow" /\ block = 0 /\ work # << >>
    /\ LET b == Head(work)
       IN  \E in \in ins[b] :
             LET visible == KillInvisible(in, Visible(b))
             IN  /\ ins' = [ins EXCEPT ![b] = {visible}]
                 /\ block' = b /\ state' = visible /\ index' = 1
    /\ work' = Tail(work)
    /\ UNCHANGED << facts, may, must, phase, outs, arg, roots, tracker, edge, entries >>

InStatements == phase = "flow" /\ block # 0 /\ index \in DOMAIN Statements(block)

Statement == Statements(block)[index]

Key == layout.start[block] + index

Snapshot == entries' = [entries EXCEPT ![block][index] = {state.locals}]

TransferStatement ==
    /\ InStatements
    /\ Statement.kind # "call"
    /\ IF StatementAllowed(state, block, Key, Statement)
         THEN /\ state' = AfterStatement(state, block, Key, Statement)
              /\ index' = index + 1
              /\ Snapshot
              /\ UNCHANGED << phase, ins, outs, work, block, arg, roots, tracker, edge >>
         ELSE Reject
    /\ UNCHANGED << facts, may, must >>

ReadArguments ==
    /\ InStatements /\ arg = 0
    /\ Statement.kind = "call"
    /\ IF ArgumentsReadable(state, block, Key, Statement)
         THEN /\ arg' = 1
              /\ roots' = [i \in DOMAIN Statement.args |-> ArgumentRoots(state, Statement, i)]
              /\ tracker' = ArgumentsRead(state, Statement)
              /\ Snapshot
              /\ UNCHANGED << phase, ins, outs, work, block, state, index, edge >>
         ELSE Reject
    /\ UNCHANGED << facts, may, must >>

TransferArgument ==
    /\ InStatements /\ arg \in DOMAIN roots
    /\ IF ArgumentAllowed(state, block, Key, Statement, roots, arg, tracker)
         THEN /\ state' = AfterArgument(state, block, Key, Statement, roots, arg)
              /\ tracker' = ArgumentTracked(state, block, Key, Statement, roots, arg, tracker)
              /\ arg' = arg + 1
              /\ UNCHANGED << phase, ins, outs, work, block, index, roots, edge, entries >>
         ELSE Reject
    /\ UNCHANGED << facts, may, must >>

TransferResult ==
    /\ InStatements /\ arg = Len(roots) + 1
    /\ state' = AfterCall(state, Statement, roots)
    /\ index' = index + 1
    /\ arg' = 0 /\ roots' = << >> /\ tracker' = NoAccess
    /\ UNCHANGED << facts, may, must, phase, ins, outs, work, block, edge, entries >>

AtTerminator == phase = "flow" /\ block # 0 /\ index = Len(Statements(block)) + 1

LeaveBlock ==
    /\ block' = 0 /\ state' = NewUninitialized /\ index' = 0 /\ edge' = 0
    /\ UNCHANGED << arg, roots, tracker >>

\* A block whose state on exit did not change has nothing new to propagate.
TransferTerminator ==
    /\ AtTerminator /\ edge = 0
    /\ IF ~\A l \in prog.reads[block] : Readable(state, block, Key, l) THEN Reject
       ELSE /\ \/ outs[block] = {state} /\ LeaveBlock
               \/ /\ outs[block] # {state} /\ edge' = 1
                  /\ UNCHANGED << block, state, index, arg, roots, tracker >>
            /\ UNCHANGED << phase, ins, outs, work, entries >>
    /\ UNCHANGED << facts, may, must >>

\* check_inconsistent_move_join: on one path only the local has no value.
InconsistentMove(left, right) ==
    \E l \in Locals : DefinitelyUninit(left.locals[l]) # DefinitelyUninit(right.locals[l])

\* A plausible bug: a block already visited is not visited again.
PropagateOnce ==
    /\ AtTerminator /\ edge \in DOMAIN prog.succ[block]
    /\ LET next     == prog.succ[block][edge]
           incoming == KillInvisible(state, Visible(next))
       IN  /\ ins' = [ins EXCEPT ![next] = IF @ = {} THEN {incoming} ELSE @]
           /\ work' = IF ins[next] = {} THEN Append(work, next) ELSE work
           /\ edge' = edge + 1
           /\ UNCHANGED << phase, outs, block, state, index, arg, roots, tracker, entries >>
    /\ UNCHANGED << facts, may, must >>

PropagateEdge ==
    /\ AtTerminator /\ edge \in DOMAIN prog.succ[block]
    /\ LET next     == prog.succ[block][edge]
           incoming == KillInvisible(state, Visible(next))
           joined   == {Join(in, incoming) : in \in ins[next]}
           new      == IF ins[next] = {} THEN {incoming} ELSE joined
       IN  IF \E in \in ins[next] : InconsistentMove(in, incoming) THEN Reject
           ELSE /\ ins' = [ins EXCEPT ![next] = new]
                /\ work' = IF new = ins[next] THEN work ELSE Append(work, next)
                /\ edge' = edge + 1
                /\ UNCHANGED << phase, outs, block, state, index, arg, roots, tracker, entries >>
    /\ UNCHANGED << facts, may, must >>

FinishBlock ==
    /\ AtTerminator /\ edge = Len(prog.succ[block]) + 1
    /\ outs' = [outs EXCEPT ![block] = {state}]
    /\ LeaveBlock
    /\ UNCHANGED << facts, may, must, phase, ins, work, entries >>

Accept ==
    /\ phase = "flow" /\ block = 0 /\ work = << >>
    /\ phase' = "accepted"
    /\ UNCHANGED << facts, may, must, ins, outs, work, visit, entries >>

Next ==
    \/ ComputeMayUse \/ ComputeMustUse
    \/ TakeBlock \/ TransferStatement
    \/ ReadArguments \/ TransferArgument \/ TransferResult
    \/ TransferTerminator \/ PropagateEdge \/ FinishBlock \/ Accept

Spec == Init /\ [][Next]_checkVars

\* In every state of the analysis a local is uninitialised or initialised,
\* never one on some paths only, its roots are those of a view, and the cached
\* number of holders of each root is the number there is: the exclusivity
\* checks of check_mutable_access and the joins rely on all three.
StateSound ==
    phase = "flow" => Sound(state) /\ \A b \in Blocks : \A in \in ins[b] : Sound(in)

\* The block was checked with the state that is now recorded on its entry.
CheckedWithEntry(b) ==
    Statements(b) # << >> => entries[b][1] = {in.locals : in \in ins[b]}

\* The state s on exit from a block is part of the state on entry to next.
Covered(s, next) ==
    /\ ins[next] # {}
    /\ \A in \in ins[next] : Join(in, KillInvisible(s, Visible(next))) = in

\* When the worklist of analyze_function is empty, no path of the accepted
\* function was overlooked: every block that a visited block leads to was
\* visited, with a state that covers all the edges into it.
EdgesAreCovered ==
    phase = "accepted" =>
      /\ ins[1] # {}
      /\ \A b \in Blocks : ins[b] # {} => outs[b] # {} /\ CheckedWithEntry(b)
      /\ \A b \in Blocks : \A out \in outs[b], next \in Successors(b) : Covered(out, next)
=============================================================================
