--------------------------- MODULE BorrowCheckProofs ---------------------------
(***************************************************************************)
(* Proofs about the borrow checker, for every function and any number of   *)
(* locals.                                                                 *)
(*                                                                         *)
(* Every state of the analysis is sound: the modes of a local are never    *)
(* mixed with "uninit", its roots are those of a view, and the cached      *)
(* holder counts are exact.                                                *)
(*                                                                         *)
(* The worklist overlooks no edge: when the analysis of a function is      *)
(* accepted, the recorded state on entry to each block covers the state on *)
(* exit from every block that leads to it, and is the state that the block *)
(* was last checked with.  The argument is that whatever is not yet so is  *)
(* still on the worklist or in the block being visited.                    *)
(*                                                                         *)
(* The future-use sets are what the paths of the function say: the sweeps  *)
(* keep them on the right side of that, and stop only when they are there. *)
(*                                                                         *)
(* A run of an accepted function keeps the rules of the language.  This    *)
(* takes two arguments.  The first is about the checker: in an accepted    *)
(* block the locals recorded before each statement are those it made of    *)
(* the statement before, with the checks that it passed (ChainInv).  The   *)
(* second is about the run: at every point what is in use holds a value,   *)
(* and all the locals in use that hold one value have a root in common     *)
(* (RunInv); so two of them are never apart for the checker, and its       *)
(* exclusivity checks see each other holder of what a statement touches.   *)
(***************************************************************************)
EXTENDS BorrowRun, CommonLemmas

SoundStates == {s \in State : Sound(s)}

SettledLocals == {local \in LocalState : Settled(local)}

-----------------------------------------------------------------------------
(* The operations on states *)

LEMMA HoldersFinite ==
    ASSUME NEW locals, NEW r
    PROVE  /\ Holders(locals, r) \subseteq Locals
           /\ IsFiniteSet(Holders(locals, r))
           /\ Cardinality(Holders(locals, r)) \in Nat
<1>1. Holders(locals, r) \subseteq Locals
  BY DEF Holders
<1>2. IsFiniteSet(Holders(locals, r))
  BY <1>1, LocalsAssumption, FS_Subset
<1> QED
  BY <1>1, <1>2, FS_CardinalityType

\* recompute_root_ref_counts makes a sound state of settled locals.
LEMMA RecountedSound ==
    ASSUME NEW locals \in [Locals -> SettledLocals]
    PROVE  Recounted(locals) \in SoundStates
<1>1. locals \in [Locals -> LocalState] /\ \A l \in Locals : Settled(locals[l])
  BY DEF SettledLocals
<1>2. [r \in Locals |-> Cardinality(Holders(locals, r))] \in [Locals -> Nat]
  BY HoldersFinite
<1>3. Recounted(locals) \in State
  BY <1>1, <1>2 DEF Recounted, State
<1>4. Sound(Recounted(locals))
  BY <1>1 DEF Recounted, Sound, Exact
<1> QED
  BY <1>3, <1>4 DEF SoundStates

LEMMA SoundParts ==
    ASSUME NEW s \in SoundStates
    PROVE  /\ s \in State
           /\ s.locals \in [Locals -> SettledLocals]
           /\ s.counts = [r \in Locals |-> Cardinality(Holders(s.locals, r))]
<1>1. s \in State /\ Sound(s)
  BY DEF SoundStates
<1>2. s.locals \in [Locals -> LocalState]
  BY <1>1 DEF State
<1>3. s.locals \in [Locals -> SettledLocals]
  BY <1>1, <1>2 DEF Sound, SettledLocals
<1>4. s.counts = [r \in Locals |-> Cardinality(Holders(s.locals, r))]
  BY <1>1 DEF Sound, Exact, Recounted
<1> QED
  BY <1>1, <1>3, <1>4

LEMMA ConstantLocals == Uninit \in SettledLocals /\ Slot \in SettledLocals
BY DEF Uninit, Slot, SettledLocals, LocalState, Modes, Settled

LEMMA AliasSettled ==
    ASSUME NEW rs \in SUBSET Locals, NEW ds \in SUBSET Locals, rs # {}, ds \subseteq rs
    PROVE  AliasOf(rs, ds) \in SettledLocals
BY DEF AliasOf, SettledLocals, LocalState, Modes, Settled

LEMMA WithRootsSettled ==
    ASSUME NEW local \in SettledLocals, NEW rs \in SUBSET Locals
    PROVE  WithRoots(local, rs) \in SettledLocals
<1>1. CASE "alias" \notin local.mode
  BY <1>1 DEF WithRoots
<1>2. CASE "alias" \in local.mode /\ rs = {}
  BY <1>2, ConstantLocals DEF WithRoots
<1>3. CASE "alias" \in local.mode /\ rs # {}
  <2>1. WithRoots(local, rs)
          = [mode |-> local.mode, roots |-> rs, direct |-> local.direct \cap rs]
    BY <1>3 DEF WithRoots, SettledLocals, LocalState
  <2>2. local.mode \subseteq Modes /\ local.direct \subseteq Locals /\ Settled(local)
    BY DEF SettledLocals, LocalState
  <2>3. [mode |-> local.mode, roots |-> rs, direct |-> local.direct \cap rs] \in LocalState
    BY <2>2 DEF LocalState
  <2>4. Settled([mode |-> local.mode, roots |-> rs, direct |-> local.direct \cap rs])
    BY <1>3, <2>2 DEF Settled
  <2> QED
    BY <2>1, <2>3, <2>4 DEF SettledLocals
<1> QED
  BY <1>1, <1>2, <1>3

LEMMA RootsAreLocals ==
    ASSUME NEW locals \in [Locals -> SettledLocals], NEW l \in Locals
    PROVE  RootsOf(locals, l) \subseteq Locals
BY DEF RootsOf, SettledLocals, LocalState

\* update_local_state: giving up the old roots and taking the new ones leaves
\* the cache what a recount would make it.
LEMMA UpdateSound ==
    ASSUME NEW s \in SoundStates, NEW l \in Locals, NEW new \in SettledLocals
    PROVE  UpdateLocal(s, l, new) \in SoundStates
<1> DEFINE after == [s.locals EXCEPT ![l] = new]
<1>1. /\ s.locals \in [Locals -> SettledLocals]
      /\ s.counts = [r \in Locals |-> Cardinality(Holders(s.locals, r))]
  BY SoundParts
<1>2. after \in [Locals -> SettledLocals]
  BY <1>1
<1>3. ASSUME NEW r \in Locals
      PROVE  UpdateLocal(s, l, new).counts[r] = Cardinality(Holders(after, r))
  <2> DEFINE H == Holders(s.locals, r)
             Rest == H \ {l}
             G == Holders(after, r)
  <2>1. \A k \in Locals \ {l} : RootsOf(after, k) = RootsOf(s.locals, k)
    BY <1>1 DEF RootsOf
  <2>2. G \ {l} = Rest
    BY <2>1 DEF Holders
  <2>3. IsFiniteSet(H) /\ IsFiniteSet(G) /\ Cardinality(H) \in Nat /\ Cardinality(G) \in Nat
    BY HoldersFinite
  <2>4. l \in H <=> r \in RootsOf(s.locals, l)
    BY DEF Holders
  <2>5. l \in G <=> r \in RootsOf(after, l)
    BY DEF Holders
  <2>6. IsFiniteSet(Rest) /\ Cardinality(Rest) \in Nat
    BY <2>3, FS_Subset, FS_CardinalityType
  <2> HIDE DEF H, G
  <2>7. Cardinality(Rest) = IF l \in H THEN Cardinality(H) - 1 ELSE Cardinality(H)
    BY <2>3, FS_RemoveElement
  <2>8. Cardinality(G \ {l}) = IF l \in G THEN Cardinality(G) - 1 ELSE Cardinality(G)
    BY <2>3, FS_RemoveElement
  <2>9. s.counts[r] = Cardinality(H)
    BY <1>1 DEF H
  <2>10. l \in H => Cardinality(H) > 0
    BY <2>3, FS_EmptySet
  <2>11. UpdateLocal(s, l, new).counts[r]
           = (IF r \in RootsOf(s.locals, l) /\ s.counts[r] > 0
                THEN s.counts[r] - 1 ELSE s.counts[r])
             + (IF r \in RootsOf(after, l) THEN 1 ELSE 0)
    BY DEF UpdateLocal
  <2>12. UpdateLocal(s, l, new).counts[r] = Cardinality(Rest) + (IF l \in G THEN 1 ELSE 0)
    BY <2>3, <2>4, <2>5, <2>7, <2>9, <2>10, <2>11
  <2>13. Cardinality(Rest) + (IF l \in G THEN 1 ELSE 0) = Cardinality(G)
    <3>1. l \in G => Cardinality(G) > 0
      BY <2>3, FS_EmptySet
    <3> QED
      BY <2>2, <2>3, <2>8, <3>1
  <2> QED
    BY <2>12, <2>13 DEF G
<1>4. UpdateLocal(s, l, new) = [locals |-> after,
        counts |-> [r \in Locals |-> UpdateLocal(s, l, new).counts[r]]]
  BY DEF UpdateLocal
<1>5. UpdateLocal(s, l, new) = Recounted(after)
  BY <1>3, <1>4 DEF Recounted
<1> QED
  BY <1>2, <1>5, RecountedSound

LEMMA KillSound ==
    ASSUME NEW s \in SoundStates, NEW visible
    PROVE  KillInvisible(s, visible) \in SoundStates
<1> DEFINE after == [l \in Locals |->
              IF l \notin visible THEN Uninit
              ELSE WithRoots(s.locals[l], s.locals[l].roots \cap visible)]
<1>1. s.locals \in [Locals -> SettledLocals]
  BY SoundParts
<1>2. \A l \in Locals : s.locals[l].roots \cap visible \in SUBSET Locals
  BY <1>1 DEF SettledLocals, LocalState
<1>3. after \in [Locals -> SettledLocals]
  BY <1>1, <1>2, WithRootsSettled, ConstantLocals
<1>4. Recounted(after) \in SoundStates
  BY <1>3, RecountedSound
<1> QED
  BY <1>4 DEF KillInvisible

LEMMA InvalidateSound ==
    ASSUME NEW s \in SoundStates, NEW gone
    PROVE  Invalidate(s, gone) \in SoundStates
<1> DEFINE after == [l \in Locals |->
              IF l \in gone THEN Uninit
              ELSE IF s.locals[l].roots \cap gone = {} THEN s.locals[l]
              ELSE WithRoots(s.locals[l], s.locals[l].roots \ gone)]
<1>1. s.locals \in [Locals -> SettledLocals]
  BY SoundParts
<1>2. \A l \in Locals : s.locals[l].roots \ gone \in SUBSET Locals
  BY <1>1 DEF SettledLocals, LocalState
<1>3. after \in [Locals -> SettledLocals]
  BY <1>1, <1>2, WithRootsSettled, ConstantLocals
<1>4. Recounted(after) \in SoundStates
  BY <1>3, RecountedSound
<1> QED
  BY <1>4 DEF Invalidate

\* What check_inconsistent_move_join lets through joins to a sound state.
LEMMA JoinSound ==
    ASSUME NEW s \in SoundStates, NEW o \in SoundStates, ~InconsistentMove(s, o)
    PROVE  Join(s, o) \in SoundStates
<1> DEFINE Both(l) == [mode   |-> s.locals[l].mode \cup o.locals[l].mode,
                       roots  |-> s.locals[l].roots \cup o.locals[l].roots,
                       direct |-> s.locals[l].direct \cup o.locals[l].direct]
<1>1. s.locals \in [Locals -> SettledLocals] /\ o.locals \in [Locals -> SettledLocals]
  BY SoundParts
<1>2. ASSUME NEW l \in Locals PROVE Both(l) \in SettledLocals
  <2>1. /\ s.locals[l] \in LocalState /\ Settled(s.locals[l])
        /\ o.locals[l] \in LocalState /\ Settled(o.locals[l])
    BY <1>1 DEF SettledLocals
  <2>2. s.locals[l].mode = {"uninit"} <=> o.locals[l].mode = {"uninit"}
    BY DEF InconsistentMove, DefinitelyUninit
  <2>3. Both(l) \in LocalState
    BY <2>1 DEF LocalState
  <2>4. \/ Both(l).mode = {"uninit"}
        \/ Both(l).mode \in {{"slot"}, {"alias"}, {"slot", "alias"}}
    BY <2>1, <2>2, Zenon DEF Settled
  <2>5. /\ (Both(l).roots # {}) <=> ("alias" \in Both(l).mode)
        /\ Both(l).direct \subseteq Both(l).roots
    BY <2>1 DEF Settled
  <2> QED
    BY <2>3, <2>4, <2>5 DEF SettledLocals, Settled
<1>3. [l \in Locals |-> Both(l)] \in [Locals -> SettledLocals]
  BY <1>2
<1>4. Recounted([l \in Locals |-> Both(l)]) \in SoundStates
  BY <1>3, RecountedSound
<1> QED
  BY <1>4 DEF Join

-----------------------------------------------------------------------------
(* The statements *)

LEMMA BoundSettled ==
    ASSUME NEW s \in SoundStates, NEW b, NEW key,
           NEW stmt, stmt.from \in Locals \cup {None}
    PROVE  Bound(s, b, key, stmt) \in SettledLocals
<1> DEFINE viewed == ViewedBy(s, stmt.from)
           direct == DirectlyViewed(s, stmt.from)
<1>1. s.locals \in [Locals -> SettledLocals]
  BY SoundParts
<1>2. CASE viewed = {} \/ AssignMoves(s, b, key, stmt)
  BY <1>2, ConstantLocals DEF Bound
<1>3. CASE viewed # {} /\ ~AssignMoves(s, b, key, stmt)
  <2>1. stmt.from \in Locals /\ viewed = RootsOf(s.locals, stmt.from)
    BY <1>3 DEF ViewedBy, EffectiveRoots
  <2>2. viewed \in SUBSET Locals
    BY <1>1, <2>1, RootsAreLocals
  <2>3. direct \subseteq viewed
    BY <2>1 DEF DirectlyViewed, RootsOf
  <2>4. AliasOf(viewed, direct) \in SettledLocals
    BY <1>3, <2>2, <2>3, AliasSettled
  <2> QED
    BY <1>3, <2>4 DEF Bound
<1> QED
  BY <1>2, <1>3

LEMMA WidenedSettled ==
    ASSUME NEW old \in SettledLocals, NEW bound \in SettledLocals,
           old.mode = {"slot", "alias"}
    PROVE  [mode |-> old.mode, roots |-> old.roots \cup bound.roots,
            direct |-> old.direct \cup bound.direct] \in SettledLocals
<1> DEFINE widened == [mode |-> old.mode, roots |-> old.roots \cup bound.roots,
                       direct |-> old.direct \cup bound.direct]
<1>1. old \in LocalState /\ Settled(old) /\ bound \in LocalState /\ Settled(bound)
  BY DEF SettledLocals
<1>2. widened \in LocalState
  BY <1>1 DEF LocalState
<1>3. Settled(widened)
  BY <1>1 DEF Settled
<1> QED
  BY <1>2, <1>3 DEF SettledLocals

\* transfer_assign_target and apply_slot_rebinding.
LEMMA AssignedSound ==
    ASSUME NEW s \in SoundStates, NEW b, NEW key,
           NEW stmt, stmt.from \in Locals \cup {None}, stmt.to \in Locals
    PROVE  Assigned(s, b, key, stmt) \in SoundStates
<1> DEFINE old   == s.locals[stmt.to]
           bound == Bound(s, b, key, stmt)
           moved == IF AssignMoves(s, b, key, stmt)
                      THEN Invalidate(s, ViewedBy(s, stmt.from)) ELSE s
           widened == [mode |-> old.mode, roots |-> old.roots \cup bound.roots,
                       direct |-> old.direct \cup bound.direct]
<1>1. bound \in SettledLocals
  BY BoundSettled
<1>2. moved \in SoundStates
  BY InvalidateSound
<1>3. UpdateLocal(moved, stmt.to, bound) \in SoundStates
  BY <1>1, <1>2, UpdateSound
<1>4. CASE DefinitelyUninit(old) \/ old.mode = {"slot"}
  BY <1>3, <1>4 DEF Assigned
<1>5. CASE ~DefinitelyUninit(old) /\ old.mode # {"slot"} /\ old.mode = {"alias"}
  BY <1>5 DEF Assigned
<1>6. CASE ~DefinitelyUninit(old) /\ old.mode # {"slot"} /\ old.mode # {"alias"}
  <2>1. old \in SettledLocals
    BY SoundParts
  <2>2. old.mode = {"slot", "alias"}
    BY <1>6, <2>1 DEF SettledLocals, Settled, DefinitelyUninit
  <2>3. widened \in SettledLocals
    BY <1>1, <2>1, <2>2, WidenedSettled
  <2>4. UpdateLocal(s, stmt.to, widened) \in SoundStates
    BY <2>3, UpdateSound
  <2> QED
    BY <1>6, <2>4 DEF Assigned
<1> QED
  BY <1>4, <1>5, <1>6

LEMMA StatementSound ==
    ASSUME NEW s \in SoundStates, NEW b, NEW key, NEW stmt, WellFormed(stmt)
    PROVE  AfterStatement(s, b, key, stmt) \in SoundStates
<1>1. CASE stmt.kind = "assign"
  <2>1. stmt.to \in Locals /\ stmt.from \in Locals \cup {None}
    BY <1>1 DEF WellFormed, StatementSet
  <2> QED
    BY <1>1, <2>1, AssignedSound DEF AfterStatement
<1>2. CASE stmt.kind = "pack"
  <2> DEFINE plain == [stmt EXCEPT !.from = None]
  <2>1. stmt.to \in Locals /\ plain.to = stmt.to /\ plain.from = None
    BY <1>2 DEF WellFormed, StatementSet
  <2>2. Assigned(s, b, key, plain) \in SoundStates
    BY <2>1, AssignedSound
  <2>3. Packed(s, b, key, stmt) \in SoundStates
    BY <2>2, InvalidateSound DEF Packed
  <2> QED
    BY <1>2, <2>3 DEF AfterStatement
<1>3. CASE stmt.kind \notin {"assign", "pack"}
  BY <1>3 DEF AfterStatement
<1> QED
  BY <1>1, <1>2, <1>3

LEMMA ArgumentSound ==
    ASSUME NEW s \in SoundStates, NEW b, NEW key, NEW stmt, NEW rs, NEW i
    PROVE  AfterArgument(s, b, key, stmt, rs, i) \in SoundStates
BY InvalidateSound DEF AfterArgument

LEMMA CallSound ==
    ASSUME NEW s \in SoundStates, NEW stmt, WellFormed(stmt),
           NEW rs \in [DOMAIN stmt.args -> SUBSET Locals]
    PROVE  AfterCall(s, stmt, rs) \in SoundStates
<1> DEFINE viewed == UNION {rs[i] : i \in stmt.ret}
<1>1. viewed \in SUBSET Locals
  BY DEF WellFormed
<1>2. (IF viewed = {} THEN Slot ELSE AliasOf(viewed, {})) \in SettledLocals
  BY <1>1, AliasSettled, ConstantLocals
<1>3. CASE stmt.to = None
  BY <1>3 DEF AfterCall
<1>4. CASE stmt.to # None
  <2>1. stmt.to \in Locals
    BY <1>4 DEF WellFormed, StatementSet
  <2> QED
    BY <1>2, <1>4, <2>1, UpdateSound DEF AfterCall
<1> QED
  BY <1>3, <1>4

-----------------------------------------------------------------------------
(* The analysis *)

CallInProgress ==
    IF arg = 0 THEN roots = << >>
    ELSE /\ block # 0 /\ index \in DOMAIN Statements(block)
         /\ Statement.kind = "call"
         /\ roots \in [DOMAIN Statement.args -> SUBSET Locals]

AnalysisInv ==
    /\ prog \in Programs
    /\ ins \in [Blocks -> SUBSET SoundStates]
    /\ work \in Seq(Blocks)
    /\ block \in Blocks \cup {0}
    /\ state \in SoundStates
    /\ CallInProgress

LEMMA ProgramFacts ==
    ASSUME prog \in Programs
    PROVE  /\ 0 \notin Blocks
           /\ 1 \in Blocks
           /\ \A b \in Blocks : /\ Statements(b) \in Seq(StatementSet)
                             /\ prog.succ[b] \in Seq(Blocks)
                             /\ \A i \in DOMAIN Statements(b) : WellFormed(Statements(b)[i])
<1>1. /\ prog.stmts \in Seq(Seq(StatementSet)) \ {<< >>}
      /\ \A b \in DOMAIN prog.stmts : \A i \in DOMAIN prog.stmts[b] : WellFormed(prog.stmts[b][i])
      /\ prog.succ \in [DOMAIN prog.stmts -> Seq(DOMAIN prog.stmts)]
  BY ProgramsAssumption
<1> DEFINE SS == Seq(StatementSet)
<1> HIDE DEF SS
<1>2. prog.stmts \in Seq(SS) /\ prog.stmts # << >>
  BY <1>1 DEF SS
<1>3. DOMAIN prog.stmts = 1 .. Len(prog.stmts) /\ Len(prog.stmts) \in Nat
  BY <1>2
<1>4. Len(prog.stmts) > 0
  BY <1>2
<1>5. \A b \in DOMAIN prog.stmts : prog.stmts[b] \in SS
  BY <1>2
<1> QED
  BY <1>1, <1>3, <1>4, <1>5 DEF Blocks, Statements, SS

LEMMA NewSound == NewUninitialized \in SoundStates
<1> DEFINE locals == [l \in Locals |-> Uninit]
<1>1. locals \in [Locals -> SettledLocals]
  BY ConstantLocals
<1>2. \A r \in Locals : Holders(locals, r) = {}
  BY DEF Holders, RootsOf, Uninit
<1>3. NewUninitialized = Recounted(locals)
  BY <1>2, FS_EmptySet DEF NewUninitialized, Recounted
<1> QED
  BY <1>1, <1>3, RecountedSound

LEMMA InitialInv == Init => AnalysisInv
<1> SUFFICES ASSUME Init PROVE AnalysisInv
  OBVIOUS
<1>1. prog \in Programs /\ work = << 1 >> /\ Idle
  BY DEF Init
<1>2. 1 \in Blocks
  BY <1>1, ProgramFacts
<1>3. InitializeParameters(Params) \in SoundStates
  <2>1. [l \in Locals |-> IF l \in Params THEN Slot ELSE Uninit] \in [Locals -> SettledLocals]
    BY ConstantLocals
  <2> QED
    BY <2>1, RecountedSound DEF InitializeParameters
<1>4. KillInvisible(InitializeParameters(Params), Visible(1)) \in SoundStates
  BY <1>3, KillSound
<1>5. ins = [b \in Blocks |->
               IF b = 1 THEN {KillInvisible(InitializeParameters(Params), Visible(1))} ELSE {}]
  BY DEF Init
<1>6. ins \in [Blocks -> SUBSET SoundStates]
  BY <1>4, <1>5
<1>7. state \in SoundStates /\ block = 0 /\ arg = 0 /\ roots = << >>
  BY <1>1, NewSound DEF Idle
<1>8. work \in Seq(Blocks)
  BY <1>1, <1>2
<1> QED
  BY <1>1, <1>6, <1>7, <1>8 DEF AnalysisInv, CallInProgress

LEMMA StepInv == AnalysisInv /\ [Next]_checkVars => AnalysisInv'
<1> SUFFICES ASSUME AnalysisInv, [Next]_checkVars PROVE AnalysisInv'
  OBVIOUS
<1> USE DEF facts, visit
<1>1. /\ prog \in Programs
      /\ ins \in [Blocks -> SUBSET SoundStates]
      /\ work \in Seq(Blocks)
      /\ block \in Blocks \cup {0}
      /\ state \in SoundStates
      /\ CallInProgress
  BY DEF AnalysisInv
<1>2. /\ 0 \notin Blocks
      /\ \A b \in Blocks : /\ Statements(b) \in Seq(StatementSet)
                        /\ prog.succ[b] \in Seq(Blocks)
                        /\ \A i \in DOMAIN Statements(b) : WellFormed(Statements(b)[i])
  BY <1>1, ProgramFacts
<1>3. prog' = prog
  BY DEF Next, checkVars, ComputeMayUse, ComputeMustUse, TakeBlock, TransferStatement,
         ReadArguments, TransferArgument, TransferResult, TransferTerminator, PropagateEdge,
         FinishBlock, Accept
<1>4. Blocks' = Blocks
  BY <1>3 DEF Blocks
<1>5. ASSUME UNCHANGED << ins, work, visit >> PROVE AnalysisInv'
  BY <1>1, <1>3, <1>4, <1>5
     DEF AnalysisInv, CallInProgress, Statements, Statement
<1>6. ASSUME AtTerminator PROVE arg = 0 /\ roots = << >>
  <2>1. Statements(block) \in Seq(StatementSet) /\ index = Len(Statements(block)) + 1
    BY <1>1, <1>2, <1>6 DEF AtTerminator
  <2>2. index \notin DOMAIN Statements(block)
    BY <2>1
  <2> QED
    BY <1>1, <2>2 DEF CallInProgress
<1>7. ASSUME InStatements PROVE Statement \in StatementSet /\ WellFormed(Statement)
  BY <1>1, <1>2, <1>7 DEF InStatements, Statement, WellFormed
<1>8. ASSUME Reject PROVE UNCHANGED << ins, work, visit >>
  BY <1>8 DEF Reject
<1>9. CASE ComputeMayUse
  BY <1>5, <1>9 DEF ComputeMayUse
<1>10. CASE ComputeMustUse
  BY <1>5, <1>10 DEF ComputeMustUse
<1>11. CASE TakeBlock
  <2>1. PICK in \in ins[Head(work)] :
          /\ ins' = [ins EXCEPT ![Head(work)] = {KillInvisible(in, Visible(Head(work)))}]
          /\ block' = Head(work)
          /\ state' = KillInvisible(in, Visible(Head(work)))
    BY <1>11 DEF TakeBlock
  <2>2. Head(work) \in Blocks /\ Tail(work) \in Seq(Blocks)
    BY <1>1, <1>11 DEF TakeBlock
  <2>3. in \in SoundStates
    BY <1>1, <2>1, <2>2
  <2>4. state' \in SoundStates
    BY <2>1, <2>3, KillSound
  <2>5. ins' \in [Blocks -> SUBSET SoundStates]
    BY <1>1, <2>1, <2>2, <2>4
  <2>6. arg' = 0 /\ roots' = << >>
    BY <1>1, <1>11 DEF TakeBlock, CallInProgress
  <2>7. work' \in Seq(Blocks)
    BY <1>11, <2>2 DEF TakeBlock
  <2> QED
    BY <1>1, <1>3, <1>4, <2>1, <2>2, <2>4, <2>5, <2>6, <2>7 DEF AnalysisInv, CallInProgress
<1>12. CASE TransferStatement
  <2>1. CASE ~StatementAllowed(state, block, Key, Statement)
    BY <1>5, <1>8, <1>12, <2>1 DEF TransferStatement
  <2>2. CASE StatementAllowed(state, block, Key, Statement)
    <3>1. /\ InStatements /\ state' = AfterStatement(state, block, Key, Statement)
          /\ UNCHANGED << ins, work, block, arg, roots >>
      BY <1>12, <2>2 DEF TransferStatement
    <3>2. state' \in SoundStates
      BY <1>1, <1>7, <3>1, StatementSound
    <3>3. arg = 0 /\ roots = << >>
      BY <1>1, <1>12 DEF TransferStatement, CallInProgress
    <3> QED
      BY <1>1, <1>3, <1>4, <3>1, <3>2, <3>3 DEF AnalysisInv, CallInProgress
  <2> QED
    BY <2>1, <2>2
<1>13. CASE ReadArguments
  <2>1. CASE ~ArgumentsReadable(state, block, Key, Statement)
    BY <1>5, <1>8, <1>13, <2>1 DEF ReadArguments
  <2>2. CASE ArgumentsReadable(state, block, Key, Statement)
    <3>1. /\ InStatements
          /\ roots' = [i \in DOMAIN Statement.args |-> ArgumentRoots(state, Statement, i)]
          /\ UNCHANGED << ins, work, block, state, index >>
      BY <1>13, <2>2 DEF ReadArguments
    <3>2. ASSUME NEW i \in DOMAIN Statement.args PROVE Statement.args[i].local \in Locals
      <4>1. Statement.args \in Seq(Arguments)
        BY <1>7, <3>1 DEF StatementSet
      <4>2. Statement.args[i] \in Arguments
        BY <4>1
      <4> QED
        BY <4>2 DEF Arguments
    <3>3. ASSUME NEW i \in DOMAIN Statement.args
          PROVE  ArgumentRoots(state, Statement, i) \in SUBSET Locals
      BY <1>1, <3>2, SoundParts, RootsAreLocals DEF ArgumentRoots, EffectiveRoots
    <3>4. Statement' = Statement /\ Statements(block)' = Statements(block)
      BY <1>3, <3>1 DEF Statement, Statements
    <3>5. roots' \in [DOMAIN Statement.args -> SUBSET Locals]
      BY <3>1, <3>3
    <3>6. CallInProgress'
      BY <1>13, <2>2, <3>1, <3>4, <3>5 DEF CallInProgress, InStatements, ReadArguments
    <3> QED
      BY <1>1, <1>3, <1>4, <3>1, <3>6 DEF AnalysisInv
  <2> QED
    BY <2>1, <2>2
<1>14. CASE TransferArgument
  <2>1. CASE ~ArgumentAllowed(state, block, Key, Statement, roots, arg, tracker)
    BY <1>5, <1>8, <1>14, <2>1 DEF TransferArgument
  <2>2. CASE ArgumentAllowed(state, block, Key, Statement, roots, arg, tracker)
    <3>1. /\ InStatements /\ arg \in DOMAIN roots
          /\ state' = AfterArgument(state, block, Key, Statement, roots, arg)
          /\ UNCHANGED << ins, work, block, index, roots >>
      BY <1>14, <2>2 DEF TransferArgument
    <3>2. state' \in SoundStates
      BY <1>1, <3>1, ArgumentSound
    <3>3. arg # 0
      BY <1>1, <3>1 DEF CallInProgress
    <3>4. arg' # 0
      BY <1>1, <1>7, <1>14, <2>2, <3>1, <3>3 DEF TransferArgument, CallInProgress, StatementSet
    <3>5. Statement' = Statement /\ Statements(block)' = Statements(block)
      BY <1>3, <3>1 DEF Statement, Statements
    <3>6. CallInProgress'
      BY <1>1, <3>1, <3>3, <3>4, <3>5 DEF CallInProgress
    <3> QED
      BY <1>1, <1>3, <1>4, <3>1, <3>2, <3>6 DEF AnalysisInv
  <2> QED
    BY <2>1, <2>2
<1>15. CASE TransferResult
  <2>1. /\ InStatements /\ arg = Len(roots) + 1
        /\ state' = AfterCall(state, Statement, roots)
        /\ arg' = 0 /\ roots' = << >>
        /\ UNCHANGED << ins, work, block >>
    BY <1>15 DEF TransferResult
  <2>2. arg # 0
    BY <1>1, <2>1 DEF CallInProgress
  <2>3. state' \in SoundStates
    BY <1>1, <1>7, <2>1, <2>2, CallSound DEF CallInProgress
  <2> QED
    BY <1>1, <1>3, <1>4, <2>1, <2>3 DEF AnalysisInv, CallInProgress
<1>16. CASE TransferTerminator
  <2>1. CASE ~\A l \in prog.reads[block] : Readable(state, block, Key, l)
    BY <1>5, <1>8, <1>16, <2>1 DEF TransferTerminator
  <2>2. CASE \A l \in prog.reads[block] : Readable(state, block, Key, l)
    <3>1. /\ AtTerminator
          /\ UNCHANGED << ins, work, arg, roots >>
          /\ \/ block' = 0 /\ state' = NewUninitialized
             \/ UNCHANGED << block, state >>
      BY <1>16, <2>2 DEF TransferTerminator, LeaveBlock
    <3> QED
      BY <1>1, <1>3, <1>4, <1>6, <3>1, NewSound DEF AnalysisInv, CallInProgress
  <2> QED
    BY <2>1, <2>2
<1>17. CASE PropagateEdge
  <2> DEFINE next     == prog.succ[block][edge]
             incoming == KillInvisible(state, Visible(next))
             joined   == {Join(in, incoming) : in \in ins[next]}
             new      == IF ins[next] = {} THEN {incoming} ELSE joined
  <2>1. AtTerminator /\ next \in Blocks
    BY <1>1, <1>2, <1>17 DEF PropagateEdge, AtTerminator
  <2>2. incoming \in SoundStates
    BY <1>1, KillSound
  <2>3. CASE \E in \in ins[next] : InconsistentMove(in, incoming)
    BY <1>5, <1>8, <1>17, <2>3 DEF PropagateEdge
  <2>4. CASE ~\E in \in ins[next] : InconsistentMove(in, incoming)
    <3>1. ASSUME NEW in \in ins[next] PROVE Join(in, incoming) \in SoundStates
      <4>1. in \in SoundStates /\ ~InconsistentMove(in, incoming)
        BY <1>1, <2>1, <2>4
      <4> HIDE DEF incoming, next
      <4> QED
        BY <2>2, <4>1, JoinSound
    <3>2. new \in SUBSET SoundStates
      BY <2>2, <3>1
    <3>3. /\ ins' = [ins EXCEPT ![next] = new]
          /\ work' = IF new = ins[next] THEN work ELSE Append(work, next)
          /\ UNCHANGED << block, state, index, arg, roots >>
      BY <1>17, <2>4 DEF PropagateEdge
    <3> HIDE DEF new, next, incoming, joined
    <3>4. ins' \in [Blocks -> SUBSET SoundStates] /\ work' \in Seq(Blocks)
      BY <1>1, <2>1, <3>2, <3>3
    <3>5. arg' = 0 /\ roots' = << >>
      BY <1>6, <2>1, <3>3
    <3> QED
      BY <1>1, <1>3, <1>4, <3>3, <3>4, <3>5 DEF AnalysisInv, CallInProgress
  <2> QED
    BY <2>3, <2>4
<1>18. CASE FinishBlock
  <2>1. /\ AtTerminator /\ block' = 0 /\ state' = NewUninitialized
        /\ UNCHANGED << ins, work, arg, roots >>
    BY <1>18 DEF FinishBlock, LeaveBlock
  <2> QED
    BY <1>1, <1>3, <1>4, <1>6, <2>1, NewSound DEF AnalysisInv, CallInProgress
<1>19. CASE Accept
  BY <1>5, <1>19 DEF Accept
<1>20. CASE UNCHANGED checkVars
  BY <1>5, <1>20 DEF checkVars
<1> QED
  BY <1>9, <1>10, <1>11, <1>12, <1>13, <1>14, <1>15, <1>16, <1>17, <1>18, <1>19, <1>20 DEF Next

\* In every state of the analysis of every function a local is settled and the
\* cached holder counts are exact: what check_mutable_access counts is the
\* number of holders there is.
THEOREM AnalysisStatesAreSound == Spec => []StateSound
<1>1. AnalysisInv => StateSound
  BY DEF AnalysisInv, StateSound, SoundStates
<1>2. Spec => []AnalysisInv
  BY InitialInv, StepInv, PTL DEF Spec
<1> QED
  BY <1>1, <1>2, PTL

-----------------------------------------------------------------------------
(* Regions *)

\* Nothing of s lives outside the locals in visible.
Clean(s, visible) ==
    \A l \in Locals : /\ l \notin visible => s.locals[l] = Uninit
                      /\ s.locals[l].roots \subseteq visible

KilledLocals(s, visible) ==
    [l \in Locals |-> IF l \notin visible THEN Uninit
                      ELSE WithRoots(s.locals[l], s.locals[l].roots \cap visible)]

LEMMA KillLocals ==
    ASSUME NEW s, NEW visible
    PROVE  KillInvisible(s, visible).locals = KilledLocals(s, visible)
BY DEF KillInvisible, KilledLocals, Recounted

LEMMA WithRootsWithin ==
    ASSUME NEW local \in SettledLocals, NEW visible
    PROVE  WithRoots(local, local.roots \cap visible).roots \subseteq visible
<1> DEFINE rs == local.roots \cap visible
<1>1. local \in LocalState /\ Settled(local)
  BY DEF SettledLocals
<1>2. CASE "alias" \notin local.mode
  BY <1>1, <1>2 DEF WithRoots, Settled
<1>3. CASE "alias" \in local.mode /\ rs = {}
  BY <1>3 DEF WithRoots, Slot, Uninit
<1>4. CASE "alias" \in local.mode /\ rs # {}
  <2>1. WithRoots(local, rs)
          = [mode |-> local.mode, roots |-> rs, direct |-> local.direct \cap rs]
    BY <1>1, <1>4 DEF WithRoots, LocalState
  <2> QED
    BY <2>1
<1> QED
  BY <1>2, <1>3, <1>4

LEMMA WithRootsSame ==
    ASSUME NEW local \in SettledLocals
    PROVE  WithRoots(local, local.roots) = local
<1>1. local \in LocalState /\ Settled(local)
  BY DEF SettledLocals
<1>2. CASE "alias" \notin local.mode
  BY <1>2 DEF WithRoots
<1>3. CASE "alias" \in local.mode
  <2>1. local.roots # {} /\ local.direct \cap local.roots = local.direct
    BY <1>1, <1>3 DEF Settled
  <2>2. WithRoots(local, local.roots)
          = [mode |-> local.mode, roots |-> local.roots,
             direct |-> local.direct \cap local.roots]
    BY <1>1, <1>3, <2>1 DEF WithRoots, LocalState
  <2>3. local = [mode |-> local.mode, roots |-> local.roots, direct |-> local.direct]
    BY <1>1 DEF LocalState
  <2> QED
    BY <2>1, <2>2, <2>3
<1> QED
  BY <1>2, <1>3

\* kill_invisible leaves nothing to kill.
LEMMA KillIsClean ==
    ASSUME NEW s \in SoundStates, NEW visible
    PROVE  Clean(KillInvisible(s, visible), visible)
<1>1. s.locals \in [Locals -> SettledLocals]
  BY SoundParts
<1>2. ASSUME NEW l \in Locals, l \notin visible
      PROVE  KilledLocals(s, visible)[l] = Uninit
  BY <1>2 DEF KilledLocals
<1>3. ASSUME NEW l \in Locals
      PROVE  KilledLocals(s, visible)[l].roots \subseteq visible
  BY <1>1, WithRootsWithin DEF KilledLocals, Uninit
<1> QED
  BY <1>2, <1>3, KillLocals DEF Clean

LEMMA CleanIsKept ==
    ASSUME NEW s \in SoundStates, NEW visible, Clean(s, visible)
    PROVE  KillInvisible(s, visible) = s
<1>1. s.locals \in [Locals -> SettledLocals]
  BY SoundParts
<1>2. ASSUME NEW l \in Locals PROVE KilledLocals(s, visible)[l] = s.locals[l]
  <2>1. s.locals[l].roots \cap visible = s.locals[l].roots
    BY DEF Clean
  <2>2. WithRoots(s.locals[l], s.locals[l].roots) = s.locals[l]
    BY <1>1, WithRootsSame
  <2> QED
    BY <2>1, <2>2 DEF KilledLocals, Clean
<1>3. KilledLocals(s, visible) = s.locals
  BY <1>1, <1>2 DEF KilledLocals
<1> QED
  BY <1>3 DEF KillInvisible, KilledLocals

-----------------------------------------------------------------------------
(* Joins *)

Merged(s, o) ==
    [l \in Locals |-> [mode   |-> s.locals[l].mode \cup o.locals[l].mode,
                       roots  |-> s.locals[l].roots \cup o.locals[l].roots,
                       direct |-> s.locals[l].direct \cup o.locals[l].direct]]

LEMMA JoinIsMerged ==
    ASSUME NEW s, NEW o
    PROVE  Join(s, o) = Recounted(Merged(s, o)) /\ Join(s, o).locals = Merged(s, o)
BY DEF Join, Merged, Recounted

\* What merges to the same sets at every local merges to the same locals.
LEMMA MergedEqual ==
    ASSUME NEW s, NEW o, NEW p, NEW q,
           \A l \in Locals :
             /\ s.locals[l].mode \cup o.locals[l].mode
                  = p.locals[l].mode \cup q.locals[l].mode
             /\ s.locals[l].roots \cup o.locals[l].roots
                  = p.locals[l].roots \cup q.locals[l].roots
             /\ s.locals[l].direct \cup o.locals[l].direct
                  = p.locals[l].direct \cup q.locals[l].direct
    PROVE  Join(s, o) = Join(p, q)
<1>1. ASSUME NEW l \in Locals PROVE Merged(s, o)[l] = Merged(p, q)[l]
  BY DEF Merged
<1>2. Merged(s, o) = Merged(p, q)
  BY <1>1 DEF Merged
<1>3. Join(s, o) = Recounted(Merged(s, o)) /\ Join(p, q) = Recounted(Merged(p, q))
  BY JoinIsMerged
<1> QED
  BY <1>2, <1>3

\* What was joined once is part of the state.
LEMMA JoinAbsorbs ==
    ASSUME NEW s, NEW o
    PROVE  Join(Join(s, o), o) = Join(s, o)
<1> DEFINE j == Join(s, o)
<1>1. j.locals = Merged(s, o)
  BY JoinIsMerged
<1> HIDE DEF j
<1>2. ASSUME NEW l \in Locals
      PROVE  /\ j.locals[l].mode = s.locals[l].mode \cup o.locals[l].mode
             /\ j.locals[l].roots = s.locals[l].roots \cup o.locals[l].roots
             /\ j.locals[l].direct = s.locals[l].direct \cup o.locals[l].direct
  BY <1>1 DEF Merged
<1>3. Join(j, o) = Join(s, o)
  BY <1>2, MergedEqual
<1> QED
  BY <1>3 DEF j

\* A later join keeps what was part of the state.
LEMMA JoinKeeps ==
    ASSUME NEW s, NEW o, NEW p, Join(s, o) = s
    PROVE  Join(Join(s, p), o) = Join(s, p)
<1> DEFINE j == Join(s, p)
<1>1. j.locals = Merged(s, p) /\ s.locals = Merged(s, o)
  BY JoinIsMerged
<1> HIDE DEF j
<1>2. ASSUME NEW l \in Locals
      PROVE  /\ j.locals[l].mode \cup o.locals[l].mode
                  = s.locals[l].mode \cup p.locals[l].mode
             /\ j.locals[l].roots \cup o.locals[l].roots
                  = s.locals[l].roots \cup p.locals[l].roots
             /\ j.locals[l].direct \cup o.locals[l].direct
                  = s.locals[l].direct \cup p.locals[l].direct
  <2>1. /\ s.locals[l].mode = s.locals[l].mode \cup o.locals[l].mode
        /\ s.locals[l].roots = s.locals[l].roots \cup o.locals[l].roots
        /\ s.locals[l].direct = s.locals[l].direct \cup o.locals[l].direct
    BY <1>1 DEF Merged
  <2>2. /\ j.locals[l].mode = s.locals[l].mode \cup p.locals[l].mode
        /\ j.locals[l].roots = s.locals[l].roots \cup p.locals[l].roots
        /\ j.locals[l].direct = s.locals[l].direct \cup p.locals[l].direct
    BY <1>1 DEF Merged
  <2> QED
    BY <2>1, <2>2
<1>3. Join(j, o) = Join(s, p)
  BY <1>2, MergedEqual
<1> QED
  BY <1>3 DEF j

LEMMA JoinSelf ==
    ASSUME NEW s \in SoundStates
    PROVE  Join(s, s) = s
<1>1. /\ s \in State
      /\ s.locals \in [Locals -> SettledLocals]
      /\ s.counts = [r \in Locals |-> Cardinality(Holders(s.locals, r))]
  BY SoundParts
<1>2. ASSUME NEW l \in Locals PROVE Merged(s, s)[l] = s.locals[l]
  <2>1. s.locals[l] \in LocalState
    BY <1>1 DEF SettledLocals
  <2>2. s.locals[l] = [mode |-> s.locals[l].mode, roots |-> s.locals[l].roots,
                       direct |-> s.locals[l].direct]
    BY <2>1 DEF LocalState
  <2> QED
    BY <2>2 DEF Merged
<1>3. Merged(s, s) = s.locals
  BY <1>1, <1>2 DEF Merged
<1>4. s = [locals |-> s.locals, counts |-> s.counts]
  BY <1>1 DEF State
<1> QED
  BY <1>1, <1>3, <1>4, JoinIsMerged DEF Recounted

LEMMA JoinClean ==
    ASSUME NEW s, NEW o, NEW visible, Clean(s, visible), Clean(o, visible)
    PROVE  Clean(Join(s, o), visible)
<1>1. ASSUME NEW l \in Locals
      PROVE  /\ l \notin visible => Merged(s, o)[l] = Uninit
             /\ Merged(s, o)[l].roots \subseteq visible
  BY DEF Merged, Clean, Uninit
<1> QED
  BY <1>1, JoinIsMerged DEF Clean

-----------------------------------------------------------------------------
(* The worklist *)

Pending(b) == \E i \in 1 .. Len(work) : work[i] = b

\* The block being visited has the state recorded on its entry, or was checked
\* with it.
Current == IF index > 1 \/ arg # 0 THEN CheckedWithEntry(block) ELSE ins[block] = {state}

Progress == block # 0 => index \in Nat /\ index > 0 /\ (Pending(block) \/ Current)

Propagated ==
    edge # 0 =>
      /\ block # 0 /\ edge \in Nat
      /\ index = Len(Statements(block)) + 1
      /\ \A i \in DOMAIN prog.succ[block] : i < edge => Covered(state, prog.succ[block][i])

EntriesShape ==
    /\ DOMAIN entries = Blocks
    /\ \A b \in Blocks : DOMAIN entries[b] = DOMAIN Statements(b)

\* At most one state is recorded on each entry, one on that of the first block.
OneEntry ==
    /\ ins[1] # {}
    /\ \A b \in Blocks : \A in, other \in ins[b] : in = other

CleanEntries == \A b \in Blocks : \A in \in ins[b] : Clean(in, Visible(b))

CoveredExits ==
    \A b \in Blocks : \A out \in outs[b], next \in Successors(b) : Covered(out, next)

Visited(b) == outs[b] # {} /\ CheckedWithEntry(b)

NothingLost == \A b \in Blocks \ {block} : ins[b] # {} => Pending(b) \/ Visited(b)

EmptyAtTheEnd == phase = "accepted" => work = << >> /\ block = 0

WorklistInv ==
    /\ outs \in [Blocks -> SUBSET SoundStates]
    /\ EntriesShape
    /\ OneEntry
    /\ CleanEntries
    /\ CoveredExits
    /\ NothingLost
    /\ Progress
    /\ Propagated
    /\ EmptyAtTheEnd

LEMMA PendingTail ==
    ASSUME NEW w \in Seq(Blocks), w # << >>, NEW b, b # Head(w),
           \E i \in 1 .. Len(w) : w[i] = b
    PROVE  \E i \in 1 .. Len(Tail(w)) : Tail(w)[i] = b
<1>1. PICK i \in 1 .. Len(w) : w[i] = b
  OBVIOUS
<1>2. Head(w) = w[1] /\ Len(Tail(w)) = Len(w) - 1
  OBVIOUS
<1>3. i # 1 /\ i - 1 \in 1 .. Len(Tail(w))
  BY <1>1, <1>2
<1>4. Tail(w)[i - 1] = w[i]
  BY <1>1, <1>3
<1> QED
  BY <1>1, <1>3, <1>4

LEMMA PendingAppend ==
    ASSUME NEW w \in Seq(Blocks), NEW next \in Blocks
    PROVE  /\ \E i \in 1 .. Len(Append(w, next)) : Append(w, next)[i] = next
           /\ \A b : (\E i \in 1 .. Len(w) : w[i] = b)
                     => \E i \in 1 .. Len(Append(w, next)) : Append(w, next)[i] = b
<1>1. /\ Len(Append(w, next)) = Len(w) + 1
      /\ Append(w, next)[Len(w) + 1] = next
      /\ \A i \in 1 .. Len(w) : Append(w, next)[i] = w[i]
  OBVIOUS
<1>2. Len(w) \in Nat
  OBVIOUS
<1> QED
  BY <1>1, <1>2

LEMMA InitialWorklist == Init => WorklistInv
<1> SUFFICES ASSUME Init PROVE WorklistInv
  OBVIOUS
<1> DEFINE first == KillInvisible(InitializeParameters(Params), Visible(1))
<1>1. /\ prog \in Programs /\ work = << 1 >> /\ Idle /\ phase = "may"
      /\ outs = [b \in Blocks |-> {}]
      /\ ins = [b \in Blocks |-> IF b = 1 THEN {first} ELSE {}]
      /\ entries = [b \in Blocks |-> [i \in DOMAIN Statements(b) |-> {}]]
  BY DEF Init
<1>2. 1 \in Blocks /\ 0 \notin Blocks
  BY <1>1, ProgramFacts
<1>3. InitializeParameters(Params) \in SoundStates
  <2>1. [l \in Locals |-> IF l \in Params THEN Slot ELSE Uninit] \in [Locals -> SettledLocals]
    BY ConstantLocals
  <2> QED
    BY <2>1, RecountedSound DEF InitializeParameters
<1>4. Clean(first, Visible(1))
  BY <1>3, KillIsClean
<1> HIDE DEF first
<1>5. ins[1] = {first} /\ \A b \in Blocks : b # 1 => ins[b] = {}
  BY <1>1, <1>2
<1>6. \A b \in Blocks : \A in \in ins[b] : b = 1 /\ in = first
  BY <1>5
<1>7. Pending(1)
  BY <1>1 DEF Pending
<1>8. outs \in [Blocks -> SUBSET SoundStates] /\ \A b \in Blocks : outs[b] = {}
  BY <1>1
<1>9. EntriesShape
  BY <1>1 DEF EntriesShape
<1>10. Progress /\ Propagated
  BY <1>1 DEF Progress, Propagated, Idle
<1>11. OneEntry /\ CleanEntries
  BY <1>4, <1>5, <1>6 DEF OneEntry, CleanEntries
<1>12. CoveredExits /\ NothingLost /\ EmptyAtTheEnd
  BY <1>1, <1>5, <1>7, <1>8 DEF CoveredExits, NothingLost, EmptyAtTheEnd
<1> QED
  BY <1>8, <1>9, <1>10, <1>11, <1>12 DEF WorklistInv

LEMMA SuccessorFacts ==
    ASSUME prog \in Programs, NEW b \in Blocks
    PROVE  /\ Successors(b) \subseteq Blocks
           /\ \A next \in Successors(b) : \E i \in DOMAIN prog.succ[b] : next = prog.succ[b][i]
           /\ DOMAIN prog.succ[b] = 1 .. Len(prog.succ[b]) /\ Len(prog.succ[b]) \in Nat
BY ProgramFacts DEF Successors

\* A step that changes the state on entry to no block, the worklist or the
\* states on exit keeps what was covered covered.
LEMMA CoveredSame ==
    ASSUME prog' = prog, layout' = layout, ins' = ins, NEW s, NEW next
    PROVE  Covered(s, next) <=> Covered(s, next)'
BY DEF Covered, Visible

LEMMA SnapshotEntries ==
    ASSUME EntriesShape, prog' = prog, block \in Blocks, index \in DOMAIN Statements(block),
           Snapshot
    PROVE  /\ EntriesShape'
           /\ \A b \in Blocks \ {block} : entries'[b] = entries[b]
           /\ index = 1 => entries'[block][1] = {state.locals}
           /\ index # 1 => entries'[block][1] = entries[block][1]
<1>1. entries' = [entries EXCEPT ![block] = [entries[block] EXCEPT ![index] = {state.locals}]]
  BY DEF Snapshot
<1>2. DOMAIN entries = Blocks /\ DOMAIN entries[block] = DOMAIN Statements(block)
  BY DEF EntriesShape
<1>3. entries'[block] = [entries[block] EXCEPT ![index] = {state.locals}]
  BY <1>1, <1>2
<1>4. \A b \in Blocks \ {block} : entries'[b] = entries[b]
  BY <1>1, <1>2
<1>5. DOMAIN entries'[block] = DOMAIN Statements(block) /\ DOMAIN entries' = Blocks
  BY <1>1, <1>2, <1>3
<1>6. EntriesShape'
  BY <1>4, <1>5 DEF EntriesShape, Blocks, Statements
<1> QED
  BY <1>2, <1>3, <1>4, <1>6

\* After the snapshot, the block being visited was checked with its entry.
LEMMA SnapshotChecks ==
    ASSUME EntriesShape, prog' = prog, ins' = ins, block' = block, block \in Blocks,
           InStatements, Snapshot, Progress, arg = 0
    PROVE  Pending(block) \/ CheckedWithEntry(block)'
<1>1. index \in DOMAIN Statements(block) /\ block # 0
  BY DEF InStatements
<1>2. CASE index = 1 /\ ~Pending(block)
  <2>1. ins[block] = {state}
    BY <1>1, <1>2 DEF Progress, Current
  <2>2. {in.locals : in \in ins[block]} = {state.locals}
    BY <2>1
  <2>3. entries'[block][1] = {state.locals}
    BY <1>1, <1>2, SnapshotEntries
  <2> QED
    BY <2>2, <2>3 DEF CheckedWithEntry, Statements
<1>3. CASE index # 1 /\ ~Pending(block)
  <2>1. CheckedWithEntry(block)
    BY <1>1, <1>3 DEF Progress, Current
  <2>2. entries'[block][1] = entries[block][1]
    BY <1>1, <1>3, SnapshotEntries
  <2> QED
    BY <2>1, <2>2 DEF CheckedWithEntry, Statements
<1> QED
  BY <1>2, <1>3

\* What depends only on the function and the recorded states.
LEMMA RecordedSame ==
    ASSUME WorklistInv, UNCHANGED << facts, ins, outs >>
    PROVE  /\ outs' \in [Blocks' -> SUBSET SoundStates]
           /\ OneEntry' /\ CleanEntries' /\ CoveredExits'
<1>1. prog' = prog /\ layout' = layout /\ ins' = ins /\ outs' = outs
  BY DEF facts
<1>2. /\ outs \in [Blocks -> SUBSET SoundStates]
      /\ OneEntry /\ CleanEntries /\ CoveredExits
  BY DEF WorklistInv
<1>3. Blocks' = Blocks
  BY <1>1 DEF Blocks
<1>4. OneEntry'
  BY <1>1, <1>2, <1>3 DEF OneEntry
<1>5. CleanEntries'
  BY <1>1, <1>2, <1>3 DEF CleanEntries, Clean, Visible
<1>6. CoveredExits'
  BY <1>1, <1>2, <1>3 DEF CoveredExits, Covered, Visible, Successors
<1> QED
  BY <1>1, <1>2, <1>3, <1>4, <1>5, <1>6

\* Steps that leave the blocks alone.
LEMMA OutsideStep ==
    ASSUME WorklistInv, UNCHANGED << facts, ins, outs, work, visit, entries >>,
           phase' = "accepted" => work = << >> /\ block = 0
    PROVE  WorklistInv'
<1>1. /\ prog' = prog /\ ins' = ins /\ outs' = outs /\ work' = work /\ entries' = entries
      /\ block' = block /\ index' = index /\ arg' = arg /\ edge' = edge /\ state' = state
      /\ layout' = layout
  BY DEF facts, visit
<1>2. Blocks' = Blocks
  BY <1>1 DEF Blocks
<1>3. EntriesShape'
  BY <1>1, <1>2 DEF WorklistInv, EntriesShape, Statements
<1>4. Progress'
  BY <1>1 DEF WorklistInv, Progress, Current, Pending, CheckedWithEntry, Statements
<1>5. Propagated'
  BY <1>1, CoveredSame DEF WorklistInv, Propagated, Statements
<1>6. NothingLost'
  <2>1. NothingLost
    BY DEF WorklistInv
  <2> QED
    BY <1>1, <1>2, <2>1 DEF NothingLost, Visited, Pending, CheckedWithEntry, Statements
<1>7. EmptyAtTheEnd'
  BY <1>1 DEF EmptyAtTheEnd
<1> QED
  BY <1>1, <1>3, <1>4, <1>5, <1>6, <1>7, RecordedSame DEF WorklistInv

\* Steps that visit a statement.
LEMMA InBlockStep ==
    ASSUME AnalysisInv, WorklistInv, InStatements,
           UNCHANGED << facts, phase, ins, outs, work, block, edge >>,
           EntriesShape', \A b \in Blocks \ {block} : entries'[b] = entries[b],
           Progress'
    PROVE  WorklistInv'
<1>1. /\ prog \in Programs /\ block \in Blocks /\ block # 0
      /\ index \in DOMAIN Statements(block)
  BY DEF AnalysisInv, InStatements
<1>2. Statements(block) \in Seq(StatementSet)
  BY <1>1, ProgramFacts
<1>3. index # Len(Statements(block)) + 1
  BY <1>1, <1>2
<1>4. edge = 0
  BY <1>3 DEF WorklistInv, Propagated
<1>5. Propagated'
  BY <1>4 DEF Propagated
<1>6. EmptyAtTheEnd'
  BY DEF EmptyAtTheEnd, InStatements
<1>7. ASSUME NEW b \in Blocks' \ {block'}, ins'[b] # {}
      PROVE  Pending(b)' \/ Visited(b)'
  <2>1. b \in Blocks \ {block} /\ ins[b] # {} /\ entries'[b] = entries[b]
    BY <1>7 DEF facts, Blocks
  <2>2. Pending(b) \/ Visited(b)
    BY <2>1 DEF WorklistInv, NothingLost
  <2> QED
    BY <2>1, <2>2 DEF Pending, Visited, CheckedWithEntry, Statements, facts
<1>8. NothingLost'
  BY <1>7 DEF NothingLost
<1> QED
  BY <1>5, <1>6, <1>8, RecordedSame DEF WorklistInv

LEMMA TransferStatementStep ==
    ASSUME AnalysisInv, WorklistInv, TransferStatement
    PROVE  WorklistInv'
<1>1. /\ prog \in Programs /\ block \in Blocks
      /\ EntriesShape /\ Progress
  BY DEF AnalysisInv, WorklistInv, TransferStatement, InStatements
<1>2. InStatements /\ UNCHANGED facts /\ prog' = prog
  BY DEF TransferStatement, facts
<1>3. arg = 0
  BY DEF AnalysisInv, CallInProgress, TransferStatement
<1>4. CASE ~StatementAllowed(state, block, Key, Statement)
  BY <1>4, OutsideStep DEF TransferStatement, Reject
<1>5. CASE StatementAllowed(state, block, Key, Statement)
  <2>1. /\ index' = index + 1 /\ Snapshot
        /\ UNCHANGED << facts, phase, ins, outs, work, block, arg, roots, tracker, edge >>
    BY <1>5 DEF TransferStatement
  <2>2. Pending(block) \/ CheckedWithEntry(block)'
    BY <1>1, <1>2, <1>3, <2>1, SnapshotChecks
  <2>3. index \in Nat /\ index > 0
    BY <1>2 DEF InStatements, WorklistInv, Progress
  <2>4. index' > 1 /\ index' \in Nat
    BY <2>1, <2>3
  <2>5. Progress'
    BY <2>1, <2>2, <2>4 DEF Progress, Current, Pending
  <2>6. EntriesShape' /\ \A b \in Blocks \ {block} : entries'[b] = entries[b]
    BY <1>1, <1>2, <2>1, SnapshotEntries DEF InStatements
  <2> QED
    BY <1>2, <2>1, <2>5, <2>6, InBlockStep
<1> QED
  BY <1>4, <1>5

LEMMA ReadArgumentsStep ==
    ASSUME AnalysisInv, WorklistInv, ReadArguments
    PROVE  WorklistInv'
<1>1. /\ prog \in Programs /\ block \in Blocks
      /\ EntriesShape /\ Progress
  BY DEF AnalysisInv, WorklistInv, ReadArguments, InStatements
<1>2. InStatements /\ UNCHANGED facts /\ prog' = prog /\ arg = 0
  BY DEF ReadArguments, facts
<1>3. CASE ~ArgumentsReadable(state, block, Key, Statement)
  BY <1>3, OutsideStep DEF ReadArguments, Reject
<1>4. CASE ArgumentsReadable(state, block, Key, Statement)
  <2>1. /\ arg' = 1 /\ Snapshot
        /\ UNCHANGED << facts, phase, ins, outs, work, block, state, index, edge >>
    BY <1>4 DEF ReadArguments
  <2>2. Pending(block) \/ CheckedWithEntry(block)'
    BY <1>1, <1>2, <2>1, SnapshotChecks
  <2>3. Progress'
    BY <1>1, <1>2, <2>1, <2>2 DEF Progress, Current, Pending
  <2>4. EntriesShape' /\ \A b \in Blocks \ {block} : entries'[b] = entries[b]
    BY <1>1, <1>2, <2>1, SnapshotEntries DEF InStatements
  <2> QED
    BY <1>2, <2>1, <2>3, <2>4, InBlockStep
<1> QED
  BY <1>3, <1>4

LEMMA TransferArgumentStep ==
    ASSUME AnalysisInv, WorklistInv, TransferArgument
    PROVE  WorklistInv'
<1>1. InStatements /\ Progress
  BY DEF WorklistInv, TransferArgument
<1>2. CASE ~ArgumentAllowed(state, block, Key, Statement, roots, arg, tracker)
  BY <1>2, OutsideStep DEF TransferArgument, Reject
<1>3. CASE ArgumentAllowed(state, block, Key, Statement, roots, arg, tracker)
  <2>1. /\ arg \in DOMAIN roots /\ arg' = arg + 1
        /\ UNCHANGED << facts, phase, ins, outs, work, block, index, edge, entries >>
    BY <1>3 DEF TransferArgument
  <2>2. arg # 0
    BY <2>1 DEF AnalysisInv, CallInProgress
  <2>3. CheckedWithEntry(block) => CheckedWithEntry(block)'
    BY <2>1 DEF CheckedWithEntry, Statements, facts
  <2>4. arg' # 0
    <3>1. roots \in [DOMAIN Statement.args -> SUBSET Locals] /\ Statement.args \in Seq(Arguments)
      <4>1. block \in Blocks /\ index \in DOMAIN Statements(block)
        BY <1>1 DEF AnalysisInv, InStatements
      <4>2. Statement \in StatementSet
        BY <4>1, ProgramFacts DEF AnalysisInv, Statement, WellFormed
      <4> QED
        BY <2>2, <4>2 DEF AnalysisInv, CallInProgress, StatementSet
    <3> QED
      BY <2>1, <3>1
  <2>5. Progress'
    BY <1>1, <2>1, <2>2, <2>3, <2>4 DEF Progress, Current, Pending
  <2>6. EntriesShape'
    BY <2>1 DEF WorklistInv, EntriesShape, facts, Blocks, Statements
  <2> QED
    BY <1>1, <2>1, <2>5, <2>6, InBlockStep
<1> QED
  BY <1>2, <1>3

LEMMA TransferResultStep ==
    ASSUME AnalysisInv, WorklistInv, TransferResult
    PROVE  WorklistInv'
<1>1. /\ InStatements /\ Progress /\ arg = Len(roots) + 1 /\ index' = index + 1
      /\ UNCHANGED << facts, phase, ins, outs, work, block, edge, entries >>
  BY DEF WorklistInv, TransferResult
<1>2. arg # 0
  BY <1>1 DEF AnalysisInv, CallInProgress
<1>3. CheckedWithEntry(block) => CheckedWithEntry(block)'
  BY <1>1 DEF CheckedWithEntry, Statements, facts
<1>4. index \in Nat /\ index > 0
  BY <1>1 DEF Progress, InStatements
<1>5. Progress'
  BY <1>1, <1>2, <1>3, <1>4 DEF Progress, Current, Pending
<1>6. EntriesShape'
  BY <1>1 DEF WorklistInv, EntriesShape, facts, Blocks, Statements
<1> QED
  BY <1>1, <1>5, <1>6, InBlockStep

\* A block is taken with the state recorded on its entry: killing what is not
\* visible there changes nothing.
LEMMA TakeBlockStep ==
    ASSUME AnalysisInv, WorklistInv, TakeBlock
    PROVE  WorklistInv'
<1> DEFINE b == Head(work)
<1>1. /\ phase = "flow" /\ block = 0 /\ work # << >> /\ work' = Tail(work)
      /\ UNCHANGED << facts, phase, outs, arg, roots, edge, entries >>
  BY DEF TakeBlock
<1>2. PICK in \in ins[b] :
        /\ ins' = [ins EXCEPT ![b] = {KillInvisible(in, Visible(b))}]
        /\ block' = b /\ state' = KillInvisible(in, Visible(b)) /\ index' = 1
  BY DEF TakeBlock
<1>3. /\ prog \in Programs /\ work \in Seq(Blocks) /\ ins \in [Blocks -> SUBSET SoundStates]
      /\ arg = 0
  BY <1>1 DEF AnalysisInv, CallInProgress
<1>4. b \in Blocks /\ b # 0
  BY <1>1, <1>3, ProgramFacts
<1> HIDE DEF b
<1>5. in \in SoundStates /\ Clean(in, Visible(b))
  BY <1>2, <1>3, <1>4 DEF WorklistInv, CleanEntries
<1>6. KillInvisible(in, Visible(b)) = in
  BY <1>5, CleanIsKept
<1>7. ins[b] = {in}
  BY <1>2, <1>4 DEF WorklistInv, OneEntry
<1>8. ins' = ins /\ state' = in
  BY <1>2, <1>3, <1>4, <1>6, <1>7
<1>9. Blocks' = Blocks /\ prog' = prog /\ entries' = entries /\ outs' = outs
  BY <1>1 DEF facts, Blocks
<1>10. EntriesShape'
  BY <1>9 DEF WorklistInv, EntriesShape, Statements
<1>11. Progress'
  BY <1>1, <1>2, <1>3, <1>4, <1>7, <1>8 DEF Progress, Current
<1>12. edge = 0
  BY <1>1 DEF WorklistInv, Propagated
<1>13. Propagated' /\ EmptyAtTheEnd'
  BY <1>1, <1>12 DEF Propagated, EmptyAtTheEnd
<1>14. ASSUME NEW d \in Blocks' \ {block'}, ins'[d] # {}
       PROVE  Pending(d)' \/ Visited(d)'
  <2>1. d \in Blocks /\ d # b /\ d # block /\ ins[d] # {}
    BY <1>1, <1>2, <1>3, <1>8, <1>9, <1>14, ProgramFacts
  <2>2. Pending(d) \/ Visited(d)
    BY <2>1 DEF WorklistInv, NothingLost
  <2>3. Pending(d) => Pending(d)'
    BY <1>1, <1>3, <2>1, PendingTail DEF Pending, b
  <2> QED
    BY <1>8, <1>9, <2>2, <2>3 DEF Visited, CheckedWithEntry, Statements
<1>15. NothingLost'
  BY <1>14 DEF NothingLost
<1> QED
  BY <1>1, <1>8, <1>10, <1>11, <1>13, <1>15, RecordedSame DEF WorklistInv

\* At its terminator the block was checked with its entry.
LEMMA CheckedAtTerminator ==
    ASSUME AnalysisInv, WorklistInv, AtTerminator
    PROVE  /\ block \in Blocks /\ block # 0
           /\ Pending(block) \/ CheckedWithEntry(block)
<1>1. /\ block \in Blocks /\ block # 0 /\ prog \in Programs
      /\ index = Len(Statements(block)) + 1
  BY DEF AnalysisInv, AtTerminator
<1>2. Statements(block) \in Seq(StatementSet)
  BY <1>1, ProgramFacts
<1>3. CASE Statements(block) = << >>
  BY <1>1, <1>3 DEF CheckedWithEntry
<1>4. CASE Statements(block) # << >>
  <2>1. index > 1
    BY <1>1, <1>2, <1>4
  <2> QED
    BY <1>1, <2>1 DEF WorklistInv, Progress, Current
<1> QED
  BY <1>1, <1>3, <1>4

\* The end of a visit: the state on exit, which all edges cover, is recorded.
LEMMA LeaveStep ==
    ASSUME AnalysisInv, WorklistInv, AtTerminator, LeaveBlock,
           UNCHANGED << facts, phase, ins, work, entries >>,
           outs' = [outs EXCEPT ![block] = {state}],
           \A next \in Successors(block) : Covered(state, next)
    PROVE  WorklistInv'
<1>1. /\ block \in Blocks /\ block # 0
      /\ Pending(block) \/ CheckedWithEntry(block)
  BY CheckedAtTerminator
<1>2. block' = 0 /\ edge' = 0
  BY DEF LeaveBlock
<1>3. /\ Blocks' = Blocks /\ prog' = prog /\ layout' = layout
      /\ ins' = ins /\ work' = work /\ entries' = entries
  BY DEF facts, Blocks
<1>4. outs \in [Blocks -> SUBSET SoundStates] /\ state \in SoundStates
  BY DEF WorklistInv, AnalysisInv
<1>5. /\ outs' \in [Blocks -> SUBSET SoundStates]
      /\ outs'[block] = {state}
      /\ \A b \in Blocks \ {block} : outs'[b] = outs[b]
  BY <1>1, <1>4
<1>6. ASSUME NEW b \in Blocks, NEW out \in outs'[b], NEW next \in Successors(b)
      PROVE  Covered(out, next)
  BY <1>5 DEF WorklistInv, CoveredExits
<1>7. CoveredExits'
  BY <1>3, <1>6 DEF CoveredExits, Covered, Successors, Visible
<1>8. OneEntry' /\ CleanEntries'
  <2>1. OneEntry /\ CleanEntries
    BY DEF WorklistInv
  <2> QED
    BY <1>3, <2>1 DEF OneEntry, CleanEntries, Clean, Visible
<1>9. EntriesShape' /\ Progress' /\ Propagated'
  BY <1>2, <1>3 DEF WorklistInv, EntriesShape, Statements, Progress, Propagated
<1>10. ASSUME NEW b \in Blocks, ins[b] # {}
       PROVE  Pending(b) \/ (outs'[b] # {} /\ CheckedWithEntry(b))
  <2>1. CASE b = block
    BY <1>1, <1>5, <2>1
  <2>2. CASE b # block
    BY <1>5, <1>10, <2>2 DEF WorklistInv, NothingLost, Visited
  <2> QED
    BY <2>1, <2>2
<1>11. NothingLost'
  BY <1>3, <1>10 DEF NothingLost, Visited, Pending, CheckedWithEntry, Statements
<1>12. EmptyAtTheEnd'
  BY DEF AtTerminator, EmptyAtTheEnd
<1> QED
  BY <1>3, <1>5, <1>7, <1>8, <1>9, <1>11, <1>12 DEF WorklistInv

LEMMA FinishBlockStep ==
    ASSUME AnalysisInv, WorklistInv, FinishBlock
    PROVE  WorklistInv'
<1>1. /\ AtTerminator /\ edge = Len(prog.succ[block]) + 1 /\ LeaveBlock
      /\ outs' = [outs EXCEPT ![block] = {state}]
      /\ UNCHANGED << facts, phase, ins, work, entries >>
  BY DEF FinishBlock
<1>2. prog \in Programs /\ block \in Blocks
  BY <1>1, CheckedAtTerminator DEF AnalysisInv
<1>3. /\ DOMAIN prog.succ[block] = 1 .. Len(prog.succ[block]) /\ Len(prog.succ[block]) \in Nat
      /\ \A next \in Successors(block) : \E i \in DOMAIN prog.succ[block] : next = prog.succ[block][i]
  BY <1>2, SuccessorFacts
<1>4. \A i \in DOMAIN prog.succ[block] : Covered(state, prog.succ[block][i])
  BY <1>1, <1>3 DEF WorklistInv, Propagated
<1>5. \A next \in Successors(block) : Covered(state, next)
  BY <1>3, <1>4
<1> QED
  BY <1>1, <1>5, LeaveStep

LEMMA TransferTerminatorStep ==
    ASSUME AnalysisInv, WorklistInv, TransferTerminator
    PROVE  WorklistInv'
<1>1. CASE ~\A l \in prog.reads[block] : Readable(state, block, Key, l)
  BY <1>1, OutsideStep DEF TransferTerminator, Reject
<1>2. CASE \A l \in prog.reads[block] : Readable(state, block, Key, l)
  <2>1. /\ AtTerminator /\ edge = 0
        /\ UNCHANGED << facts, phase, ins, outs, work, entries >>
    BY <1>2 DEF TransferTerminator
  <2>2. block \in Blocks /\ block # 0 /\ (Pending(block) \/ CheckedWithEntry(block))
    BY <2>1, CheckedAtTerminator
  <2>3. CASE outs[block] = {state} /\ LeaveBlock
    <3>1. outs' = [outs EXCEPT ![block] = {state}]
      BY <2>1, <2>2, <2>3 DEF WorklistInv
    <3>2. \A next \in Successors(block) : Covered(state, next)
      BY <2>2, <2>3 DEF WorklistInv, CoveredExits
    <3> QED
      BY <2>1, <2>3, <3>1, <3>2, LeaveStep
  <2>4. CASE edge' = 1 /\ UNCHANGED << block, state, index, arg, roots, tracker >>
    <3>1. /\ Blocks' = Blocks /\ prog' = prog /\ ins' = ins /\ outs' = outs
          /\ work' = work /\ entries' = entries
          /\ block' = block /\ index' = index /\ arg' = arg /\ state' = state
      BY <2>1, <2>4 DEF facts, Blocks
    <3>2. EntriesShape'
      BY <3>1 DEF WorklistInv, EntriesShape, Statements
    <3>3. Progress'
      BY <3>1 DEF WorklistInv, Progress, Current, Pending, CheckedWithEntry, Statements
    <3>4. DOMAIN prog.succ[block] = 1 .. Len(prog.succ[block])
      BY <2>2, SuccessorFacts DEF AnalysisInv
    <3>5. Propagated'
      BY <2>1, <2>2, <2>4, <3>1, <3>4 DEF Propagated, AtTerminator, Statements
    <3>6. NothingLost'
      <4>1. NothingLost
        BY DEF WorklistInv
      <4> QED
        BY <3>1, <4>1 DEF NothingLost, Visited, Pending, CheckedWithEntry, Statements
    <3>7. EmptyAtTheEnd'
      BY <2>1 DEF AtTerminator, EmptyAtTheEnd
    <3> QED
      BY <2>1, <3>2, <3>3, <3>5, <3>6, <3>7, RecordedSame DEF WorklistInv
  <2> QED
    BY <1>2, <2>3, <2>4 DEF TransferTerminator
<1> QED
  BY <1>1, <1>2

\* An edge is taken: the next block's entry grows by the state on exit, and the
\* block is visited (again) if that changed anything.
LEMMA PropagateEdgeStep ==
    ASSUME AnalysisInv, WorklistInv, PropagateEdge
    PROVE  WorklistInv'
<1> DEFINE next     == prog.succ[block][edge]
           incoming == KillInvisible(state, Visible(next))
           joined   == {Join(in, incoming) : in \in ins[next]}
           new      == IF ins[next] = {} THEN {incoming} ELSE joined
<1>1. /\ AtTerminator /\ edge \in DOMAIN prog.succ[block]
      /\ UNCHANGED facts
  BY DEF PropagateEdge
<1>2. /\ block \in Blocks /\ block # 0 /\ prog \in Programs /\ work \in Seq(Blocks)
      /\ (Pending(block) \/ CheckedWithEntry(block))
      /\ ins \in [Blocks -> SUBSET SoundStates] /\ state \in SoundStates
  BY <1>1, CheckedAtTerminator DEF AnalysisInv
<1>3. /\ prog.succ[block] \in Seq(Blocks) /\ edge \in Nat
      /\ DOMAIN prog.succ[block] = 1 .. Len(prog.succ[block])
  BY <1>1, <1>2, ProgramFacts
<1>4. next \in Blocks
  BY <1>1, <1>3
<1>5. CASE \E in \in ins[next] : InconsistentMove(in, incoming)
  BY <1>5, OutsideStep DEF PropagateEdge, Reject
<1>6. CASE ~\E in \in ins[next] : InconsistentMove(in, incoming)
  <2>1. /\ ins' = [ins EXCEPT ![next] = new]
        /\ work' = IF new = ins[next] THEN work ELSE Append(work, next)
        /\ edge' = edge + 1
        /\ UNCHANGED << facts, phase, outs, block, state, index, arg, entries >>
    BY <1>6 DEF PropagateEdge
  <2>2. incoming \in SoundStates /\ Clean(incoming, Visible(next))
    BY <1>2, KillSound, KillIsClean
  <2>3. \A in, other \in ins[next] : in = other
    BY <1>4 DEF WorklistInv, OneEntry
  <2>4. \A in \in ins[next] : Clean(in, Visible(next))
    BY <1>4 DEF WorklistInv, CleanEntries
  <2> HIDE DEF incoming, next
  <2>5. \A in, other \in new : in = other
    BY <2>3
  <2>6. ASSUME NEW in \in new PROVE Clean(in, Visible(next)) /\ Join(in, incoming) = in
    <3>1. CASE ins[next] = {}
      BY <2>2, <2>6, <3>1, JoinSelf
    <3>2. CASE ins[next] # {}
      <4>1. PICK old \in ins[next] : in = Join(old, incoming)
        BY <2>6, <3>2
      <4> QED
        BY <2>2, <2>4, <4>1, JoinAbsorbs, JoinClean
    <3> QED
      BY <3>1, <3>2
  <2>7. new # {}
    OBVIOUS
  <2>8. ASSUME NEW s, Covered(s, next), NEW in \in new
        PROVE  Join(in, KillInvisible(s, Visible(next))) = in
    <3>1. ins[next] # {}
      BY <2>8 DEF Covered
    <3>2. PICK old \in ins[next] : in = Join(old, incoming)
      BY <2>8, <3>1
    <3>3. Join(old, KillInvisible(s, Visible(next))) = old
      BY <2>8, <3>2 DEF Covered
    <3> QED
      BY <3>2, <3>3, JoinKeeps
  <2> HIDE DEF new, joined
  <2>9. ins'[next] = new /\ \A b \in Blocks \ {next} : ins'[b] = ins[b]
    BY <1>2, <1>4, <2>1
  <2>10. Blocks' = Blocks /\ prog' = prog /\ layout' = layout
    BY <2>1 DEF facts, Blocks
  <2>11. ASSUME NEW s, NEW b \in Blocks, Covered(s, b) PROVE Covered(s, b)'
    <3>1. CASE b = next
      <4>1. \A in \in new : Join(in, KillInvisible(s, Visible(next))) = in
        BY <2>8, <2>11, <3>1
      <4> QED
        BY <2>7, <2>9, <2>10, <3>1, <4>1 DEF Covered, Visible
    <3>2. CASE b # next
      BY <2>9, <2>10, <2>11, <3>2 DEF Covered, Visible
    <3> QED
      BY <3>1, <3>2
  <2>12. ins'[next] # {} /\ \A in \in ins'[next] : Join(in, KillInvisible(state, Visible(next))) = in
    BY <2>6, <2>7, <2>9 DEF incoming
  <2>13. ASSUME NEW b, Pending(b) PROVE Pending(b)'
    BY <1>2, <1>4, <2>1, <2>13, PendingAppend DEF Pending
  <2>14. ASSUME ins' # ins, NEW b, b = next PROVE Pending(b)'
    <3>1. new = ins[next] => ins' = ins
      BY <1>2, <1>4, <2>1
    <3>2. work' = Append(work, next)
      BY <2>1, <2>14, <3>1
    <3> QED
      BY <1>2, <1>4, <2>14, <3>2, PendingAppend DEF Pending
  <2>15. ASSUME NEW b \in Blocks, CheckedWithEntry(b) PROVE Pending(b)' \/ CheckedWithEntry(b)'
    <3>1. CASE ins' # ins /\ b = next
      BY <2>14, <3>1
    <3>2. CASE ins' = ins \/ b # next
      <4>1. ins'[b] = ins[b] /\ entries' = entries
        BY <2>1, <2>9, <3>2
      <4> QED
        BY <2>10, <2>15, <4>1 DEF CheckedWithEntry, Statements
    <3> QED
      BY <3>1, <3>2
  <2>16. EntriesShape'
    BY <2>1, <2>10 DEF WorklistInv, EntriesShape, Statements
  <2>17. Progress'
    <3>1. /\ Statements(block) \in Seq(StatementSet)
          /\ index = Len(Statements(block)) + 1
      BY <1>1, <1>2, ProgramFacts DEF AtTerminator
    <3>2. index \in Nat /\ index > 0
      BY <3>1
    <3>3. block' = block /\ index' = index /\ arg' = arg /\ state' = state
      BY <2>1
    <3>4. Pending(block)' \/ Current'
      <4> PICK b \in Blocks : b = block
        BY <1>2
      <4>3. Pending(b)' => Pending(block)'
        BY <3>3 DEF Pending
      <4>1. CASE index > 1
        <5>1. Pending(b) \/ CheckedWithEntry(b)
          BY <1>2
        <5>2. Pending(b)' \/ CheckedWithEntry(b)'
          BY <2>13, <2>15, <5>1
        <5>3. CheckedWithEntry(b)' => CheckedWithEntry(block)'
          BY <3>3 DEF CheckedWithEntry, Statements
        <5> QED
          BY <3>3, <4>1, <4>3, <5>2, <5>3 DEF Current
      <4>2. CASE ~(index > 1)
        <5>1. arg = 0
          BY <1>1, <3>1 DEF AnalysisInv, CallInProgress
        <5>2. Pending(block) \/ ins[block] = {state}
          BY <1>2, <4>2, <5>1 DEF WorklistInv, Progress, Current
        <5>3. CASE Pending(block)
          <6>1. Pending(b)
            BY <5>3
          <6> QED
            BY <2>13, <4>3, <6>1
        <5>4. CASE ins' # ins /\ block = next
          <6>1. Pending(b)'
            BY <2>14, <5>4
          <6> QED
            BY <4>3, <6>1
        <5>5. CASE (ins' = ins \/ block # next) /\ ins[block] = {state}
          <6>1. ins'[block] = {state}
            BY <1>2, <2>9, <5>5
          <6> QED
            BY <3>3, <4>2, <5>1, <6>1 DEF Current
        <5> QED
          BY <5>2, <5>3, <5>4, <5>5
      <4> QED
        BY <4>1, <4>2
    <3> QED
      BY <3>2, <3>3, <3>4 DEF Progress, Pending
  <2>18. Propagated'
    <3>1. ASSUME NEW i \in DOMAIN prog.succ[block], i < edge + 1
          PROVE  Covered(state, prog.succ[block][i])'
      <4>1. CASE i = edge
        BY <2>1, <2>10, <2>12, <4>1 DEF next, Covered, Visible
      <4>2. CASE i # edge
        <5>1. edge # 0 /\ i < edge
          BY <1>3, <3>1, <4>2
        <5>2. Covered(state, prog.succ[block][i])
          BY <5>1 DEF WorklistInv, Propagated
        <5>3. prog.succ[block][i] \in Blocks
          BY <1>3
        <5> DEFINE d == prog.succ[block][i]
        <5>4. d' = d /\ state' = state
          BY <2>1, <2>10
        <5> HIDE DEF d
        <5>5. Covered(state, d) /\ d \in Blocks
          BY <5>2, <5>3 DEF d
        <5>6. ins'[d] # {} /\ \A in \in ins'[d] : Join(in, KillInvisible(state, Visible(d))) = in
          BY <2>7, <2>8, <2>9, <5>5 DEF Covered
        <5>7. Covered(state, d)'
          BY <2>10, <5>4, <5>6 DEF Covered, Visible
        <5> QED
          BY <5>7 DEF d
      <4> QED
        BY <4>1, <4>2
    <3>2. index = Len(Statements(block)) + 1 /\ edge + 1 \in Nat
      BY <1>1, <1>3 DEF AtTerminator
    <3>3. block' = block /\ index' = index /\ edge' = edge + 1
      BY <2>1
    <3> QED
      BY <1>2, <2>10, <3>1, <3>2, <3>3 DEF Propagated, Statements
  <2>19. ASSUME NEW b \in Blocks \ {block}, ins'[b] # {}
         PROVE  Pending(b)' \/ Visited(b)'
    <3>1. CASE ins[b] = {}
      BY <2>9, <2>14, <2>19, <3>1
    <3>2. CASE ins[b] # {}
      <4>1. Pending(b) \/ Visited(b)
        BY <2>19, <3>2 DEF WorklistInv, NothingLost
      <4> QED
        BY <2>1, <2>13, <2>15, <4>1 DEF Visited
    <3> QED
      BY <3>1, <3>2
  <2>20. NothingLost'
    BY <2>1, <2>10, <2>19 DEF NothingLost
  <2>21. CoveredExits'
    <3>1. ASSUME NEW b \in Blocks, NEW out \in outs[b], NEW d \in Successors(b)
          PROVE  Covered(out, d)'
      <4>1. Covered(out, d) /\ d \in Blocks
        BY <1>2, SuccessorFacts DEF WorklistInv, CoveredExits
      <4> QED
        BY <2>11, <4>1
    <3> QED
      BY <2>1, <2>10, <3>1 DEF CoveredExits, Successors
  <2>22. outs' \in [Blocks' -> SUBSET SoundStates] /\ OneEntry'
    <3>1. 1 \in Blocks
      BY <1>2, ProgramFacts
    <3>2. OneEntry
      BY DEF WorklistInv
    <3>3. ASSUME NEW b \in Blocks, NEW in \in ins'[b], NEW other \in ins'[b] PROVE in = other
      BY <2>5, <2>9, <3>2 DEF OneEntry
    <3>4. ins'[1] # {}
      BY <2>7, <2>9, <3>1, <3>2 DEF OneEntry
    <3> QED
      BY <2>1, <2>10, <3>3, <3>4 DEF WorklistInv, OneEntry
  <2>23. CleanEntries'
    <3>1. ASSUME NEW b \in Blocks, NEW in \in ins'[b] PROVE Clean(in, Visible(b))
      <4>1. CASE b = next
        BY <2>6, <2>9, <3>1, <4>1
      <4>2. CASE b # next
        BY <2>9, <3>1, <4>2 DEF WorklistInv, CleanEntries
      <4> QED
        BY <4>1, <4>2
    <3> QED
      BY <2>10, <3>1 DEF CleanEntries, Clean, Visible
  <2>24. EmptyAtTheEnd'
    BY <1>1, <2>1 DEF AtTerminator, EmptyAtTheEnd
  <2> QED
    BY <2>16, <2>17, <2>18, <2>20, <2>21, <2>22, <2>23, <2>24 DEF WorklistInv
<1> QED
  BY <1>5, <1>6

LEMMA WorklistStep == AnalysisInv /\ WorklistInv /\ [Next]_checkVars => WorklistInv'
<1> SUFFICES ASSUME AnalysisInv, WorklistInv, [Next]_checkVars PROVE WorklistInv'
  OBVIOUS
<1>1. CASE ComputeMayUse
  BY <1>1, OutsideStep DEF ComputeMayUse
<1>2. CASE ComputeMustUse
  BY <1>2, OutsideStep DEF ComputeMustUse
<1>3. CASE Accept
  BY <1>3, OutsideStep DEF Accept
<1>4. CASE UNCHANGED checkVars
  <2>1. UNCHANGED << facts, phase, ins, outs, work, visit, entries >>
    BY <1>4 DEF checkVars, facts
  <2> QED
    BY <2>1, OutsideStep DEF WorklistInv, EmptyAtTheEnd
<1> QED
  BY <1>1, <1>2, <1>3, <1>4, TakeBlockStep, TransferStatementStep, ReadArgumentsStep,
     TransferArgumentStep, TransferResultStep, TransferTerminatorStep, PropagateEdgeStep,
     FinishBlockStep DEF Next

\* When the analysis accepts a function, every block that a visited block leads
\* to was checked with a state that covers every edge into it: the worklist of
\* analyze_function overlooks no path, whatever the function.
THEOREM AcceptedFunctionsAreCovered == Spec => []EdgesAreCovered
<1>1. AnalysisInv /\ WorklistInv => EdgesAreCovered
  <2> SUFFICES ASSUME AnalysisInv, WorklistInv, phase = "accepted" PROVE EdgesAreCovered
    BY DEF EdgesAreCovered
  <2>1. work = << >> /\ block = 0
    BY DEF WorklistInv, EmptyAtTheEnd
  <2>2. \A b \in Blocks : ~Pending(b) /\ b # block
    BY <2>1, ProgramFacts DEF Pending, AnalysisInv
  <2> QED
    BY <2>2 DEF WorklistInv, OneEntry, NothingLost, Visited, CoveredExits, EdgesAreCovered
<1>2. Spec => [](AnalysisInv /\ WorklistInv)
  BY InitialInv, StepInv, InitialWorklist, WorklistStep, PTL DEF Spec
<1> QED
  BY <1>1, <1>2, PTL

-----------------------------------------------------------------------------
(* The paths of a function *)

LEMMA BlockFacts ==
    ASSUME prog \in Programs
    PROVE  /\ Len(prog.stmts) \in Nat \ {0} /\ Blocks = 1 .. Len(prog.stmts)
           /\ IsFiniteSet(Blocks) /\ Cardinality(Blocks) = Len(prog.stmts)
           /\ \A b \in Blocks : Successors(b) \subseteq Blocks
<1> DEFINE n == Len(prog.stmts)
<1>1. n \in Nat \ {0} /\ Blocks = 1 .. n
  <2>1. prog.stmts \in Seq(Seq(StatementSet)) \ {<< >>}
    BY ProgramsAssumption
  <2> DEFINE SS == Seq(StatementSet)
  <2> HIDE DEF SS
  <2>2. prog.stmts \in Seq(SS) /\ prog.stmts # << >>
    BY <2>1 DEF SS
  <2> QED  BY <2>2 DEF Blocks
<1>2. IsFiniteSet(1 .. n) /\ Cardinality(1 .. n) = n
  <2>1. 1 \in Int /\ n \in Int /\ ~(1 > n) /\ n - 1 + 1 = n
    BY <1>1
  <2> HIDE DEF n
  <2> QED  BY <2>1, FS_Interval
<1>3. ASSUME NEW b \in Blocks PROVE Successors(b) \subseteq Blocks
  <2>1. prog.succ[b] \in Seq(Blocks)
    BY ProgramFacts
  <2> QED  BY <2>1, ElementOfSeq DEF Successors
<1> QED  BY <1>1, <1>2, <1>3

\* ReachedThrough is the least set of blocks with b and the successors of those
\* of its blocks that are in S: it stops growing before the rounds end.
LEMMA ReachedWorks ==
    ASSUME prog \in Programs, NEW b \in Blocks, NEW S
    PROVE  /\ ReachedThrough(b, S) \subseteq Blocks
           /\ b \in ReachedThrough(b, S)
           /\ \A d \in ReachedThrough(b, S) \cap S :
                 Successors(d) \subseteq ReachedThrough(b, S)
           /\ \A C : b \in C /\ (\A d \in C \cap S : Successors(d) \subseteq C)
                        => ReachedThrough(b, S) \subseteq C
<1> DEFINE n == Len(prog.stmts)
           More(X) == X \cup UNION {Successors(d) : d \in X \cap S}
           reached[k \in 0 .. Len(prog.stmts)] ==
               IF k = 0 THEN {b}
               ELSE LET before == reached[k - 1]
                    IN  before \cup UNION {Successors(d) : d \in before \cap S}
<1>1. ReachedThrough(b, S) = reached[n]
  BY DEF ReachedThrough
<1>2. /\ n \in Nat \ {0} /\ IsFiniteSet(Blocks) /\ Cardinality(Blocks) = n
      /\ \A d \in Blocks : Successors(d) \subseteq Blocks
  BY BlockFacts
<1> DEFINE M == SUBSET Blocks
           body == [k \in 0 + 1 .. n |-> [X \in M |-> More(X)]]
<1>3. \A X \in M : More(X) \in M
  BY <1>2
<1> HIDE DEF n
<1>4. \E f : f = [k \in 0 .. n |-> IF k = 0 THEN {b} ELSE More(f[k - 1])]
  <2> HIDE DEF More
  <2>1. /\ body \in [0 + 1 .. n -> [M -> M]]
        /\ \A k \in 0 + 1 .. n, X \in M : body[k][X] = More(X)
    BY <1>3
  <2>2. {b} \in M /\ 0 \in Nat /\ n \in Nat /\ 0 <= n
    BY <1>2
  <2> HIDE DEF body, M
  <2>3. PICK f : Iterates(f, 0, n, M, {b}, body)
    BY <2>1, <2>2, IteratesExist
  <2>4. /\ f \in [0 .. n -> M] /\ f[0] = {b}
        /\ \A k \in 0 + 1 .. n : f[k] = body[k][f[k - 1]]
    BY <2>3 DEF Iterates
  <2>5. \A k \in 0 .. n : k = 0 \/ (k \in 0 + 1 .. n /\ k - 1 \in 0 .. n)
    BY <1>2
  <2>6. f = [k \in 0 .. n |-> IF k = 0 THEN {b} ELSE More(f[k - 1])]
    BY <2>1, <2>4, <2>5
  <2> QED  BY <2>6
<1>5. reached = [k \in 0 .. n |-> IF k = 0 THEN {b} ELSE More(reached[k - 1])]
  BY <1>4 DEF n
<1> HIDE DEF reached
<1>6. reached[0] = {b} /\ \A k \in 0 .. n - 1 : reached[k + 1] = More(reached[k])
  <2> HIDE DEF More
  <2>1. 0 \in 0 .. n /\ \A k \in 0 .. n - 1 : k + 1 \in 0 .. n /\ k + 1 # 0 /\ (k + 1) - 1 = k
    BY <1>2
  <2> QED  BY <1>5, <2>1
<1> DEFINE Closed(X) == \A d \in X \cap S : Successors(d) \subseteq X
           Good(X, k) ==
               /\ X \in M /\ b \in X
               /\ Closed(X) \/ Cardinality(X) > k
               /\ \A C : b \in C /\ Closed(C) => X \subseteq C
           Done == {k \in 0 .. n : Good(reached[k], k)}
<1>7. \A X : /\ X \subseteq More(X)
             /\ Closed(X) <=> More(X) = X
             /\ \A C : Closed(C) /\ X \subseteq C => More(X) \subseteq C
  OBVIOUS
<1>8. Good({b}, 0)
  <2>1. Cardinality({b}) = 1
    BY FS_Singleton
  <2> QED  BY <2>1
<1>9. ASSUME NEW X, NEW k \in Nat, Good(X, k) PROVE Good(More(X), k + 1)
  <2>1. X \in M /\ More(X) \in M /\ b \in More(X)
    BY <1>3, <1>7, <1>9
  <2>2. \A C : b \in C /\ Closed(C) => More(X) \subseteq C
    BY <1>7, <1>9
  <2>3. Closed(More(X)) \/ Cardinality(More(X)) > k + 1
    <3>1. CASE Closed(X)
      BY <1>7, <3>1
    <3>2. CASE ~Closed(X)
      <4>1. Cardinality(X) > k /\ X \subseteq More(X) /\ More(X) # X
        BY <1>7, <1>9, <3>2
      <4>2. IsFiniteSet(More(X)) /\ IsFiniteSet(X)
        BY <1>2, <2>1, FS_Subset
      <4> HIDE DEF More
      <4>3. Cardinality(X) <= Cardinality(More(X))
            /\ Cardinality(X) # Cardinality(More(X))
        BY <4>1, <4>2, FS_Subset
      <4>4. Cardinality(X) \in Nat /\ Cardinality(More(X)) \in Nat
        BY <4>2, FS_CardinalityType
      <4> QED  BY <4>1, <4>3, <4>4
    <3> QED  BY <3>1, <3>2
  <2> HIDE DEF More, Closed
  <2> QED  BY <2>1, <2>2, <2>3
<1> HIDE DEF More, Good, M
<1>10. Done = 0 .. n
  <2>1. Done \in SUBSET (0 .. n) /\ 0 \in Done /\ 0 \in Nat /\ n \in Nat /\ 0 <= n
    <3>1. 0 \in 0 .. n /\ Good(reached[0], 0)
      BY <1>2, <1>6, <1>8
    <3> QED  BY <1>2, <3>1
  <2>2. ASSUME NEW k \in Done, k < n PROVE k + 1 \in Done
    <3>1. k \in 0 .. n - 1 /\ k \in Nat /\ k + 1 \in 0 .. n /\ Good(reached[k], k)
      BY <1>2, <2>2
    <3> QED  BY <1>6, <1>9, <3>1
  <2> HIDE DEF Done
  <2> QED  BY <2>1, <2>2, InductionUpTo
<1>11. Good(reached[n], n)
  <2>1. n \in 0 .. n
    BY <1>2
  <2> QED  BY <1>10, <2>1
<1>12. reached[n] \in SUBSET Blocks /\ ~(Cardinality(reached[n]) > n)
  <2>1. reached[n] \in SUBSET Blocks
    BY <1>11 DEF Good, M
  <2>2. Cardinality(reached[n]) <= n /\ Cardinality(reached[n]) \in Nat
    BY <1>2, <2>1, FS_Subset, FS_CardinalityType
  <2> QED  BY <1>2, <2>1, <2>2
<1> QED  BY <1>1, <1>11, <1>12 DEF Good

-----------------------------------------------------------------------------
(* The future-use sets *)

\* The locals that some path from b uses, and those that no path that avoids
\* their uses comes to an end without.
UsedOnSomePath(b) ==
    {l \in Locals : ~ReachedThrough(b, Blocks) \subseteq Unused(l)}

UsedOnEveryPath(b) ==
    {l \in Locals : \A d \in ReachedThrough(b, Unused(l)) \cap Unused(l) :
                        Successors(d) # {}}

LEMMA SomePath ==
    ASSUME prog \in Programs, NEW b \in Blocks
    PROVE  /\ UsesOf(b) \subseteq UsedOnSomePath(b)
           /\ \A s \in Successors(b) : UsedOnSomePath(s) \subseteq UsedOnSomePath(b)
<1>1. ASSUME NEW l \in UsesOf(b) PROVE l \in UsedOnSomePath(b)
  BY <1>1, ReachedWorks DEF UsesOf, Unused, UsedOnSomePath
<1>2. ASSUME NEW s \in Successors(b)
      PROVE  UsedOnSomePath(s) \subseteq UsedOnSomePath(b)
  <2>1. s \in Blocks /\ b \in Blocks
    BY BlockFacts
  <2>2. s \in ReachedThrough(b, Blocks)
        /\ \A d \in ReachedThrough(b, Blocks) \cap Blocks :
              Successors(d) \subseteq ReachedThrough(b, Blocks)
    BY ReachedWorks
  <2>3. ReachedThrough(s, Blocks) \subseteq ReachedThrough(b, Blocks)
    BY <2>1, <2>2, ReachedWorks
  <2> QED  BY <2>3 DEF UsedOnSomePath
<1> QED  BY <1>1, <1>2

LEMMA EveryPath ==
    ASSUME prog \in Programs, NEW b \in Blocks, NEW l \in UsedOnEveryPath(b),
           l \notin UsesOf(b)
    PROVE  /\ Successors(b) # {}
           /\ \A s \in Successors(b) : l \in UsedOnEveryPath(s)
<1>1. b \in Unused(l) /\ l \in Locals
  BY DEF Unused, UsedOnEveryPath
<1> DEFINE R == ReachedThrough(b, Unused(l))
<1>2. b \in R /\ \A d \in R \cap Unused(l) : Successors(d) \subseteq R
  BY ReachedWorks
<1>3. \A d \in R \cap Unused(l) : Successors(d) # {}
  BY DEF UsedOnEveryPath
<1>4. ASSUME NEW s \in Successors(b) PROVE l \in UsedOnEveryPath(s)
  <2>1. s \in Blocks /\ s \in R
    BY <1>1, <1>2, BlockFacts
  <2> HIDE DEF R
  <2>2. ReachedThrough(s, Unused(l)) \subseteq R
    BY <1>2, <2>1, ReachedWorks
  <2> QED  BY <1>1, <1>3, <2>2 DEF UsedOnEveryPath
<1> QED  BY <1>1, <1>2, <1>3, <1>4

\* A sweep gives every block what the rule says of its new and its old set.
LEMMA MaySweepWorks ==
    ASSUME prog \in Programs, may \in [Blocks -> SUBSET Locals]
    PROVE  /\ MaySweep = [b \in Blocks |-> MaySweep[b]]
           /\ \A b \in Blocks :
                MaySweep[b] = UsesOf(b) \cup
                    UNION {IF s > b THEN MaySweep[s] ELSE may[s] : s \in Successors(b)}
<1> DEFINE n == Len(prog.stmts)
           V == SUBSET Locals
           M == [1 .. n -> V]
           new[b \in Blocks] ==
               UsesOf(b) \cup UNION {IF s > b THEN new[s] ELSE may[s] : s \in Successors(b)}
           Rule(b, g) ==
               UsesOf(b) \cup UNION {IF s > b THEN g[s] ELSE may[s] : s \in Successors(b)}
           rule == [b \in 1 .. n |-> [g \in M |-> Rule(b, g)]]
<1>1. /\ n \in Nat \ {0} /\ Blocks = 1 .. n
      /\ \A b \in 1 .. n : Successors(b) \subseteq 1 .. n
  BY BlockFacts
<1>2. may \in [1 .. n -> V]
  BY <1>1
<1> HIDE DEF n
<1>3. \A b \in 1 .. n, g \in M : Rule(b, g) \in V
  <2>1. \A b \in 1 .. n : UsesOf(b) \in V
    BY DEF UsesOf
  <2> QED  BY <1>1, <1>2, <2>1
<1>4. \A b \in 1 .. n, g, h \in M :
         (\A s \in b + 1 .. n : g[s] = h[s]) => Rule(b, g) = Rule(b, h)
  <2> HIDE DEF Rule, M
  <2> SUFFICES ASSUME NEW b \in 1 .. n, NEW g \in M, NEW h \in M,
                      \A s \in b + 1 .. n : g[s] = h[s]
               PROVE  Rule(b, g) = Rule(b, h)
    OBVIOUS
  <2>1. \A s \in Successors(b) : s > b => s \in b + 1 .. n
    BY <1>1
  <2>2. \A s \in Successors(b) : (IF s > b THEN g[s] ELSE may[s])
                                    = IF s > b THEN h[s] ELSE may[s]
    BY <2>1
  <2> QED  BY <2>2 DEF Rule
<1>5. \E f \in M : \A b \in 1 .. n : f[b] = Rule(b, f)
  <2>1. /\ rule \in [1 .. n -> [M -> V]]
        /\ \A b \in 1 .. n, g \in M : rule[b][g] = Rule(b, g)
    BY <1>3
  <2>2. M = [1 .. n -> V] /\ may \in M
    BY <1>2
  <2> HIDE DEF rule, V, Rule, M
  <2>3. LooksUp(rule, n, M)
    BY <1>4, <2>1 DEF LooksUp
  <2>4. PICK f \in M : Obeys(f, rule, n)
    BY <1>1, <2>1, <2>2, <2>3, SweepsExist
  <2> QED  BY <2>1, <2>4 DEF Obeys
<1>6. \E f : f = [b \in Blocks |-> Rule(b, f)]
  <2> HIDE DEF Rule
  <2> QED  BY <1>1, <1>5
<1>7. new = [b \in Blocks |-> Rule(b, new)]
  BY <1>6
<1>8. MaySweep = new
  BY DEF MaySweep
<1> QED  BY <1>7, <1>8

LEMMA MustSweepWorks ==
    ASSUME prog \in Programs, must \in [Blocks -> SUBSET Locals]
    PROVE  /\ MustSweep = [b \in Blocks |-> MustSweep[b]]
           /\ \A b \in Blocks :
                MustSweep[b] = UsesOf(b) \cup {l \in Locals :
                    /\ Successors(b) # {}
                    /\ \A s \in Successors(b) :
                          l \in IF s > b THEN MustSweep[s] ELSE must[s]}
<1> DEFINE n == Len(prog.stmts)
           V == SUBSET Locals
           M == [1 .. n -> V]
           new[b \in Blocks] ==
               UsesOf(b) \cup {l \in Locals :
                   /\ Successors(b) # {}
                   /\ \A s \in Successors(b) : l \in IF s > b THEN new[s] ELSE must[s]}
           Rule(b, g) ==
               UsesOf(b) \cup {l \in Locals :
                   /\ Successors(b) # {}
                   /\ \A s \in Successors(b) : l \in IF s > b THEN g[s] ELSE must[s]}
           rule == [b \in 1 .. n |-> [g \in M |-> Rule(b, g)]]
<1>1. /\ n \in Nat \ {0} /\ Blocks = 1 .. n
      /\ \A b \in 1 .. n : Successors(b) \subseteq 1 .. n
  BY BlockFacts
<1>2. must \in [1 .. n -> V]
  BY <1>1
<1> HIDE DEF n
<1>3. \A b \in 1 .. n, g \in M : Rule(b, g) \in V
  BY DEF UsesOf
<1>4. \A b \in 1 .. n, g, h \in M :
         (\A s \in b + 1 .. n : g[s] = h[s]) => Rule(b, g) = Rule(b, h)
  <2> HIDE DEF Rule, M
  <2> SUFFICES ASSUME NEW b \in 1 .. n, NEW g \in M, NEW h \in M,
                      \A s \in b + 1 .. n : g[s] = h[s]
               PROVE  Rule(b, g) = Rule(b, h)
    OBVIOUS
  <2>1. \A s \in Successors(b) : s > b => s \in b + 1 .. n
    BY <1>1
  <2>2. \A s \in Successors(b) : (IF s > b THEN g[s] ELSE must[s])
                                    = IF s > b THEN h[s] ELSE must[s]
    BY <2>1
  <2> QED  BY <2>2 DEF Rule
<1>5. \E f \in M : \A b \in 1 .. n : f[b] = Rule(b, f)
  <2>1. /\ rule \in [1 .. n -> [M -> V]]
        /\ \A b \in 1 .. n, g \in M : rule[b][g] = Rule(b, g)
    BY <1>3
  <2>2. M = [1 .. n -> V] /\ must \in M
    BY <1>2
  <2> HIDE DEF rule, V, Rule, M
  <2>3. LooksUp(rule, n, M)
    BY <1>4, <2>1 DEF LooksUp
  <2>4. PICK f \in M : Obeys(f, rule, n)
    BY <1>1, <2>1, <2>2, <2>3, SweepsExist
  <2> QED  BY <2>1, <2>4 DEF Obeys
<1>6. \E f : f = [b \in Blocks |-> Rule(b, f)]
  <2> HIDE DEF Rule
  <2> QED  BY <1>1, <1>5
<1>7. new = [b \in Blocks |-> Rule(b, new)]
  BY <1>6
<1>8. MustSweep = new
  BY DEF MustSweep
<1> QED  BY <1>7, <1>8

\* The sets grow, and shrink, towards what the paths say, and are there when
\* their phase is over.
FutureUseInv ==
    /\ prog \in Programs
    /\ may \in [Blocks -> SUBSET Locals]
    /\ must \in [Blocks -> SUBSET Locals]
    /\ \A b \in Blocks : may[b] \subseteq UsedOnSomePath(b)
    /\ \A b \in Blocks : UsedOnEveryPath(b) \subseteq must[b]
    /\ phase # "may" => \A b \in Blocks : UsedOnSomePath(b) \subseteq may[b]
    /\ phase \notin {"may", "must"} =>
          \A b \in Blocks : must[b] \subseteq UsedOnEveryPath(b)

LEMMA InitFutureUse == Init => FutureUseInv
BY DEF Init, FutureUseInv, UsedOnEveryPath

LEMMA SamePaths ==
    ASSUME UNCHANGED facts
    PROVE  /\ Blocks' = Blocks
           /\ \A b : UsedOnSomePath(b)' = UsedOnSomePath(b)
           /\ \A b : UsedOnEveryPath(b)' = UsedOnEveryPath(b)
BY DEF facts, Blocks, UsedOnSomePath, UsedOnEveryPath, ReachedThrough, Unused,
       Successors, UsesOf

LEMMA MayUseGrows ==
    ASSUME FutureUseInv, ComputeMayUse
    PROVE  FutureUseInv'
<1>1. /\ prog \in Programs /\ may \in [Blocks -> SUBSET Locals]
      /\ must \in [Blocks -> SUBSET Locals]
      /\ \A b \in Blocks : may[b] \subseteq UsedOnSomePath(b)
      /\ \A b \in Blocks : UsedOnEveryPath(b) \subseteq must[b]
  BY DEF FutureUseInv
<1>2. /\ UNCHANGED facts /\ must' = must /\ may' = MaySweep /\ phase = "may"
      /\ phase' \in {"may", "must"}
      /\ phase' # "may" => MaySweep = may
  BY DEF ComputeMayUse
<1>3. /\ MaySweep = [b \in Blocks |-> MaySweep[b]]
      /\ \A b \in Blocks :
           MaySweep[b] = UsesOf(b) \cup
               UNION {IF s > b THEN MaySweep[s] ELSE may[s] : s \in Successors(b)}
  BY <1>1, MaySweepWorks
<1>4. /\ Len(prog.stmts) \in Nat /\ Blocks = 1 .. Len(prog.stmts)
      /\ \A b \in Blocks : Successors(b) \subseteq Blocks
  BY <1>1, BlockFacts
<1>5. \A b \in Blocks : MaySweep[b] \subseteq UsedOnSomePath(b)
  <2> DEFINE n == Len(prog.stmts)
             S == {b \in Blocks : MaySweep[b] \subseteq UsedOnSomePath(b)}
  <2>1. ASSUME NEW b \in 1 .. n, \A s \in b + 1 .. n : s \in S PROVE b \in S
    <3>1. /\ UsesOf(b) \subseteq UsedOnSomePath(b)
          /\ \A s \in Successors(b) : UsedOnSomePath(s) \subseteq UsedOnSomePath(b)
      BY <1>1, <1>4, SomePath
    <3>2. ASSUME NEW s \in Successors(b)
          PROVE  (IF s > b THEN MaySweep[s] ELSE may[s]) \subseteq UsedOnSomePath(s)
      <4>1. s \in Blocks /\ (s > b => s \in b + 1 .. n)
        BY <1>4
      <4> QED  BY <1>1, <2>1, <4>1
    <3>3. UNION {IF s > b THEN MaySweep[s] ELSE may[s] : s \in Successors(b)}
              \subseteq UsedOnSomePath(b)
      BY <3>1, <3>2
    <3> QED  BY <1>3, <1>4, <3>1, <3>3
  <2> HIDE DEF S
  <2>2. \A b \in 1 .. n : b \in S
    BY <1>4, <2>1, InductionDown
  <2> QED  BY <1>4, <2>2 DEF S
<1>6. MaySweep \in [Blocks -> SUBSET Locals]
  <2>1. \A b \in Blocks : MaySweep[b] \subseteq Locals
    BY <1>5 DEF UsedOnSomePath
  <2> QED  BY <1>3, <2>1
<1>7. ASSUME MaySweep = may, NEW b \in Blocks PROVE UsedOnSomePath(b) \subseteq may[b]
  <2> SUFFICES ASSUME NEW l \in Locals, l \notin may[b]
               PROVE  l \notin UsedOnSomePath(b)
    BY DEF UsedOnSomePath
  <2> DEFINE C == {d \in Blocks : l \notin may[d]}
  <2>1. \A d \in Blocks : /\ UsesOf(d) \subseteq may[d]
                          /\ \A s \in Successors(d) : may[s] \subseteq may[d]
    <3>1. \A d \in Blocks :
             may[d] = UsesOf(d) \cup
                 UNION {IF s > d THEN may[s] ELSE may[s] : s \in Successors(d)}
      BY <1>3, <1>7
    <3> QED  BY <3>1
  <2>2. b \in C /\ \A d \in C \cap Blocks : Successors(d) \subseteq C
    BY <1>4, <2>1
  <2>3. C \subseteq Unused(l)
    BY <2>1 DEF Unused
  <2> HIDE DEF C
  <2>4. ReachedThrough(b, Blocks) \subseteq C
    BY <1>1, <2>2, ReachedWorks
  <2> QED  BY <2>3, <2>4 DEF UsedOnSomePath
<1> QED
  BY <1>1, <1>2, <1>5, <1>6, <1>7, SamePaths DEF FutureUseInv, facts

LEMMA MustUseShrinks ==
    ASSUME FutureUseInv, ComputeMustUse
    PROVE  FutureUseInv'
<1>1. /\ prog \in Programs /\ may \in [Blocks -> SUBSET Locals]
      /\ must \in [Blocks -> SUBSET Locals]
      /\ \A b \in Blocks : may[b] \subseteq UsedOnSomePath(b)
      /\ \A b \in Blocks : UsedOnEveryPath(b) \subseteq must[b]
  BY DEF FutureUseInv
<1>2. /\ UNCHANGED facts /\ may' = may /\ must' = MustSweep /\ phase = "must"
      /\ phase' \in {"must", "flow"}
      /\ phase' # "must" => MustSweep = must
      /\ \A b \in Blocks : UsedOnSomePath(b) \subseteq may[b]
  BY DEF ComputeMustUse, FutureUseInv
<1>3. /\ MustSweep = [b \in Blocks |-> MustSweep[b]]
      /\ \A b \in Blocks :
           MustSweep[b] = UsesOf(b) \cup {l \in Locals :
               /\ Successors(b) # {}
               /\ \A s \in Successors(b) :
                     l \in IF s > b THEN MustSweep[s] ELSE must[s]}
  BY <1>1, MustSweepWorks
<1>4. /\ Len(prog.stmts) \in Nat /\ Blocks = 1 .. Len(prog.stmts)
      /\ \A b \in Blocks : Successors(b) \subseteq Blocks
  BY <1>1, BlockFacts
<1>5. \A b \in Blocks : UsedOnEveryPath(b) \subseteq MustSweep[b]
  <2> DEFINE n == Len(prog.stmts)
             S == {b \in Blocks : UsedOnEveryPath(b) \subseteq MustSweep[b]}
  <2>1. ASSUME NEW b \in 1 .. n, \A s \in b + 1 .. n : s \in S PROVE b \in S
    <3>1. ASSUME NEW l \in UsedOnEveryPath(b), l \notin UsesOf(b)
          PROVE  /\ l \in Locals /\ Successors(b) # {}
                 /\ \A s \in Successors(b) :
                       l \in IF s > b THEN MustSweep[s] ELSE must[s]
      <4>1. /\ l \in Locals /\ Successors(b) # {}
            /\ \A s \in Successors(b) : l \in UsedOnEveryPath(s)
        BY <1>1, <1>4, <3>1, EveryPath DEF UsedOnEveryPath
      <4>2. ASSUME NEW s \in Successors(b)
            PROVE  l \in IF s > b THEN MustSweep[s] ELSE must[s]
        <5>1. s \in Blocks /\ (s > b => s \in b + 1 .. n)
          BY <1>4
        <5> QED  BY <1>1, <2>1, <4>1, <5>1
      <4> QED  BY <4>1, <4>2
    <3> QED  BY <1>3, <1>4, <3>1
  <2> HIDE DEF S
  <2>2. \A b \in 1 .. n : b \in S
    BY <1>4, <2>1, InductionDown
  <2> QED  BY <1>4, <2>2 DEF S
<1>6. MustSweep \in [Blocks -> SUBSET Locals]
  <2>1. \A b \in Blocks : MustSweep[b] \subseteq Locals
    BY <1>3 DEF UsesOf
  <2> QED  BY <1>3, <2>1
<1>7. ASSUME MustSweep = must, NEW b \in Blocks PROVE must[b] \subseteq UsedOnEveryPath(b)
  <2> SUFFICES ASSUME NEW l \in must[b] PROVE l \in UsedOnEveryPath(b)
    OBVIOUS
  <2> DEFINE C == {d \in Blocks : l \in must[d]}
  <2>1. ASSUME NEW d \in Blocks, l \in must[d], l \notin UsesOf(d)
        PROVE  /\ Successors(d) # {}
               /\ \A s \in Successors(d) : l \in must[s]
    BY <1>3, <1>7, <2>1
  <2>2. /\ l \in Locals /\ b \in C
        /\ \A d \in C \cap Unused(l) : Successors(d) \subseteq C /\ Successors(d) # {}
    BY <1>1, <1>4, <2>1 DEF Unused
  <2> HIDE DEF C
  <2>3. ReachedThrough(b, Unused(l)) \subseteq C
    BY <1>1, <2>2, ReachedWorks
  <2> QED  BY <2>2, <2>3 DEF UsedOnEveryPath
<1> QED
  BY <1>1, <1>2, <1>5, <1>6, <1>7, SamePaths DEF FutureUseInv, facts

LEMMA FutureUseStep == FutureUseInv /\ [Next]_checkVars => FutureUseInv'
<1> SUFFICES ASSUME FutureUseInv, [Next]_checkVars PROVE FutureUseInv'
  OBVIOUS
<1>1. CASE ComputeMayUse
  BY <1>1, MayUseGrows
<1>2. CASE ComputeMustUse
  BY <1>2, MustUseShrinks
<1>3. CASE /\ UNCHANGED << facts, may, must >>
           /\ phase' = phase \/ (phase = "flow" /\ phase' \in {"rejected", "accepted"})
  BY <1>3, SamePaths DEF FutureUseInv, facts
<1>4. CASE TakeBlock \/ TransferStatement \/ ReadArguments
  BY <1>3, <1>4 DEF TakeBlock, TransferStatement, ReadArguments, Reject, InStatements
<1>5. CASE TransferArgument \/ TransferResult
  BY <1>3, <1>5 DEF TransferArgument, TransferResult, Reject, InStatements
<1>6. CASE TransferTerminator \/ PropagateEdge \/ FinishBlock
  BY <1>3, <1>6 DEF TransferTerminator, PropagateEdge, FinishBlock, Reject, AtTerminator
<1>7. CASE Accept \/ UNCHANGED checkVars
  BY <1>3, <1>7 DEF Accept, checkVars, facts
<1> QED  BY <1>1, <1>2, <1>4, <1>5, <1>6, <1>7 DEF Next

-----------------------------------------------------------------------------
(* The run of a function *)

\* What is shown of the analysis holds also while the function it accepted runs.
THEOREM RunKeepsTheAnalysis == FullSpec => Spec
<1>1. FullInit => Init
  BY DEF FullInit
<1>2. [FullNext]_vars => [Next]_checkVars
  BY DEF FullNext, RunStep, StartRun, RunOneStatement, RunTerminator, Over, vars
<1> QED  BY <1>1, <1>2, PTL DEF FullSpec, Spec

\* For every function the sweeps compute exactly the locals that some path, and
\* that every path that ends, from a block uses.
THEOREM FutureUseMatchesPathsHolds == FullSpec => []FutureUseMatchesPaths
<1>1. FutureUseInv => FutureUseMatchesPaths
  BY DEF FutureUseInv, FutureUseMatchesPaths, UsedOnSomePath, UsedOnEveryPath
<1> QED  BY <1>1, InitFutureUse, FutureUseStep, RunKeepsTheAnalysis, PTL DEF Spec

LocalsFunctions == [Locals -> SettledLocals]

Slotted(locals, l) == "slot" \in locals[l].mode

\* What Invalidate makes of the locals.
Without(locals, lost) ==
    [l \in Locals |->
        IF l \in lost THEN Uninit
        ELSE IF locals[l].roots \cap lost = {} THEN locals[l]
        ELSE WithRoots(locals[l], locals[l].roots \ lost)]

LEMMA InvalidatedLocals ==
    ASSUME NEW s, NEW lost
    PROVE  Invalidate(s, lost).locals = Without(s.locals, lost)
BY DEF Invalidate, Recounted, Without

\* What a settled local is: its own slot, a view of its roots, or nothing.
LEMMA SettledParts ==
    ASSUME NEW locals \in LocalsFunctions, NEW l \in Locals
    PROVE  /\ locals[l] \in SettledLocals
           /\ RootsOf(locals, l) = (IF Slotted(locals, l) THEN {l} ELSE {}) \cup locals[l].roots
           /\ "alias" \in locals[l].mode <=> locals[l].roots # {}
           /\ DefinitelyUninit(locals[l]) <=> ~Slotted(locals, l) /\ locals[l].roots = {}
           /\ DefinitelyUninit(locals[l]) <=> RootsOf(locals, l) = {}
           /\ locals[l].roots \subseteq Locals
           /\ locals[l].mode = {"slot"} <=> Slotted(locals, l) /\ locals[l].roots = {}
           /\ locals[l].mode = {"alias"} <=> ~Slotted(locals, l) /\ locals[l].roots # {}
<1>1. locals[l] \in LocalState /\ Settled(locals[l]) /\ locals[l] \in SettledLocals
  BY DEF LocalsFunctions, SettledLocals
<1>2. /\ locals[l].mode \in {{"uninit"}, {"slot"}, {"alias"}, {"slot", "alias"}}
      /\ (locals[l].roots # {}) <=> ("alias" \in locals[l].mode)
      /\ locals[l].roots \subseteq Locals
  BY <1>1 DEF Settled, LocalState
<1>3. RootsOf(locals, l) = (IF Slotted(locals, l) THEN {l} ELSE {}) \cup locals[l].roots
  BY <1>2 DEF RootsOf, Slotted
<1>4. /\ DefinitelyUninit(locals[l]) <=> ~Slotted(locals, l) /\ locals[l].roots = {}
      /\ locals[l].mode = {"slot"} <=> Slotted(locals, l) /\ locals[l].roots = {}
      /\ locals[l].mode = {"alias"} <=> ~Slotted(locals, l) /\ locals[l].roots # {}
  BY <1>2 DEF DefinitelyUninit, Slotted
<1> QED  BY <1>1, <1>2, <1>3, <1>4

\* A root that is lost takes its views with it, except what they are besides.
LEMMA WithoutWorks ==
    ASSUME NEW locals \in LocalsFunctions, NEW lost
    PROVE  /\ Without(locals, lost) \in LocalsFunctions
           /\ \A l \in Locals :
                /\ l \in lost => Without(locals, lost)[l] = Uninit
                /\ l \notin lost =>
                     /\ Without(locals, lost)[l].roots = locals[l].roots \ lost
                     /\ Slotted(Without(locals, lost), l) <=> Slotted(locals, l)
<1> DEFINE after == Without(locals, lost)
<1>1. ASSUME NEW l \in Locals
      PROVE  /\ after[l] \in SettledLocals
             /\ l \in lost => after[l] = Uninit
             /\ l \notin lost => /\ after[l].roots = locals[l].roots \ lost
                                 /\ "slot" \in after[l].mode <=> "slot" \in locals[l].mode
  <2>1. locals[l] \in SettledLocals
    BY DEF LocalsFunctions
  <2>2. locals[l] \in LocalState /\ Settled(locals[l])
    BY <2>1 DEF SettledLocals
  <2> DEFINE rs == locals[l].roots \ lost
  <2>3. rs \in SUBSET Locals
    BY <2>2 DEF LocalState
  <2>4. CASE l \in lost
    BY <2>4, ConstantLocals DEF Without
  <2>5. CASE l \notin lost /\ locals[l].roots \cap lost = {}
    <3>1. after[l] = locals[l] /\ rs = locals[l].roots
      BY <2>5 DEF Without
    <3> QED  BY <2>1, <2>5, <3>1
  <2>6. CASE l \notin lost /\ locals[l].roots \cap lost # {}
    <3>1. after[l] = WithRoots(locals[l], rs)
      BY <2>6 DEF Without
    <3>2. after[l] \in SettledLocals
      BY <2>1, <2>3, <3>1, WithRootsSettled
    <3>3. "alias" \in locals[l].mode
      BY <2>2, <2>6 DEF Settled
    <3>4. CASE rs = {}
      BY <2>2, <2>6, <3>1, <3>2, <3>3, <3>4 DEF WithRoots, Slot, Uninit, Settled
    <3>5. CASE rs # {}
      <4>1. WithRoots(locals[l], rs)
              = [mode |-> locals[l].mode, roots |-> rs, direct |-> locals[l].direct \cap rs]
        BY <2>2, <3>3, <3>5 DEF WithRoots, LocalState
      <4> QED  BY <2>6, <3>1, <3>2, <4>1
    <3> QED  BY <3>4, <3>5
  <2> QED  BY <2>4, <2>5, <2>6
<1>2. after \in LocalsFunctions
  BY <1>1 DEF LocalsFunctions, Without
<1> QED  BY <1>1, <1>2 DEF Slotted

LEMMA WithoutRoots ==
    ASSUME NEW locals \in LocalsFunctions, NEW lost, NEW l \in Locals
    PROVE  /\ l \in lost => RootsOf(Without(locals, lost), l) = {}
           /\ l \notin lost => RootsOf(Without(locals, lost), l) = RootsOf(locals, l) \ lost
           /\ DefinitelyUninit(Without(locals, lost)[l])
                <=> l \in lost \/ RootsOf(locals, l) \subseteq lost
<1> DEFINE after == Without(locals, lost)
<1>1. after \in LocalsFunctions
  BY WithoutWorks
<1>2. /\ RootsOf(locals, l) = (IF Slotted(locals, l) THEN {l} ELSE {}) \cup locals[l].roots
      /\ RootsOf(after, l) = (IF Slotted(after, l) THEN {l} ELSE {}) \cup after[l].roots
      /\ DefinitelyUninit(after[l]) <=> RootsOf(after, l) = {}
  BY <1>1, SettledParts
<1>3. /\ l \in lost => after[l].roots = {} /\ ~Slotted(after, l)
      /\ l \notin lost => /\ after[l].roots = locals[l].roots \ lost
                          /\ Slotted(after, l) <=> Slotted(locals, l)
  BY WithoutWorks DEF Uninit, Slotted
<1> HIDE DEF after
<1> QED  BY <1>2, <1>3 DEF after

LEMMA WithoutNone ==
    ASSUME NEW locals \in LocalsFunctions
    PROVE  Without(locals, {}) = locals
BY DEF Without, LocalsFunctions

LEMMA WithRootsOf ==
    ASSUME NEW mode, NEW rs, NEW direct, NEW new, "alias" \in mode, new # {}
    PROVE  WithRoots([mode |-> mode, roots |-> rs, direct |-> direct], new)
             = [mode |-> mode, roots |-> new, direct |-> direct \cap new]
BY DEF WithRoots

LEMMA WithoutShape ==
    ASSUME NEW locals, NEW lost
    PROVE  Without(locals, lost) = [l \in Locals |-> Without(locals, lost)[l]]
BY DEF Without

\* Losing roots one after the other is losing them together.
LEMMA WithoutTwice ==
    ASSUME NEW locals \in LocalsFunctions, NEW lost, NEW more
    PROVE  Without(Without(locals, lost), more) = Without(locals, lost \cup more)
<1> DEFINE first == Without(locals, lost)
           both  == Without(locals, lost \cup more)
<1>1. ASSUME NEW l \in Locals PROVE Without(first, more)[l] = both[l]
  <2> DEFINE old == locals[l]
             rs  == old.roots \ lost
             end == old.roots \ (lost \cup more)
  <2>1. old \in LocalState /\ Settled(old) /\ old \in SettledLocals
    BY DEF LocalsFunctions, SettledLocals
  <2>2. CASE l \in lost \/ l \in more
    BY <2>2 DEF Without, Uninit
  <2>3. CASE l \notin lost /\ l \notin more /\ old.roots \cap lost = {}
    <3>1. first[l] = old
      BY <2>3 DEF Without
    <3>2. old.roots \cap (lost \cup more) = old.roots \cap more /\ end = old.roots \ more
      BY <2>3
    <3> QED  BY <2>3, <3>1, <3>2 DEF Without
  <2>4. CASE l \notin lost /\ l \notin more /\ old.roots \cap lost # {}
    <3>1. first[l] = WithRoots(old, rs) /\ both[l] = WithRoots(old, end)
      BY <2>4 DEF Without
    <3>2. "alias" \in old.mode
      BY <2>1, <2>4 DEF Settled
    <3>3. Without(first, more)[l]
            = IF first[l].roots \cap more = {} THEN first[l]
              ELSE WithRoots(first[l], first[l].roots \ more)
      BY <2>4 DEF Without
    <3>4. CASE rs = {}
      <4>1. end = {}
        BY <3>4
      <4> QED  BY <3>1, <3>3, <3>4, <4>1 DEF WithRoots, Slot, Uninit
    <3>5. CASE rs # {}
      <4>1. first[l] = [mode |-> old.mode, roots |-> rs, direct |-> old.direct \cap rs]
        BY <2>1, <3>1, <3>2, <3>5 DEF WithRoots, LocalState
      <4>2. CASE rs \cap more = {}
        BY <3>1, <3>3, <4>1, <4>2
      <4>3. CASE rs \cap more # {} /\ end = {}
        <5>1. rs \ more = {}
          BY <4>3
        <5> QED  BY <3>1, <3>2, <3>3, <4>1, <4>3, <5>1 DEF WithRoots
      <4>4. CASE rs \cap more # {} /\ end # {}
        <5>1. rs \ more = end /\ (old.direct \cap rs) \cap end = old.direct \cap end
          BY DEF rs, end
        <5>2. both[l] = [mode |-> old.mode, roots |-> end, direct |-> old.direct \cap end]
          BY <2>1, <3>1, <3>2, <4>4 DEF WithRoots, LocalState
        <5>3. WithRoots(first[l], end) = [mode |-> old.mode, roots |-> end,
                                          direct |-> (old.direct \cap rs) \cap end]
          <6> HIDE DEF first, old, rs, end
          <6>1. WithRoots([mode |-> old.mode, roots |-> rs, direct |-> old.direct \cap rs], end)
                  = [mode |-> old.mode, roots |-> end, direct |-> (old.direct \cap rs) \cap end]
            BY <3>2, <4>4, WithRootsOf
          <6> QED  BY <4>1, <6>1
        <5>4. first[l].roots = rs
          BY <4>1
        <5>5. Without(first, more)[l] = WithRoots(first[l], end)
          BY <3>3, <4>4, <5>1, <5>4
        <5>6. (old.direct \cap rs) \cap end = old.direct \cap end
          BY <5>1
        <5>7. WithRoots(first[l], end)
                = [mode |-> old.mode, roots |-> end, direct |-> old.direct \cap end]
          BY <5>3, <5>6, Zenon
        <5>8. WithRoots(first[l], end) = both[l]
          BY <5>2, <5>7, Zenon
        <5> QED  BY <5>5, <5>8, Zenon
      <4> QED  BY <4>2, <4>3, <4>4
    <3> QED  BY <3>4, <3>5
  <2> QED  BY <2>2, <2>3, <2>4
<1> HIDE DEF first, both
<1>2. /\ Without(first, more) = [l \in Locals |-> Without(first, more)[l]]
      /\ Without(locals, lost \cup more) = [l \in Locals |-> Without(locals, lost \cup more)[l]]
  BY WithoutShape
<1>3. \A l \in Locals : Without(first, more)[l] = Without(locals, lost \cup more)[l]
  BY <1>1 DEF both
<1>4. [l \in Locals |-> Without(first, more)[l]]
        = [l \in Locals |-> Without(locals, lost \cup more)[l]]
  BY <1>3
<1> QED  BY <1>2, <1>4 DEF first

-----------------------------------------------------------------------------
(* The layout *)

LEMMA MaxOfWorks ==
    ASSUME NEW S \in SUBSET Nat, IsFiniteSet(S)
    PROVE  /\ MaxOf(S) \in Nat
           /\ \A n \in S : n <= MaxOf(S)
           /\ S # {} => MaxOf(S) \in S
<1>1. CASE S = {}
  BY <1>1 DEF MaxOf
<1>2. CASE S # {}
  <2>1. \E n \in S : \A m \in S : m <= n
    BY <1>2, GreatestElement
  <2>2. MaxOf(S) = CHOOSE n \in S : \A m \in S : m <= n
    BY <1>2 DEF MaxOf
  <2> QED  BY <2>1, <2>2
<1> QED  BY <1>1, <1>2

LEMMA StartWorks ==
    ASSUME prog \in Programs, layout = FunctionLayout(prog)
    PROVE  layout.start \in [Blocks -> Nat]
<1> DEFINE n == Len(prog.stmts)
           start[b \in DOMAIN prog.stmts] ==
               IF b = 1 THEN 0 ELSE start[b - 1] + Len(prog.stmts[b - 1]) + 1
           M == Nat
           body == [k \in 1 + 1 .. n |-> [x \in M |-> x + Len(prog.stmts[k - 1]) + 1]]
<1>1. layout.start = start
  BY DEF FunctionLayout
<1>2. n \in Nat \ {0} /\ Blocks = 1 .. n /\ DOMAIN prog.stmts = 1 .. n
  BY BlockFacts DEF Blocks
<1>3. \A k \in 1 .. n : Len(prog.stmts[k]) \in Nat
  <2>1. \A b \in Blocks : Statements(b) \in Seq(StatementSet)
    BY ProgramFacts
  <2> QED  BY <1>2, <2>1 DEF Statements
<1> HIDE DEF n
<1>4. /\ body \in [1 + 1 .. n -> [M -> M]]
      /\ \A k \in 1 + 1 .. n, x \in M : body[k][x] = x + Len(prog.stmts[k - 1]) + 1
  <2>1. \A k \in 1 + 1 .. n : k - 1 \in 1 .. n
    BY <1>2
  <2> QED  BY <1>3, <2>1
<1>5. PICK f : Iterates(f, 1, n, M, 0, body)
  <2>1. 1 \in Nat /\ n \in Nat /\ 1 <= n /\ 0 \in M
    BY <1>2
  <2> HIDE DEF body, M
  <2> QED  BY <1>4, <2>1, IteratesExist
<1>6. /\ f \in [1 .. n -> M] /\ f[1] = 0
      /\ \A k \in 1 + 1 .. n : f[k] = body[k][f[k - 1]]
  BY <1>5 DEF Iterates
<1>7. f = [b \in 1 .. n |-> IF b = 1 THEN 0 ELSE f[b - 1] + Len(prog.stmts[b - 1]) + 1]
  <2>1. \A k \in 1 .. n : k = 1 \/ (k \in 1 + 1 .. n /\ k - 1 \in 1 .. n)
    BY <1>2
  <2>2. \A k \in 1 .. n : f[k] = IF k = 1 THEN 0 ELSE f[k - 1] + Len(prog.stmts[k - 1]) + 1
    BY <1>4, <1>6, <2>1
  <2> QED  BY <1>6, <2>2
<1>8. start = [b \in 1 .. n |->
                 IF b = 1 THEN 0 ELSE start[b - 1] + Len(prog.stmts[b - 1]) + 1]
  BY <1>2, <1>7
<1> HIDE DEF start
<1> DEFINE Typed == {k \in 1 .. n : start[k] \in Nat}
<1>9. Typed = 1 .. n
  <2>1. 1 \in Typed
    BY <1>2, <1>8
  <2>2. ASSUME NEW k \in Typed, k < n PROVE k + 1 \in Typed
    <3>1. k + 1 \in 1 .. n /\ k + 1 # 1 /\ (k + 1) - 1 = k /\ start[k] \in Nat /\ k \in 1 .. n
      BY <1>2, <2>2
    <3>2. start[k + 1] = start[k] + Len(prog.stmts[k]) + 1
      BY <1>8, <3>1
    <3> QED  BY <1>3, <3>1, <3>2
  <2>3. Typed \in SUBSET (1 .. n) /\ 1 \in Nat /\ n \in Nat /\ 1 <= n
    BY <1>2
  <2> HIDE DEF Typed
  <2> QED  BY <2>1, <2>2, <2>3, InductionUpTo
<1> QED  BY <1>1, <1>2, <1>8, <1>9

\* The position of a statement, or of the terminator, of a block.
KeyAt(b, i) == layout.start[b] + i

\* A local is used up to its last use, in its block and in the function.
LEMMA LayoutWorks ==
    ASSUME prog \in Programs, layout = FunctionLayout(prog)
    PROVE  /\ \A b \in Blocks : layout.start[b] \in Nat
           /\ \A b \in Blocks, l \in Locals :
                /\ layout.most[b][l] \in Nat
                /\ layout.most[b][l] <= layout.last[l]
                /\ \A i \in Positions(prog, b) :
                      l \in UsedAt(prog, b, i) => KeyAt(b, i) <= layout.most[b][l]
           /\ \A l \in Locals : layout.last[l] \in Nat
<1> DEFINE start == layout.start
           At(b, l) == {start[b] + i : i \in {j \in Positions(prog, b) : l \in UsedAt(prog, b, j)}}
           most == [b \in DOMAIN prog.stmts |-> [l \in Locals |-> MaxOf(At(b, l))]]
           last == [l \in Locals |-> MaxOf({most[b][l] : b \in DOMAIN prog.stmts})]
<1>1. layout.most = most /\ layout.last = last
  BY DEF FunctionLayout
<1>2. start \in [Blocks -> Nat] /\ DOMAIN prog.stmts = Blocks
  BY StartWorks DEF Blocks
<1>3. \A b \in Blocks : Len(prog.stmts[b]) \in Nat
  <2>1. \A b \in Blocks : Statements(b) \in Seq(StatementSet)
    BY ProgramFacts
  <2> QED  BY <2>1 DEF Statements
<1> HIDE DEF start
<1>4. ASSUME NEW b \in Blocks, NEW l \in Locals
      PROVE  At(b, l) \in SUBSET Nat /\ IsFiniteSet(At(b, l))
  <2>1. start[b] \in Nat /\ Len(prog.stmts[b]) \in Nat
    BY <1>2, <1>3
  <2>2. At(b, l) \in SUBSET Nat /\ \A k \in At(b, l) : k <= start[b] + Len(prog.stmts[b]) + 1
    BY <2>1 DEF Positions
  <2>3. start[b] + Len(prog.stmts[b]) + 1 \in Nat
    BY <2>1
  <2> HIDE DEF At
  <2> QED  BY <2>2, <2>3, FS_BoundedSetOfNaturals
<1>5. ASSUME NEW b \in Blocks, NEW l \in Locals
      PROVE  /\ most[b][l] = MaxOf(At(b, l)) /\ most[b][l] \in Nat
             /\ \A k \in At(b, l) : k <= most[b][l]
  <2>1. most[b][l] = MaxOf(At(b, l))
    BY <1>2
  <2> HIDE DEF At, most
  <2> QED  BY <1>4, <2>1, MaxOfWorks
<1>6. ASSUME NEW b \in Blocks, NEW l \in Locals, NEW i \in Positions(prog, b),
             l \in UsedAt(prog, b, i)
      PROVE  start[b] + i <= most[b][l]
  <2>1. start[b] + i \in At(b, l)
    BY <1>6
  <2> QED  BY <1>5, <2>1
<1>7. ASSUME NEW l \in Locals
      PROVE  last[l] \in Nat /\ \A b \in Blocks : most[b][l] <= last[l]
  <2> DEFINE U == {most[b][l] : b \in Blocks}
  <2> HIDE DEF most
  <2>1. U \in SUBSET Nat
    BY <1>5
  <2>2. IsFiniteSet(U)
    <3> DEFINE g == [b \in Blocks |-> most[b][l]]
    <3>1. IsFiniteSet(Blocks)
      BY BlockFacts
    <3>2. g \in Surjection(Blocks, U)
      BY DEF Surjection
    <3> HIDE DEF g, U
    <3> QED  BY <3>1, <3>2, FS_Surjection
  <2>3. last[l] = MaxOf(U)
    BY <1>2
  <2>4. \A b \in Blocks : most[b][l] \in U
    OBVIOUS
  <2> HIDE DEF U, last
  <2> QED  BY <2>1, <2>2, <2>3, <2>4, MaxOfWorks
<1> HIDE DEF most, last
<1> QED  BY <1>1, <1>2, <1>5, <1>6, <1>7 DEF KeyAt, start

-----------------------------------------------------------------------------
(* What the checker found of one statement *)

RootsIn(before, s) == [k \in DOMAIN s.args |-> RootsOf(before, s.args[k].local)]

AccessIn(before, b, key, s, k) ==
    ArgumentAccess([locals |-> before], b, key, s, RootsIn(before, s), k)

\* The arguments before the n-th that gave their values away, and the roots
\* whose values went.
Moved(before, b, key, s, n) ==
    {k \in DOMAIN s.args : k < n /\ AccessIn(before, b, key, s, k) = "move"}

LostBefore(before, b, key, s, n) ==
    UNION {RootsOf(before, s.args[k].local) : k \in Moved(before, b, key, s, n)}

\* The accesses of the arguments read first and of those before the n-th.
TrackedBefore(before, b, key, s, n, tr) ==
    \A k \in DOMAIN s.args : \A r \in RootsOf(before, s.args[k].local) :
      /\ s.args[k].effect = "SharedBorrow" \/ k < n => tr[r] \in {"shared", "mutable"}
      /\ k < n /\ AccessIn(before, b, key, s, k) # "SharedBorrow" => tr[r] = "mutable"

ArgumentPassed(before, b, key, s, k) ==
    \E st \in SoundStates : \E tr :
      /\ st.locals = Without(before, LostBefore(before, b, key, s, k))
      /\ TrackedBefore(before, b, key, s, k, tr)
      /\ ArgumentAllowed(st, b, key, s, RootsIn(before, s), k, tr)

ResultOf(before, s) ==
    LET viewed == UNION {RootsOf(before, s.args[k].local) : k \in s.ret}
    IN  IF viewed = {} THEN Slot ELSE AliasOf(viewed, {})

CallMakes(before, b, key, s) ==
    LET left == Without(before, LostBefore(before, b, key, s, Len(s.args) + 1))
    IN  IF s.to = None THEN left ELSE [left EXCEPT ![s.to] = ResultOf(before, s)]

\* The statement s was accepted with the locals before it and makes them those
\* after it.
StatementPassed(b, key, s, before, after) ==
    \E st \in SoundStates :
      /\ st.locals = before
      /\ s.kind # "call" => /\ StatementAllowed(st, b, key, s)
                            /\ after = AfterStatement(st, b, key, s).locals
      /\ s.kind = "call" => /\ ArgumentsReadable(st, b, key, s)
                            /\ \A k \in DOMAIN s.args : ArgumentPassed(before, b, key, s, k)
                            /\ after = CallMakes(before, b, key, s)

\* What the checker decides depends on nothing but the facts it computed first.
LEMMA SameChecks ==
    ASSUME UNCHANGED << facts, may, must >>
    PROVE  /\ \A b, l, key : FutureUse(b, l, key)' = FutureUse(b, l, key)
           /\ \A l, key : Expired(l, key)' = Expired(l, key)
           /\ \A l : NeverRead(l)' = NeverRead(l)
BY DEF facts, FutureUse, Expired, NeverRead

LEMMA SameDecisions ==
    ASSUME UNCHANGED << facts, may, must >>
    PROVE  \A b, rs, key : MoveDecision(b, rs, key)' = MoveDecision(b, rs, key)
<1> SUFFICES ASSUME NEW b, NEW rs, NEW key
             PROVE  MoveDecision(b, rs, key)' = MoveDecision(b, rs, key)
  OBVIOUS
<1>1. \A r : FutureUse(b, r, key)' = FutureUse(b, r, key)
  BY SameChecks
<1>2. {FutureUse(b, r, key)' : r \in rs} = {FutureUse(b, r, key) : r \in rs}
  BY <1>1
<1>3. "may" \in {FutureUse(b, r, key)' : r \in rs} <=> "may" \in {FutureUse(b, r, key) : r \in rs}
  BY <1>2
<1>4. {FutureUse(b, r, key)' : r \in rs} = {"none"} <=> {FutureUse(b, r, key) : r \in rs} = {"none"}
  BY <1>2
<1> QED  BY <1>3, <1>4 DEF MoveDecision

LEMMA SameActive ==
    ASSUME UNCHANGED << facts, may, must >>
    PROVE  \A st, b, key, r, l, actor, strict :
             Active(st, b, key, r, l, actor, strict)' = Active(st, b, key, r, l, actor, strict)
<1> SUFFICES ASSUME NEW st, NEW b, NEW key, NEW r, NEW l, NEW actor, NEW strict
             PROVE  Active(st, b, key, r, l, actor, strict)'
                      = Active(st, b, key, r, l, actor, strict)
  OBVIOUS
<1>1. UsedInLaterIteration(b, l, key, actor)' = UsedInLaterIteration(b, l, key, actor)
  BY SameChecks DEF UsedInLaterIteration
<1>2. Expired(l, key)' = Expired(l, key) /\ layout' = layout
  BY SameChecks DEF facts
<1> QED  BY <1>1, <1>2 DEF Active

LEMMA SameAllowed ==
    ASSUME UNCHANGED << facts, may, must >>
    PROVE  /\ \A st, b, key, rs, actor, tr :
                SharedAllowed(st, b, key, rs, actor, tr)' = SharedAllowed(st, b, key, rs, actor, tr)
           /\ \A st, b, key, rs, hint, tr, p, w, strict :
                MutableAllowed(st, b, key, rs, hint, tr, p, w, strict)'
                  = MutableAllowed(st, b, key, rs, hint, tr, p, w, strict)
<1>1. \A st, b, key, r, actor, hint, strict :
         ActiveHolders(st, b, key, r, actor, hint, strict)'
           = ActiveHolders(st, b, key, r, actor, hint, strict)
  BY SameActive DEF ActiveHolders
<1>2. ASSUME NEW st, NEW b, NEW key, NEW rs, NEW actor, NEW tr
      PROVE  SharedAllowed(st, b, key, rs, actor, tr)' = SharedAllowed(st, b, key, rs, actor, tr)
  <2>1. \A r, l : Active(st, b, key, r, l, actor, FALSE)' = Active(st, b, key, r, l, actor, FALSE)
    BY SameActive
  <2>2. \A l : NeverRead(l)' = NeverRead(l)
    BY SameChecks
  <2> QED  BY <2>1, <2>2 DEF SharedAllowed
<1>3. ASSUME NEW st, NEW b, NEW key, NEW rs, NEW hint, NEW tr, NEW p, NEW w, NEW strict
      PROVE  MutableAllowed(st, b, key, rs, hint, tr, p, w, strict)'
                  = MutableAllowed(st, b, key, rs, hint, tr, p, w, strict)
  BY <1>1 DEF MutableAllowed
<1> QED  BY <1>2, <1>3

LEMMA SameAssigned ==
    ASSUME UNCHANGED << facts, may, must >>
    PROVE  \A st, b, key, s :
             /\ AssignMoves(st, b, key, s)' = AssignMoves(st, b, key, s)
             /\ Bound(st, b, key, s)' = Bound(st, b, key, s)
             /\ Assigned(st, b, key, s)' = Assigned(st, b, key, s)
<1> SUFFICES ASSUME NEW st, NEW b, NEW key, NEW s
             PROVE  /\ AssignMoves(st, b, key, s)' = AssignMoves(st, b, key, s)
                    /\ Bound(st, b, key, s)' = Bound(st, b, key, s)
                    /\ Assigned(st, b, key, s)' = Assigned(st, b, key, s)
  OBVIOUS
<1>1. AssignMoves(st, b, key, s)' = AssignMoves(st, b, key, s)
  <2>1. MoveDecision(b, ViewedBy(st, s.from), key)' = MoveDecision(b, ViewedBy(st, s.from), key)
    BY SameDecisions
  <2> QED  BY <2>1 DEF AssignMoves
<1>2. Bound(st, b, key, s)' = Bound(st, b, key, s)
  BY <1>1 DEF Bound
<1>3. Assigned(st, b, key, s)' = Assigned(st, b, key, s)
  BY <1>1, <1>2 DEF Assigned
<1> QED  BY <1>1, <1>2, <1>3

LEMMA SameReads ==
    ASSUME UNCHANGED << facts, may, must >>
    PROVE  \A st, b, key, l : Readable(st, b, key, l)' = Readable(st, b, key, l)
<1> SUFFICES ASSUME NEW st, NEW b, NEW key, NEW l
             PROVE  Readable(st, b, key, l)' = Readable(st, b, key, l)
  OBVIOUS
<1>1. SharedAllowed(st, b, key, EffectiveRoots(st, l), l, NoAccess)'
        = SharedAllowed(st, b, key, EffectiveRoots(st, l), l, NoAccess)
  BY SameAllowed
<1> QED  BY <1>1 DEF Readable

LEMMA SameStatement ==
    ASSUME UNCHANGED << facts, may, must >>
    PROVE  \A st, b, key, s :
             /\ StatementAllowed(st, b, key, s)' = StatementAllowed(st, b, key, s)
             /\ AfterStatement(st, b, key, s)' = AfterStatement(st, b, key, s)
<1>1. ASSUME NEW st, NEW b, NEW key, NEW s
      PROVE  AssignAllowed(st, b, key, s)' = AssignAllowed(st, b, key, s)
  <2>1. /\ MutableAllowed(st, b, key, ViewedBy(st, s.from), s.to, NoAccess, TRUE, FALSE, FALSE)'
             = MutableAllowed(st, b, key, ViewedBy(st, s.from), s.to, NoAccess, TRUE, FALSE, FALSE)
        /\ MutableAllowed(st, b, key, EffectiveRoots(st, s.to), s.to, NoAccess, TRUE, TRUE, FALSE)'
             = MutableAllowed(st, b, key, EffectiveRoots(st, s.to), s.to, NoAccess, TRUE, TRUE, FALSE)
    BY SameAllowed
  <2>2. Readable(st, b, key, s.from)' = Readable(st, b, key, s.from)
    BY SameReads
  <2>3. Bound(st, b, key, s)' = Bound(st, b, key, s)
    BY SameAssigned
  <2> QED  BY <2>1, <2>2, <2>3 DEF AssignAllowed
<1>2. ASSUME NEW st, NEW b, NEW key, NEW s
      PROVE  /\ PackAllowed(st, b, key, s)' = PackAllowed(st, b, key, s)
             /\ Packed(st, b, key, s)' = Packed(st, b, key, s)
  <2> DEFINE first == [s EXCEPT !.from = None]
             stored == Assigned(st, b, key, first)
  <2>1. stored' = stored
    BY SameAssigned
  <2>2. AssignAllowed(st, b, key, first)' = AssignAllowed(st, b, key, first)
    BY <1>1
  <2>3. \A rs : MoveDecision(b, rs, key)' = MoveDecision(b, rs, key)
    BY SameDecisions
  <2>4. Readable(st, b, key, s.from)' = Readable(st, b, key, s.from)
    BY SameReads
  <2>5. MoveDecision(b, EffectiveRoots(stored, s.from), key)'
          = MoveDecision(b, EffectiveRoots(stored, s.from), key)
    <3> DEFINE rs == EffectiveRoots(stored, s.from)
    <3>1. rs' = rs
      BY <2>1 DEF EffectiveRoots
    <3>2. UNCHANGED << facts, may, must >>
      OBVIOUS
    <3> HIDE DEF rs
    <3>3. {FutureUse(b, r, key)' : r \in rs'} = {FutureUse(b, r, key) : r \in rs}
      BY <3>1, SameChecks
    <3>4. "may" \in {FutureUse(b, r, key)' : r \in rs'} <=> "may" \in {FutureUse(b, r, key) : r \in rs}
      BY <3>3
    <3>5. {FutureUse(b, r, key)' : r \in rs'} = {"none"} <=> {FutureUse(b, r, key) : r \in rs} = {"none"}
      BY <3>3
    <3>6. MoveDecision(b, rs, key)' = MoveDecision(b, rs, key)
      BY <3>4, <3>5 DEF MoveDecision
    <3> QED  BY <3>6 DEF rs
  <2> HIDE DEF stored
  <2>6. Packed(st, b, key, s)' = Packed(st, b, key, s)
    BY <2>1 DEF Packed, stored
  <2>7. PackAllowed(st, b, key, s)' = PackAllowed(st, b, key, s)
    BY <2>1, <2>2, <2>4, <2>5 DEF PackAllowed, stored
  <2> QED  BY <2>6, <2>7
<1> SUFFICES ASSUME NEW st, NEW b, NEW key, NEW s
             PROVE  /\ StatementAllowed(st, b, key, s)' = StatementAllowed(st, b, key, s)
                    /\ AfterStatement(st, b, key, s)' = AfterStatement(st, b, key, s)
  OBVIOUS
<1>3. /\ Readable(st, b, key, s.from)' = Readable(st, b, key, s.from)
      /\ AssignAllowed(st, b, key, s)' = AssignAllowed(st, b, key, s)
      /\ PackAllowed(st, b, key, s)' = PackAllowed(st, b, key, s)
      /\ Packed(st, b, key, s)' = Packed(st, b, key, s)
      /\ Assigned(st, b, key, s)' = Assigned(st, b, key, s)
      /\ MutableAllowed(st, b, key, EffectiveRoots(st, s.to), s.to, NoAccess, TRUE, TRUE, FALSE)'
           = MutableAllowed(st, b, key, EffectiveRoots(st, s.to), s.to, NoAccess, TRUE, TRUE, FALSE)
  BY <1>1, <1>2, SameReads, SameAssigned, SameAllowed
<1>4. StatementAllowed(st, b, key, s)' = StatementAllowed(st, b, key, s)
  BY <1>3 DEF StatementAllowed
<1>5. AfterStatement(st, b, key, s)' = AfterStatement(st, b, key, s)
  BY <1>3 DEF AfterStatement
<1> QED  BY <1>4, <1>5

LEMMA SameAccess ==
    ASSUME UNCHANGED << facts, may, must >>
    PROVE  \A st, b, key, s, rs, k :
             ArgumentAccess(st, b, key, s, rs, k)' = ArgumentAccess(st, b, key, s, rs, k)
<1> SUFFICES ASSUME NEW st, NEW b, NEW key, NEW s, NEW rs, NEW k
             PROVE  ArgumentAccess(st, b, key, s, rs, k)' = ArgumentAccess(st, b, key, s, rs, k)
  OBVIOUS
<1>1. MoveDecision(b, EffectiveRoots(st, s.args[k].local), key)'
        = MoveDecision(b, EffectiveRoots(st, s.args[k].local), key)
  BY SameDecisions
<1> QED  BY <1>1 DEF ArgumentAccess

LEMMA SameCall ==
    ASSUME UNCHANGED << facts, may, must >>
    PROVE  \A b, key, s, before :
             /\ \A k : AccessIn(before, b, key, s, k)' = AccessIn(before, b, key, s, k)
             /\ \A n : LostBefore(before, b, key, s, n)' = LostBefore(before, b, key, s, n)
             /\ \A n, tr : TrackedBefore(before, b, key, s, n, tr)'
                             = TrackedBefore(before, b, key, s, n, tr)
             /\ \A k : ArgumentPassed(before, b, key, s, k)' = ArgumentPassed(before, b, key, s, k)
             /\ CallMakes(before, b, key, s)' = CallMakes(before, b, key, s)
             /\ \A st : ArgumentsReadable(st, b, key, s)' = ArgumentsReadable(st, b, key, s)
<1> SUFFICES ASSUME NEW b, NEW key, NEW s, NEW before
      PROVE  /\ \A k : AccessIn(before, b, key, s, k)' = AccessIn(before, b, key, s, k)
             /\ \A n : LostBefore(before, b, key, s, n)' = LostBefore(before, b, key, s, n)
             /\ \A n, tr : TrackedBefore(before, b, key, s, n, tr)'
                             = TrackedBefore(before, b, key, s, n, tr)
             /\ \A k : ArgumentPassed(before, b, key, s, k)' = ArgumentPassed(before, b, key, s, k)
             /\ CallMakes(before, b, key, s)' = CallMakes(before, b, key, s)
             /\ \A st : ArgumentsReadable(st, b, key, s)' = ArgumentsReadable(st, b, key, s)
  OBVIOUS
<1>1. \A k : AccessIn(before, b, key, s, k)' = AccessIn(before, b, key, s, k)
  BY SameAccess DEF AccessIn
<1>2. ASSUME NEW n PROVE LostBefore(before, b, key, s, n)' = LostBefore(before, b, key, s, n)
  <2>1. Moved(before, b, key, s, n)' = Moved(before, b, key, s, n)
    BY <1>1 DEF Moved
  <2> QED  BY <2>1 DEF LostBefore
<1>3. ASSUME NEW n, NEW tr
      PROVE  TrackedBefore(before, b, key, s, n, tr)' = TrackedBefore(before, b, key, s, n, tr)
  BY <1>1 DEF TrackedBefore
<1>4. ASSUME NEW st, NEW rs, NEW k, NEW tr
      PROVE  ArgumentAllowed(st, b, key, s, rs, k, tr)' = ArgumentAllowed(st, b, key, s, rs, k, tr)
  <2> DEFINE held == EffectiveRoots(st, s.args[k].local)
  <2>1. ArgumentAccess(st, b, key, s, rs, k)' = ArgumentAccess(st, b, key, s, rs, k)
    BY SameAccess
  <2>2. \A actor : SharedAllowed(st, b, key, held, actor, tr)' = SharedAllowed(st, b, key, held, actor, tr)
    BY SameAllowed
  <2>3. /\ MutableAllowed(st, b, key, held, None, tr, FALSE, TRUE, FALSE)'
             = MutableAllowed(st, b, key, held, None, tr, FALSE, TRUE, FALSE)
        /\ MutableAllowed(st, b, key, held, None, tr, FALSE, FALSE, TRUE)'
             = MutableAllowed(st, b, key, held, None, tr, FALSE, FALSE, TRUE)
    BY SameAllowed
  <2>4. /\ SharedAllowed(st, b, key, held, None, tr)' = SharedAllowed(st, b, key, held, None, tr)
        /\ SharedAllowed(st, b, key, held, s.args[k].local, tr)'
             = SharedAllowed(st, b, key, held, s.args[k].local, tr)
    BY <2>2
  <2> QED  BY <2>1, <2>3, <2>4 DEF ArgumentAllowed
<1>5. ASSUME NEW k
      PROVE  ArgumentPassed(before, b, key, s, k)' = ArgumentPassed(before, b, key, s, k)
  <2>1. \A st, tr : ArgumentAllowed(st, b, key, s, RootsIn(before, s), k, tr)'
                      = ArgumentAllowed(st, b, key, s, RootsIn(before, s), k, tr)
    BY <1>4
  <2>2. \A tr : TrackedBefore(before, b, key, s, k, tr)' = TrackedBefore(before, b, key, s, k, tr)
    BY <1>3
  <2>3. LostBefore(before, b, key, s, k)' = LostBefore(before, b, key, s, k)
    BY <1>2
  <2> QED  BY <2>1, <2>2, <2>3 DEF ArgumentPassed
<1>6. CallMakes(before, b, key, s)' = CallMakes(before, b, key, s)
  <2>1. LostBefore(before, b, key, s, Len(s.args) + 1)' = LostBefore(before, b, key, s, Len(s.args) + 1)
    BY <1>2
  <2> QED  BY <2>1 DEF CallMakes
<1>7. ASSUME NEW st PROVE ArgumentsReadable(st, b, key, s)' = ArgumentsReadable(st, b, key, s)
  BY SameReads DEF ArgumentsReadable
<1> QED  BY <1>1, <1>2, <1>3, <1>5, <1>6, <1>7

LEMMA SamePassed ==
    ASSUME UNCHANGED << facts, may, must >>
    PROVE  /\ \A b, key, s, before, after :
                StatementPassed(b, key, s, before, after)'
                  <=> StatementPassed(b, key, s, before, after)
           /\ \A b, i : KeyAt(b, i)' = KeyAt(b, i)
<1>1. ASSUME NEW b, NEW key, NEW s, NEW before, NEW after
      PROVE  StatementPassed(b, key, s, before, after)' <=> StatementPassed(b, key, s, before, after)
  <2>1. \A st : /\ StatementAllowed(st, b, key, s)' = StatementAllowed(st, b, key, s)
                /\ AfterStatement(st, b, key, s)' = AfterStatement(st, b, key, s)
    BY SameStatement
  <2>2. /\ \A k : ArgumentPassed(before, b, key, s, k)' = ArgumentPassed(before, b, key, s, k)
        /\ CallMakes(before, b, key, s)' = CallMakes(before, b, key, s)
        /\ \A st : ArgumentsReadable(st, b, key, s)' = ArgumentsReadable(st, b, key, s)
    BY SameCall
  <2> QED  BY <2>1, <2>2 DEF StatementPassed
<1> QED  BY <1>1 DEF KeyAt, facts

-----------------------------------------------------------------------------
(* The arguments of a call *)

LEMMA CallFacts ==
    ASSUME NEW s, WellFormed(s), NEW before \in LocalsFunctions
    PROVE  /\ Len(s.args) \in Nat /\ DOMAIN s.args = 1 .. Len(s.args)
           /\ s.ret \subseteq DOMAIN s.args
           /\ \A k \in DOMAIN s.args :
                /\ s.args[k].local \in Locals /\ s.args[k].effect \in Effects
                /\ RootsOf(before, s.args[k].local) \in SUBSET Locals
           /\ RootsIn(before, s) \in [DOMAIN s.args -> SUBSET Locals]
           /\ \A k \in DOMAIN s.args : RootsIn(before, s)[k] = RootsOf(before, s.args[k].local)
<1>1. s.args \in Seq(Arguments) /\ s.ret \subseteq DOMAIN s.args
  BY DEF WellFormed, StatementSet
<1>2. Len(s.args) \in Nat /\ DOMAIN s.args = 1 .. Len(s.args)
  BY <1>1
<1>3. ASSUME NEW k \in DOMAIN s.args
      PROVE  /\ s.args[k].local \in Locals /\ s.args[k].effect \in Effects
             /\ RootsOf(before, s.args[k].local) \in SUBSET Locals
  <2>1. s.args[k] \in Arguments
    BY <1>1, ElementOfSeq
  <2>2. s.args[k].local \in Locals /\ s.args[k].effect \in Effects
    BY <2>1 DEF Arguments
  <2> QED  BY <2>2, SettledParts
<1> QED  BY <1>1, <1>2, <1>3 DEF RootsIn

LEMMA AccessKinds ==
    ASSUME NEW s, WellFormed(s), NEW before, NEW b, NEW key, NEW k \in DOMAIN s.args
    PROVE  AccessIn(before, b, key, s, k) \in {"SharedBorrow", "MutableBorrow", "move"}
<1>1. s.args[k].effect \in Effects
  <2>1. s.args \in Seq(Arguments)
    BY DEF WellFormed, StatementSet
  <2>2. s.args[k] \in Arguments
    BY <2>1, ElementOfSeq
  <2> QED  BY <2>2 DEF Arguments
<1> DEFINE effect == EffectiveEffect(s, RootsIn(before, s), k)
<1>2. effect \in Effects
  BY <1>1 DEF EffectiveEffect, Fallback, Optional, Effects
<1>3. /\ ~Optional(effect) => effect \in {"SharedBorrow", "MutableBorrow"}
      /\ Fallback(effect) \in {"SharedBorrow", "MutableBorrow"}
  BY <1>2 DEF Optional, Fallback, Effects
<1> HIDE DEF effect
<1> QED  BY <1>3 DEF AccessIn, ArgumentAccess, effect

\* What an argument gives away no other argument has a part in, and the result
\* is no view of it.
LEMMA MovedApart ==
    ASSUME NEW s, WellFormed(s), NEW before \in LocalsFunctions, NEW b, NEW key,
           NEW k \in DOMAIN s.args, AccessIn(before, b, key, s, k) = "move"
    PROVE  /\ Optional(EffectiveEffect(s, RootsIn(before, s), k))
           /\ s.to # None => k \notin s.ret
           /\ \A j \in DOMAIN s.args \ {k} :
                RootsOf(before, s.args[k].local) \cap RootsOf(before, s.args[j].local) = {}
           /\ MoveDecision(b, RootsOf(before, s.args[k].local), key) = "move"
           /\ s.args[k].effect # "SharedBorrow"
<1> DEFINE rs == RootsIn(before, s)
           effect == EffectiveEffect(s, rs, k)
<1>1. \A j \in DOMAIN s.args : rs[j] = RootsOf(before, s.args[j].local)
  BY DEF RootsIn
<1>2. s.args[k].effect \in Effects
  BY CallFacts
<1> HIDE DEF rs
<1>3. effect \in Effects
  BY <1>2 DEF EffectiveEffect, Fallback, Optional, Effects
<1>4. Optional(effect)
  BY <1>3 DEF AccessIn, ArgumentAccess, Optional, Effects, rs
<1>5. ~(\/ s.to # None /\ k \in s.ret
        \/ \E j \in DOMAIN s.args \ {k} : rs[k] \cap rs[j] # {})
  BY <1>2, <1>4 DEF EffectiveEffect, Fallback, Optional, Effects
<1>6. effect = s.args[k].effect
  BY <1>5 DEF EffectiveEffect
<1>7. MoveDecision(b, EffectiveRoots([locals |-> before], s.args[k].local), key) = "move"
  BY <1>3, <1>4 DEF AccessIn, ArgumentAccess, Optional, Fallback, Effects, rs
<1> QED  BY <1>1, <1>4, <1>5, <1>6, <1>7 DEF rs, EffectiveRoots, Optional

\* What the arguments before the n-th gave away is no part of the n-th, nor of
\* any argument that gave nothing away.
LEMMA LostApart ==
    ASSUME NEW s, WellFormed(s), NEW before \in LocalsFunctions, NEW b, NEW key,
           NEW n, NEW j \in DOMAIN s.args, j \notin Moved(before, b, key, s, n)
    PROVE  /\ RootsOf(before, s.args[j].local) \cap LostBefore(before, b, key, s, n) = {}
           /\ LostBefore(before, b, key, s, n) \in SUBSET Locals
<1>1. \A k \in Moved(before, b, key, s, n) :
        RootsOf(before, s.args[k].local) \cap RootsOf(before, s.args[j].local) = {}
  BY MovedApart DEF Moved
<1>2. \A k \in Moved(before, b, key, s, n) : RootsOf(before, s.args[k].local) \in SUBSET Locals
  BY CallFacts DEF Moved
<1> QED  BY <1>1, <1>2 DEF LostBefore

LEMMA LostNext ==
    ASSUME NEW s, WellFormed(s), NEW before \in LocalsFunctions, NEW b, NEW key,
           NEW n \in DOMAIN s.args
    PROVE  LostBefore(before, b, key, s, n + 1)
             = LostBefore(before, b, key, s, n)
                 \cup (IF AccessIn(before, b, key, s, n) = "move"
                         THEN RootsOf(before, s.args[n].local) ELSE {})
<1>1. DOMAIN s.args = 1 .. Len(s.args) /\ Len(s.args) \in Nat
  BY CallFacts
<1>2. \A k \in DOMAIN s.args : k < n + 1 <=> k < n \/ k = n
  BY <1>1
<1>3. Moved(before, b, key, s, n + 1)
        = Moved(before, b, key, s, n)
            \cup {k \in {n} : AccessIn(before, b, key, s, k) = "move"}
  BY <1>2 DEF Moved
<1> QED  BY <1>3 DEF LostBefore

LEMMA LostFirst ==
    ASSUME NEW s, WellFormed(s), NEW before \in LocalsFunctions, NEW b, NEW key
    PROVE  LostBefore(before, b, key, s, 1) = {}
<1>1. DOMAIN s.args = 1 .. Len(s.args) /\ Len(s.args) \in Nat
  BY CallFacts
<1>2. Moved(before, b, key, s, 1) = {}
  BY <1>1 DEF Moved
<1> QED  BY <1>2 DEF LostBefore

\* An argument is accessed as it would have been at the beginning of the call.
LEMMA ArgumentStep ==
    ASSUME NEW s, WellFormed(s), NEW before \in LocalsFunctions, NEW b, NEW key,
           NEW n \in DOMAIN s.args, NEW st \in SoundStates, NEW tr,
           st.locals = Without(before, LostBefore(before, b, key, s, n)),
           TrackedBefore(before, b, key, s, n, tr),
           ArgumentAllowed(st, b, key, s, RootsIn(before, s), n, tr)
    PROVE  /\ ArgumentAccess(st, b, key, s, RootsIn(before, s), n) = AccessIn(before, b, key, s, n)
           /\ EffectiveRoots(st, s.args[n].local) = RootsOf(before, s.args[n].local)
           /\ AfterArgument(st, b, key, s, RootsIn(before, s), n).locals
                = Without(before, LostBefore(before, b, key, s, n + 1))
           /\ TrackedBefore(before, b, key, s, n + 1,
                            ArgumentTracked(st, b, key, s, RootsIn(before, s), n, tr))
<1> DEFINE l    == s.args[n].local
           rs   == RootsIn(before, s)
           lost == LostBefore(before, b, key, s, n)
           access == AccessIn(before, b, key, s, n)
<1>1. /\ DOMAIN s.args = 1 .. Len(s.args) /\ Len(s.args) \in Nat
      /\ l \in Locals
      /\ \A k \in DOMAIN s.args : RootsOf(before, s.args[k].local) \in SUBSET Locals
  BY CallFacts
<1>2. RootsOf(before, l) \cap lost = {}
  <2>1. n \notin Moved(before, b, key, s, n)
    BY <1>1 DEF Moved
  <2> QED  BY <2>1, LostApart
<1>3. ~DefinitelyUninit(st.locals[l])
  BY DEF ArgumentAllowed
<1>4. EffectiveRoots(st, l) = RootsOf(before, l)
  <2> HIDE DEF lost, l
  <2>1. st.locals = Without(before, lost)
    BY DEF lost
  <2>2. /\ DefinitelyUninit(st.locals[l]) <=> l \in lost \/ RootsOf(before, l) \subseteq lost
        /\ l \notin lost => RootsOf(st.locals, l) = RootsOf(before, l) \ lost
    BY <1>1, <2>1, WithoutRoots
  <2> QED  BY <1>2, <1>3, <2>2 DEF EffectiveRoots
<1>5. ArgumentAccess(st, b, key, s, rs, n) = access
  BY <1>4 DEF AccessIn, ArgumentAccess, EffectiveRoots
<1>6. AfterArgument(st, b, key, s, rs, n).locals = Without(before, LostBefore(before, b, key, s, n + 1))
  <2>1. CASE access = "move"
    <3>1. AfterArgument(st, b, key, s, rs, n) = Invalidate(st, RootsOf(before, l))
      BY <1>4, <1>5, <2>1 DEF AfterArgument
    <3>2. AfterArgument(st, b, key, s, rs, n).locals = Without(st.locals, RootsOf(before, l))
      BY <3>1, InvalidatedLocals
    <3>3. Without(st.locals, RootsOf(before, l)) = Without(before, lost \cup RootsOf(before, l))
      BY WithoutTwice
    <3>4. LostBefore(before, b, key, s, n + 1) = lost \cup RootsOf(before, l)
      BY <2>1, LostNext
    <3> QED  BY <3>2, <3>3, <3>4
  <2>2. CASE access # "move"
    <3>1. AfterArgument(st, b, key, s, rs, n) = st
      BY <1>5, <2>2 DEF AfterArgument
    <3>2. LostBefore(before, b, key, s, n + 1) = lost
      BY <2>2, LostNext
    <3> QED  BY <3>1, <3>2
  <2> QED  BY <2>1, <2>2
<1>7. TrackedBefore(before, b, key, s, n + 1, ArgumentTracked(st, b, key, s, rs, n, tr))
  <2> DEFINE made == IF access = "SharedBorrow" THEN "shared" ELSE "mutable"
             new  == ArgumentTracked(st, b, key, s, rs, n, tr)
  <2>1. new = Record(tr, RootsOf(before, l), made)
    BY <1>4, <1>5 DEF ArgumentTracked
  <2>2. \A r \in Locals : new[r] = IF r \in RootsOf(before, l) /\ tr[r] # "mutable"
                                     THEN made ELSE tr[r]
    BY <2>1 DEF Record
  <2>3. \A k \in DOMAIN s.args : k < n + 1 <=> k < n \/ k = n
    BY <1>1
  <2> HIDE DEF new, access, l
  <2>4. made \in {"shared", "mutable"} /\ (made = "shared" <=> access = "SharedBorrow")
    OBVIOUS
  <2> HIDE DEF made
  <2> SUFFICES ASSUME NEW k \in DOMAIN s.args, NEW r \in RootsOf(before, s.args[k].local)
               PROVE  /\ s.args[k].effect = "SharedBorrow" \/ k < n + 1 => new[r] \in {"shared", "mutable"}
                      /\ k < n + 1 /\ AccessIn(before, b, key, s, k) # "SharedBorrow"
                           => new[r] = "mutable"
    BY DEF TrackedBefore, new
  <2>5. r \in Locals
    BY <1>1
  <2>6. /\ s.args[k].effect = "SharedBorrow" \/ k < n => tr[r] \in {"shared", "mutable"}
        /\ k < n /\ AccessIn(before, b, key, s, k) # "SharedBorrow" => tr[r] = "mutable"
    BY DEF TrackedBefore
  <2>7. CASE k = n
    <3>1. r \in RootsOf(before, l)
      BY <2>7 DEF l
    <3> QED  BY <2>2, <2>4, <2>5, <2>6, <2>7, <3>1 DEF access
  <2>8. CASE k # n
    BY <2>2, <2>3, <2>4, <2>5, <2>6, <2>8
  <2> QED  BY <2>7, <2>8
<1> QED  BY <1>4, <1>5, <1>6, <1>7

\* The reads that begin a call.
LEMMA CallBegins ==
    ASSUME NEW s, WellFormed(s), NEW st \in SoundStates, NEW b, NEW key
    PROVE  /\ TrackedBefore(st.locals, b, key, s, 1, ArgumentsRead(st, s))
           /\ st.locals = Without(st.locals, LostBefore(st.locals, b, key, s, 1))
           /\ [i \in DOMAIN s.args |-> ArgumentRoots(st, s, i)] = RootsIn(st.locals, s)
<1>1. st.locals \in LocalsFunctions
  BY SoundParts DEF LocalsFunctions
<1>2. [i \in DOMAIN s.args |-> ArgumentRoots(st, s, i)] = RootsIn(st.locals, s)
  BY DEF RootsIn, ArgumentRoots, EffectiveRoots
<1>3. st.locals = Without(st.locals, LostBefore(st.locals, b, key, s, 1))
  BY <1>1, LostFirst, WithoutNone
<1>4. TrackedBefore(st.locals, b, key, s, 1, ArgumentsRead(st, s))
  <2>1. DOMAIN s.args = 1 .. Len(s.args) /\ Len(s.args) \in Nat
    BY <1>1, CallFacts
  <2>2. \A k \in DOMAIN s.args : ~(k < 1)
    BY <2>1
  <2>3. ASSUME NEW k \in DOMAIN s.args, NEW r \in RootsOf(st.locals, s.args[k].local),
               s.args[k].effect = "SharedBorrow"
        PROVE  ArgumentsRead(st, s)[r] = "shared"
    <3> DEFINE read == UNION {ArgumentRoots(st, s, i) :
                              i \in {j \in DOMAIN s.args : s.args[j].effect = "SharedBorrow"}}
    <3>1. r \in Locals
      BY <1>1, CallFacts
    <3>2. r \in read
      BY <2>3 DEF ArgumentRoots, EffectiveRoots
    <3> HIDE DEF read
    <3>3. ArgumentsRead(st, s) = Record(NoAccess, read, "shared")
      BY DEF ArgumentsRead, read
    <3> QED  BY <3>1, <3>2, <3>3 DEF Record, NoAccess
  <2> QED  BY <2>2, <2>3 DEF TrackedBefore
<1> QED  BY <1>2, <1>3, <1>4

-----------------------------------------------------------------------------
(* The chain of a block: what the checker saw before each statement is what *)
(* it made of the statement before.                                         *)

\* The locals at the i-th point of a block, the one after its last statement
\* included.
LocalsAt(b, i) ==
    IF i \in DOMAIN Statements(b) THEN entries[b][i] ELSE {out.locals : out \in outs[b]}

Linked(b, i) ==
    \A before \in entries[b][i], after \in LocalsAt(b, i + 1) :
       StatementPassed(b, KeyAt(b, i), Statements(b)[i], before, after)

TerminatorPassed(b, st) ==
    \A l \in prog.reads[b] : Readable(st, b, KeyAt(b, Len(Statements(b)) + 1), l)

\* A visit overwrites the chain of its block from the beginning: it is broken
\* after the last statement that was seen again.
Broken == IF arg = 0 THEN index - 1 ELSE index

OnePoint ==
    /\ \A b \in Blocks : \A i \in DOMAIN Statements(b) :
         /\ entries[b][i] \subseteq LocalsFunctions
         /\ \A p, q \in entries[b][i] : p = q
    /\ \A b \in Blocks : \A p, q \in outs[b] : p = q

Unvisited ==
    phase \in {"may", "must"} =>
      /\ block = 0
      /\ \A b \in Blocks : outs[b] = {} /\ \A i \in DOMAIN Statements(b) : entries[b][i] = {}

Chained ==
    \A b \in Blocks : \A i \in DOMAIN Statements(b) : Linked(b, i) \/ (b = block /\ i = Broken)

AllSeen ==
    /\ \A b \in Blocks : outs[b] # {} => \A i \in DOMAIN Statements(b) : entries[b][i] # {}
    /\ block # 0 => \A i \in DOMAIN Statements(block) :
                       i < index \/ (i = index /\ arg # 0) => entries[block][i] # {}

Arrived ==
    block # 0 /\ arg = 0 /\ index > 1 =>
      \A before \in entries[block][index - 1] :
         StatementPassed(block, KeyAt(block, index - 1), Statements(block)[index - 1],
                         before, state.locals)

Called(before, b, key, s, n, rs, st, tr) ==
    /\ n \in 1 .. Len(s.args) + 1
    /\ rs = RootsIn(before, s)
    /\ st.locals = Without(before, LostBefore(before, b, key, s, n))
    /\ TrackedBefore(before, b, key, s, n, tr)
    /\ \A k \in DOMAIN s.args : k < n => ArgumentPassed(before, b, key, s, k)
    /\ \E first \in SoundStates : first.locals = before /\ ArgumentsReadable(first, b, key, s)

Calling ==
    arg # 0 =>
      \E before \in LocalsFunctions :
        /\ entries[block][index] = {before}
        /\ Called(before, block, KeyAt(block, index), Statement, arg, roots, state, tracker)

ReadsPassed ==
    /\ \A b \in Blocks : \A out \in outs[b] : TerminatorPassed(b, out)
    /\ edge # 0 => TerminatorPassed(block, state)

EmptyBlocks ==
    \A b \in Blocks : Statements(b) = << >> => b = block \/ Pending(b) \/ outs[b] = ins[b]

\* The first block begins with the parameters and nothing else.
Begins ==
    \A in \in ins[1] : \A l \in Locals :
      IF l \in Params \cap Visible(1) THEN Slotted(in.locals, l)
      ELSE DefinitelyUninit(in.locals[l])

ChainInv ==
    /\ layout = FunctionLayout(prog)
    /\ OnePoint
    /\ Unvisited
    /\ Chained
    /\ AllSeen
    /\ Arrived
    /\ Calling
    /\ ReadsPassed
    /\ EmptyBlocks
    /\ Begins

LEMMA InitialChain == Init => ChainInv
<1> SUFFICES ASSUME Init PROVE ChainInv
  OBVIOUS
<1>1. /\ prog \in Programs /\ layout = FunctionLayout(prog) /\ work = << 1 >> /\ Idle
      /\ outs = [b \in Blocks |-> {}]
      /\ ins = [b \in Blocks |->
                IF b = 1 THEN {KillInvisible(InitializeParameters(Params), Visible(1))} ELSE {}]
      /\ entries = [b \in Blocks |-> [i \in DOMAIN Statements(b) |-> {}]]
  BY DEF Init
<1>2. 1 \in Blocks /\ 0 \notin Blocks
  BY <1>1, ProgramFacts
<1>3. \A b \in Blocks : outs[b] = {} /\ \A i \in DOMAIN Statements(b) : entries[b][i] = {}
  BY <1>1
<1>4. block = 0 /\ arg = 0 /\ edge = 0
  BY <1>1 DEF Idle
<1>5. OnePoint /\ Unvisited /\ Chained /\ AllSeen /\ Arrived /\ Calling /\ ReadsPassed
  BY <1>3, <1>4
     DEF OnePoint, Unvisited, Chained, Linked, AllSeen, Arrived, Calling, ReadsPassed
<1>6. EmptyBlocks
  <2>1. Pending(1)
    BY <1>1 DEF Pending
  <2>2. \A b \in Blocks : b = 1 \/ outs[b] = ins[b]
    BY <1>1, <1>3
  <2> QED  BY <2>1, <2>2 DEF EmptyBlocks
<1>7. Begins
  <2> DEFINE given0 == InitializeParameters(Params)
             first == KillInvisible(given0, Visible(1))
  <2>1. ins[1] = {first}
    BY <1>1, <1>2
  <2>2. first.locals = KilledLocals(given0, Visible(1))
    BY KillLocals
  <2>3. \A l \in Locals : given0.locals[l] = IF l \in Params THEN Slot ELSE Uninit
    BY DEF InitializeParameters, Recounted
  <2> HIDE DEF given0
  <2>4. ASSUME NEW l \in Locals
        PROVE  first.locals[l] = IF l \in Params \cap Visible(1) THEN Slot ELSE Uninit
    <3>1. \A rs : WithRoots(Slot, rs) = Slot /\ WithRoots(Uninit, rs) = Uninit
      BY DEF WithRoots, Slot, Uninit
    <3>2. first.locals[l] = IF l \notin Visible(1) THEN Uninit
                            ELSE WithRoots(given0.locals[l], given0.locals[l].roots \cap Visible(1))
      BY <2>2 DEF KilledLocals
    <3> QED  BY <2>3, <3>1, <3>2
  <2> HIDE DEF first
  <2> QED  BY <2>1, <2>4 DEF Begins, Slotted, DefinitelyUninit, Slot, Uninit
<1> QED  BY <1>1, <1>5, <1>6, <1>7 DEF ChainInv

LEMMA SameLinks ==
    ASSUME UNCHANGED << facts, may, must >>
    PROVE  /\ Blocks' = Blocks
           /\ \A b : Statements(b)' = Statements(b)
           /\ \A b, i : entries'[b][i] = entries[b][i] /\ LocalsAt(b, i + 1)' = LocalsAt(b, i + 1)
                          => (Linked(b, i)' <=> Linked(b, i))
           /\ \A b, i : entries'[b] = entries[b] /\ outs'[b] = outs[b]
                          => LocalsAt(b, i)' = LocalsAt(b, i)
           /\ \A b, st : TerminatorPassed(b, st)' <=> TerminatorPassed(b, st)
<1>1. /\ Blocks' = Blocks /\ prog' = prog
      /\ \A b : Statements(b)' = Statements(b)
  BY DEF facts, Blocks, Statements
<1>2. ASSUME NEW b, NEW i, entries'[b][i] = entries[b][i], LocalsAt(b, i + 1)' = LocalsAt(b, i + 1)
      PROVE  Linked(b, i)' <=> Linked(b, i)
  <2>1. \A before, after :
          StatementPassed(b, KeyAt(b, i), Statements(b)[i], before, after)'
            <=> StatementPassed(b, KeyAt(b, i), Statements(b)[i], before, after)
    <3> DEFINE key == KeyAt(b, i)
               s   == Statements(b)[i]
    <3>1. key' = key /\ s' = s
      BY <1>1, SamePassed
    <3>2. \A k, t, before, after : StatementPassed(b, k, t, before, after)'
                                     <=> StatementPassed(b, k, t, before, after)
      BY SamePassed
    <3> HIDE DEF key, s
    <3>3. \A before, after : StatementPassed(b, key, s, before, after)'
                                     <=> StatementPassed(b, key, s, before, after)
      BY <3>1, SameStatement, SameCall DEF StatementPassed
    <3> QED  BY <3>3 DEF key, s
  <2> QED  BY <1>2, <2>1 DEF Linked
<1>3. ASSUME NEW b, NEW i, entries'[b] = entries[b], outs'[b] = outs[b]
      PROVE  LocalsAt(b, i)' = LocalsAt(b, i)
  BY <1>1, <1>3 DEF LocalsAt
<1>4. ASSUME NEW b, NEW st PROVE TerminatorPassed(b, st)' <=> TerminatorPassed(b, st)
  <2> DEFINE key == KeyAt(b, Len(Statements(b)) + 1)
  <2>1. key' = key
    BY <1>1 DEF KeyAt, facts
  <2>2. \A l : Readable(st, b, key, l)' = Readable(st, b, key, l)
    <3>1. \A k, l : Readable(st, b, k, l)' = Readable(st, b, k, l)
      BY SameReads
    <3> HIDE DEF key
    <3> QED  BY <2>1, <3>1, SameReads, SameAllowed DEF Readable
  <2> QED  BY <1>1, <2>2 DEF TerminatorPassed
<1> QED  BY <1>1, <1>2, <1>3, <1>4

LEMMA SameCalled ==
    ASSUME UNCHANGED << facts, may, must >>
    PROVE  \A before, b, key, s, n, rs, st, tr :
             Called(before, b, key, s, n, rs, st, tr)' <=> Called(before, b, key, s, n, rs, st, tr)
<1> SUFFICES ASSUME NEW before, NEW b, NEW key, NEW s, NEW n, NEW rs, NEW st, NEW tr
      PROVE  Called(before, b, key, s, n, rs, st, tr)' <=> Called(before, b, key, s, n, rs, st, tr)
  OBVIOUS
<1>1. /\ LostBefore(before, b, key, s, n)' = LostBefore(before, b, key, s, n)
      /\ TrackedBefore(before, b, key, s, n, tr)' = TrackedBefore(before, b, key, s, n, tr)
      /\ \A k : ArgumentPassed(before, b, key, s, k)' = ArgumentPassed(before, b, key, s, k)
      /\ \A first : ArgumentsReadable(first, b, key, s)' = ArgumentsReadable(first, b, key, s)
  BY SameCall
<1> QED  BY <1>1 DEF Called

\* Steps that leave the blocks alone.
LEMMA QuietChain ==
    ASSUME ChainInv, UNCHANGED << facts, may, must, ins, outs, work, visit, entries >>,
           phase' \in {"may", "must"} => phase \in {"may", "must"}
    PROVE  ChainInv'
<1>1. /\ prog' = prog /\ layout' = layout /\ ins' = ins /\ outs' = outs /\ work' = work
      /\ entries' = entries /\ block' = block /\ index' = index /\ arg' = arg
      /\ edge' = edge /\ state' = state /\ roots' = roots /\ tracker' = tracker
  BY DEF facts, visit
<1>2. /\ Blocks' = Blocks
      /\ \A b : Statements(b)' = Statements(b)
      /\ \A b, i : LocalsAt(b, i)' = LocalsAt(b, i)
      /\ \A b, i : Linked(b, i)' <=> Linked(b, i)
      /\ \A b, st : TerminatorPassed(b, st)' <=> TerminatorPassed(b, st)
  BY <1>1, SameLinks
<1>3. OnePoint' /\ Unvisited'
  BY <1>1, <1>2 DEF ChainInv, OnePoint, Unvisited
<1>4. Chained' /\ AllSeen'
  BY <1>1, <1>2 DEF ChainInv, Chained, AllSeen, Broken
<1>5. Arrived'
  BY <1>1, <1>2, SamePassed DEF ChainInv, Arrived
<1>6. Calling'
  <2>1. KeyAt(block, index)' = KeyAt(block, index) /\ Statement' = Statement
    BY <1>1, SamePassed DEF Statement, Statements
  <2> QED  BY <1>1, <2>1, SameCalled DEF ChainInv, Calling
<1>7. ReadsPassed'
  BY <1>1, <1>2 DEF ChainInv, ReadsPassed
<1>8. EmptyBlocks' /\ Begins'
  BY <1>1, <1>2 DEF ChainInv, EmptyBlocks, Begins, Pending, Visible
<1>9. layout' = FunctionLayout(prog')
  BY <1>1 DEF ChainInv
<1> QED  BY <1>3, <1>4, <1>5, <1>6, <1>7, <1>8, <1>9 DEF ChainInv

\* The steps before the worklist starts.
LEMMA PrepareChain ==
    ASSUME AnalysisInv, WorklistInv, ChainInv, phase \in {"may", "must"},
           UNCHANGED << facts, ins, outs, work, visit, entries >>
    PROVE  ChainInv'
<1>1. /\ prog' = prog /\ layout' = layout /\ ins' = ins /\ outs' = outs /\ work' = work
      /\ entries' = entries /\ block' = block /\ arg' = arg /\ edge' = edge
  BY DEF facts, visit
<1>2. /\ block = 0
      /\ \A b \in Blocks : outs[b] = {} /\ \A i \in DOMAIN Statements(b) : entries[b][i] = {}
  BY DEF ChainInv, Unvisited
<1>3. arg = 0 /\ edge = 0
  BY <1>2 DEF AnalysisInv, CallInProgress, WorklistInv, Propagated
<1>4. Blocks' = Blocks /\ \A b : Statements(b)' = Statements(b)
  BY <1>1 DEF Blocks, Statements
<1>5. OnePoint' /\ Unvisited' /\ Chained' /\ AllSeen' /\ Arrived' /\ Calling' /\ ReadsPassed'
  BY <1>1, <1>2, <1>3, <1>4
     DEF OnePoint, Unvisited, Chained, Linked, AllSeen, Arrived, Calling, ReadsPassed
<1>6. EmptyBlocks' /\ Begins'
  BY <1>1, <1>4 DEF ChainInv, EmptyBlocks, Begins, Pending, Visible
<1>7. layout' = FunctionLayout(prog')
  BY <1>1 DEF ChainInv
<1> QED  BY <1>5, <1>6, <1>7 DEF ChainInv

LEMMA TakeBlockChain ==
    ASSUME AnalysisInv, WorklistInv, ChainInv, TakeBlock
    PROVE  ChainInv'
<1> DEFINE b == Head(work)
<1>1. /\ phase = "flow" /\ block = 0 /\ work # << >> /\ work' = Tail(work)
      /\ UNCHANGED << facts, may, must, phase, outs, arg, roots, tracker, edge, entries >>
  BY DEF TakeBlock
<1>2. PICK in \in ins[b] :
        /\ ins' = [ins EXCEPT ![b] = {KillInvisible(in, Visible(b))}]
        /\ block' = b /\ state' = KillInvisible(in, Visible(b)) /\ index' = 1
  BY DEF TakeBlock
<1>3. /\ prog \in Programs /\ work \in Seq(Blocks) /\ ins \in [Blocks -> SUBSET SoundStates]
      /\ arg = 0
  BY <1>1 DEF AnalysisInv, CallInProgress
<1>4. b \in Blocks /\ b # 0 /\ block \notin Blocks
  BY <1>1, <1>3, ProgramFacts
<1> HIDE DEF b
<1>5. in \in SoundStates /\ Clean(in, Visible(b))
  BY <1>2, <1>3, <1>4 DEF WorklistInv, CleanEntries
<1>6. KillInvisible(in, Visible(b)) = in
  BY <1>5, CleanIsKept
<1>7. ins[b] = {in}
  BY <1>2, <1>4 DEF WorklistInv, OneEntry
<1>8. ins' = ins
  BY <1>2, <1>3, <1>4, <1>6, <1>7
<1>9. /\ Blocks' = Blocks
      /\ \A d : Statements(d)' = Statements(d)
      /\ \A d, i : LocalsAt(d, i)' = LocalsAt(d, i)
      /\ \A d, i : Linked(d, i)' <=> Linked(d, i)
      /\ \A d, st : TerminatorPassed(d, st)' <=> TerminatorPassed(d, st)
  BY <1>1, SameLinks
<1>10. OnePoint' /\ Unvisited'
  BY <1>1, <1>9 DEF ChainInv, OnePoint, Unvisited
<1>11. Chained'
  BY <1>4, <1>9 DEF ChainInv, Chained
<1>12. AllSeen'
  <2>1. \A i \in DOMAIN Statements(b) : ~(i < 1) /\ arg' = 0
    <3>1. Statements(b) \in Seq(StatementSet)
      BY <1>3, <1>4, ProgramFacts
    <3> QED  BY <1>1, <1>3, <3>1
  <2> QED  BY <1>1, <1>2, <1>9, <2>1 DEF ChainInv, AllSeen
<1>13. Arrived' /\ Calling'
  BY <1>1, <1>2, <1>3 DEF Arrived, Calling
<1>14. edge = 0
  BY <1>1 DEF WorklistInv, Propagated
<1>15. ReadsPassed'
  BY <1>1, <1>9, <1>14 DEF ChainInv, ReadsPassed
<1>16. EmptyBlocks'
  <2>1. ASSUME NEW d \in Blocks, Statements(d) = << >>, d # b
        PROVE  Pending(d)' \/ outs[d] = ins[d]
    <3>1. Pending(d) \/ outs[d] = ins[d]
      BY <1>4, <2>1 DEF ChainInv, EmptyBlocks
    <3>2. Pending(d) => Pending(d)'
      BY <1>1, <1>3, <2>1, PendingTail DEF Pending, b
    <3> QED  BY <3>1, <3>2
  <2> QED  BY <1>1, <1>2, <1>8, <1>9, <2>1 DEF EmptyBlocks
<1>17. Begins' /\ layout' = FunctionLayout(prog')
  BY <1>1, <1>8 DEF ChainInv, Begins, Visible, facts
<1> QED
  BY <1>10, <1>11, <1>12, <1>13, <1>15, <1>16, <1>17 DEF ChainInv

LEMMA InStatementsFacts ==
    ASSUME AnalysisInv, WorklistInv, InStatements
    PROVE  /\ prog \in Programs /\ block \in Blocks /\ block # 0
           /\ DOMAIN Statements(block) = 1 .. Len(Statements(block))
           /\ Len(Statements(block)) \in Nat
           /\ index \in Nat /\ index > 0 /\ index \in DOMAIN Statements(block)
           /\ Statement \in StatementSet /\ WellFormed(Statement)
           /\ phase = "flow" /\ edge = 0
           /\ state \in SoundStates /\ state.locals \in LocalsFunctions
           /\ Key = KeyAt(block, index)
<1>1. /\ prog \in Programs /\ block \in Blocks /\ block # 0 /\ phase = "flow"
      /\ index \in DOMAIN Statements(block) /\ state \in SoundStates
  BY DEF AnalysisInv, InStatements
<1>2. Statements(block) \in Seq(StatementSet) /\ WellFormed(Statement)
  BY <1>1, ProgramFacts DEF Statement
<1>3. /\ DOMAIN Statements(block) = 1 .. Len(Statements(block))
      /\ Len(Statements(block)) \in Nat
  BY <1>2
<1>4. index # Len(Statements(block)) + 1
  BY <1>1, <1>3
<1>5. edge = 0
  BY <1>4 DEF WorklistInv, Propagated
<1>6. state.locals \in LocalsFunctions
  BY <1>1, SoundParts DEF LocalsFunctions
<1> QED
  BY <1>1, <1>2, <1>3, <1>5, <1>6 DEF WellFormed, Key, KeyAt

\* A snapshot joins what was seen before it to what it sees.
LEMMA SnapshotChain ==
    ASSUME AnalysisInv, WorklistInv, ChainInv, InStatements, arg = 0, Snapshot,
           UNCHANGED << facts, may, must, outs >>
    PROVE  /\ entries'[block][index] = {state.locals}
           /\ OnePoint'
           /\ \A b \in Blocks : \A i \in DOMAIN Statements(b) :
                 Linked(b, i)' \/ (b = block /\ i = index)
           /\ \A b \in Blocks : outs[b] # {} => \A i \in DOMAIN Statements(b) : entries'[b][i] # {}
           /\ \A i \in DOMAIN Statements(block) : i < index + 1 => entries'[block][i] # {}
<1>1. /\ prog \in Programs /\ block \in Blocks /\ block # 0
      /\ DOMAIN Statements(block) = 1 .. Len(Statements(block))
      /\ Len(Statements(block)) \in Nat
      /\ index \in Nat /\ index > 0 /\ index \in DOMAIN Statements(block)
      /\ state.locals \in LocalsFunctions
  BY InStatementsFacts
<1>2. DOMAIN entries = Blocks /\ DOMAIN entries[block] = DOMAIN Statements(block)
  BY <1>1 DEF WorklistInv, EntriesShape
<1>3. /\ entries'[block][index] = {state.locals}
      /\ \A i \in DOMAIN Statements(block) \ {index} : entries'[block][i] = entries[block][i]
      /\ \A b \in Blocks \ {block} : entries'[b] = entries[b]
  BY <1>1, <1>2 DEF Snapshot
<1>4. /\ Blocks' = Blocks
      /\ \A b : Statements(b)' = Statements(b)
      /\ \A b, i : entries'[b][i] = entries[b][i] /\ LocalsAt(b, i + 1)' = LocalsAt(b, i + 1)
                          => (Linked(b, i)' <=> Linked(b, i))
      /\ \A b, i : entries'[b] = entries[b] /\ outs'[b] = outs[b]
                          => LocalsAt(b, i)' = LocalsAt(b, i)
  BY SameLinks
<1>5. OnePoint'
  BY <1>1, <1>3, <1>4 DEF ChainInv, OnePoint
<1>6. ASSUME NEW b \in Blocks, NEW i \in DOMAIN Statements(b), ~(b = block /\ i = index)
      PROVE  Linked(b, i)'
  <2>1. Linked(b, i) \/ (b = block /\ i = index - 1)
    BY <1>6 DEF ChainInv, Chained, Broken
  <2>2. CASE b # block
    BY <1>3, <1>4, <2>1, <2>2
  <2>3. CASE b = block /\ i # index - 1
    <3>1. i \in Nat /\ i + 1 # index
      BY <1>1, <2>3
    <3>2. LocalsAt(b, i + 1)' = LocalsAt(b, i + 1)
      BY <1>3, <1>4, <2>3, <3>1 DEF LocalsAt
    <3> QED  BY <1>3, <1>4, <1>6, <2>1, <2>3, <3>2
  <2>4. CASE b = block /\ i = index - 1
    <3>1. index > 1 /\ index = i + 1
      BY <1>1, <2>4
    <3>2. \A before \in entries[block][index - 1] :
             StatementPassed(block, KeyAt(block, index - 1), Statements(block)[index - 1],
                             before, state.locals)
      BY <1>1, <3>1 DEF ChainInv, Arrived
    <3>3. \A before \in entries[b][i] :
             StatementPassed(b, KeyAt(b, i), Statements(b)[i], before, state.locals)
      BY <2>4, <3>2
    <3>4. LocalsAt(b, i + 1)' = {state.locals}
      BY <1>1, <1>3, <1>4, <2>4, <3>1 DEF LocalsAt
    <3>5. entries'[b][i] = entries[b][i]
      BY <1>3, <1>6, <2>4
    <3>6. Linked(b, i)' <=> \A before \in entries'[b][i], after \in LocalsAt(b, i + 1)' :
             StatementPassed(b, KeyAt(b, i), Statements(b)[i], before, after)'
      BY DEF Linked
    <3>7. \A before, after :
             StatementPassed(b, KeyAt(b, i), Statements(b)[i], before, after)'
               <=> StatementPassed(b, KeyAt(b, i), Statements(b)[i], before, after)
      <4>1. KeyAt(b, i)' = KeyAt(b, i) /\ Statements(b)'[i] = Statements(b)[i]
        BY <1>4, SamePassed
      <4> QED  BY <4>1, SamePassed
    <3> QED  BY <3>3, <3>4, <3>5, <3>6, <3>7
  <2> QED  BY <2>2, <2>3, <2>4
<1>7. ASSUME NEW b \in Blocks, outs[b] # {}, NEW i \in DOMAIN Statements(b)
      PROVE  entries'[b][i] # {}
  BY <1>3, <1>7 DEF ChainInv, AllSeen
<1>8. ASSUME NEW i \in DOMAIN Statements(block), i < index + 1
      PROVE  entries'[block][i] # {}
  <2>1. i < index \/ i = index
    BY <1>1, <1>8
  <2> QED  BY <1>1, <1>3, <2>1 DEF ChainInv, AllSeen
<1> QED  BY <1>3, <1>5, <1>6, <1>7, <1>8

\* What the visit of a statement leaves alone.
LEMMA VisitChain ==
    ASSUME AnalysisInv, WorklistInv, ChainInv, InStatements,
           UNCHANGED << facts, may, must, phase, ins, outs, work, block, edge >>
    PROVE  /\ Blocks' = Blocks
           /\ \A b : Statements(b)' = Statements(b)
           /\ Unvisited' /\ ReadsPassed' /\ EmptyBlocks' /\ Begins'
           /\ layout' = FunctionLayout(prog')
<1>1. /\ Blocks' = Blocks
      /\ \A b : Statements(b)' = Statements(b)
      /\ \A b, st : TerminatorPassed(b, st)' <=> TerminatorPassed(b, st)
  BY SameLinks
<1>2. phase = "flow" /\ edge = 0
  BY InStatementsFacts
<1>3. Unvisited' /\ ReadsPassed'
  BY <1>1, <1>2 DEF ChainInv, Unvisited, ReadsPassed
<1>4. EmptyBlocks' /\ Begins' /\ layout' = FunctionLayout(prog')
  BY <1>1 DEF ChainInv, EmptyBlocks, Begins, Pending, Visible, facts
<1> QED  BY <1>1, <1>3, <1>4

\* The state that a statement leads to.
LEMMA ArriveChain ==
    ASSUME UNCHANGED << facts, may, must, block >>, index \in Nat, index' = index + 1,
           NEW before, entries'[block][index] = {before},
           StatementPassed(block, KeyAt(block, index), Statements(block)[index],
                           before, state'.locals)
    PROVE  Arrived'
<1>1. index' - 1 = index
  OBVIOUS
<1>2. KeyAt(block, index - 1)' = KeyAt(block, index)
  BY <1>1 DEF KeyAt, facts
<1>3. (Statements(block)[index - 1])' = Statements(block)[index]
  BY <1>1 DEF Statements, facts
<1>4. (entries[block][index - 1])' = {before}
  BY <1>1
<1>5. StatementPassed(block, KeyAt(block, index - 1), Statements(block)[index - 1],
                      before, state.locals)'
  BY <1>2, <1>3, SamePassed
<1> QED  BY <1>4, <1>5 DEF Arrived

LEMMA TransferStatementChain ==
    ASSUME AnalysisInv, WorklistInv, ChainInv, TransferStatement
    PROVE  ChainInv'
<1>1. InStatements /\ arg = 0 /\ UNCHANGED << facts, may, must >> /\ Statement.kind # "call"
  BY DEF AnalysisInv, CallInProgress, TransferStatement
<1>2. CASE ~StatementAllowed(state, block, Key, Statement)
  BY <1>2, QuietChain DEF TransferStatement, Reject
<1>3. CASE StatementAllowed(state, block, Key, Statement)
  <2>1. /\ state' = AfterStatement(state, block, Key, Statement)
        /\ index' = index + 1 /\ Snapshot /\ arg' = 0
        /\ UNCHANGED << facts, may, must, phase, ins, outs, work, block, edge >>
    BY <1>1, <1>3 DEF TransferStatement
  <2>2. /\ entries'[block][index] = {state.locals}
        /\ OnePoint'
        /\ \A b \in Blocks : \A i \in DOMAIN Statements(b) :
                 Linked(b, i)' \/ (b = block /\ i = index)
        /\ \A b \in Blocks : outs[b] # {} => \A i \in DOMAIN Statements(b) : entries'[b][i] # {}
        /\ \A i \in DOMAIN Statements(block) : i < index + 1 => entries'[block][i] # {}
    BY <1>1, <2>1, SnapshotChain
  <2>3. /\ Blocks' = Blocks
        /\ \A b : Statements(b)' = Statements(b)
        /\ Unvisited' /\ ReadsPassed' /\ EmptyBlocks' /\ Begins'
        /\ layout' = FunctionLayout(prog')
    BY <1>1, <2>1, VisitChain
  <2>4. /\ block \in Blocks /\ index \in Nat /\ state \in SoundStates
        /\ Key = KeyAt(block, index)
    BY <1>1, InStatementsFacts
  <2>5. Chained'
    BY <2>1, <2>2, <2>3, <2>4 DEF Chained, Broken
  <2>6. AllSeen'
    BY <2>1, <2>2, <2>3, <2>4 DEF AllSeen
  <2>7. Arrived'
    <3>1. StatementPassed(block, KeyAt(block, index), Statements(block)[index],
                          state.locals, state'.locals)
      BY <1>1, <1>3, <2>1, <2>4 DEF StatementPassed, Statement
    <3> QED  BY <2>1, <2>2, <2>4, <3>1, ArriveChain
  <2>8. Calling'
    BY <2>1 DEF Calling
  <2> QED  BY <2>2, <2>3, <2>5, <2>6, <2>7, <2>8 DEF ChainInv
<1> QED  BY <1>2, <1>3

LEMMA LenIsDomain ==
    ASSUME NEW f, NEW n \in Nat, DOMAIN f = 1 .. n
    PROVE  Len(f) = n
OBVIOUS

LEMMA ReadArgumentsChain ==
    ASSUME AnalysisInv, WorklistInv, ChainInv, ReadArguments
    PROVE  ChainInv'
<1>1. InStatements /\ arg = 0 /\ UNCHANGED << facts, may, must >> /\ Statement.kind = "call"
  BY DEF ReadArguments
<1>2. CASE ~ArgumentsReadable(state, block, Key, Statement)
  BY <1>2, QuietChain DEF ReadArguments, Reject
<1>3. CASE ArgumentsReadable(state, block, Key, Statement)
  <2>1. /\ roots' = [i \in DOMAIN Statement.args |-> ArgumentRoots(state, Statement, i)]
        /\ tracker' = ArgumentsRead(state, Statement)
        /\ arg' = 1 /\ Snapshot
        /\ UNCHANGED << facts, may, must, phase, ins, outs, work, block, state, index, edge >>
    BY <1>1, <1>3 DEF ReadArguments
  <2>2. /\ entries'[block][index] = {state.locals}
        /\ OnePoint'
        /\ \A b \in Blocks : \A i \in DOMAIN Statements(b) :
                 Linked(b, i)' \/ (b = block /\ i = index)
        /\ \A b \in Blocks : outs[b] # {} => \A i \in DOMAIN Statements(b) : entries'[b][i] # {}
        /\ \A i \in DOMAIN Statements(block) : i < index + 1 => entries'[block][i] # {}
    BY <1>1, <2>1, SnapshotChain
  <2>3. /\ Blocks' = Blocks
        /\ \A b : Statements(b)' = Statements(b)
        /\ Unvisited' /\ ReadsPassed' /\ EmptyBlocks' /\ Begins'
        /\ layout' = FunctionLayout(prog')
    BY <1>1, <2>1, VisitChain
  <2>4. /\ block \in Blocks /\ index \in Nat /\ state \in SoundStates
        /\ DOMAIN Statements(block) = 1 .. Len(Statements(block))
        /\ Len(Statements(block)) \in Nat
        /\ Key = KeyAt(block, index) /\ WellFormed(Statement)
        /\ state.locals \in LocalsFunctions
    BY <1>1, InStatementsFacts
  <2>5. Chained'
    BY <2>1, <2>2, <2>3, <2>4 DEF Chained, Broken
  <2>6. AllSeen'
    <3>1. \A i \in DOMAIN Statements(block) : i < index \/ i = index => i < index + 1
      BY <2>4
    <3> QED  BY <2>1, <2>2, <2>3, <2>4, <3>1 DEF AllSeen
  <2>7. Arrived'
    BY <2>1 DEF Arrived
  <2>8. Called(state.locals, block, Key, Statement, 1, roots', state, tracker')
    <3>1. /\ TrackedBefore(state.locals, block, Key, Statement, 1, tracker')
          /\ state.locals = Without(state.locals, LostBefore(state.locals, block, Key, Statement, 1))
          /\ roots' = RootsIn(state.locals, Statement)
      BY <2>1, <2>4, CallBegins
    <3>2. DOMAIN Statement.args = 1 .. Len(Statement.args) /\ Len(Statement.args) \in Nat
      BY <2>4, CallFacts
    <3>3. \A k \in DOMAIN Statement.args : ~(k < 1)
      BY <3>2
    <3> QED  BY <1>3, <2>4, <3>1, <3>2, <3>3 DEF Called
  <2>9. Calling'
    <3>1. KeyAt(block, index)' = Key /\ Statement' = Statement
      BY <2>1, <2>4 DEF KeyAt, facts, Statement, Statements
    <3>2. (entries[block][index])' = {state.locals}
      BY <2>1, <2>2
    <3>3. \E before \in LocalsFunctions :
            /\ (entries[block][index])' = {before}
            /\ Called(before, block, KeyAt(block, index), Statement, arg, roots, state, tracker)'
      <4>1. Called(state.locals, block', KeyAt(block, index)', Statement', arg', roots', state', tracker')
        BY <2>1, <2>8, <3>1
      <4> QED  BY <2>4, <3>2, <4>1, <2>1, SameCalled
    <3> QED  BY <3>3 DEF Calling
  <2> QED  BY <2>2, <2>3, <2>5, <2>6, <2>7, <2>9 DEF ChainInv
<1> QED  BY <1>2, <1>3

LEMMA TransferArgumentChain ==
    ASSUME AnalysisInv, WorklistInv, ChainInv, TransferArgument
    PROVE  ChainInv'
<1>1. InStatements /\ arg \in DOMAIN roots /\ UNCHANGED << facts, may, must >>
  BY DEF TransferArgument
<1>2. CASE ~ArgumentAllowed(state, block, Key, Statement, roots, arg, tracker)
  BY <1>2, QuietChain DEF TransferArgument, Reject
<1>3. CASE ArgumentAllowed(state, block, Key, Statement, roots, arg, tracker)
  <2>1. /\ state' = AfterArgument(state, block, Key, Statement, roots, arg)
        /\ tracker' = ArgumentTracked(state, block, Key, Statement, roots, arg, tracker)
        /\ arg' = arg + 1
        /\ UNCHANGED << facts, may, must, phase, ins, outs, work, block, index, roots, edge, entries >>
    BY <1>1, <1>3 DEF TransferArgument
  <2>2. /\ block \in Blocks /\ index \in Nat /\ state \in SoundStates
        /\ Key = KeyAt(block, index) /\ WellFormed(Statement)
    BY <1>1, InStatementsFacts
  <2>3. arg # 0
    BY <1>1 DEF AnalysisInv, CallInProgress
  <2>4. PICK before \in LocalsFunctions :
          /\ entries[block][index] = {before}
          /\ Called(before, block, Key, Statement, arg, roots, state, tracker)
    BY <2>2, <2>3 DEF ChainInv, Calling
  <2>5. /\ roots = RootsIn(before, Statement)
        /\ state.locals = Without(before, LostBefore(before, block, Key, Statement, arg))
        /\ TrackedBefore(before, block, Key, Statement, arg, tracker)
        /\ \A k \in DOMAIN Statement.args : k < arg => ArgumentPassed(before, block, Key, Statement, k)
        /\ \E first \in SoundStates :
             first.locals = before /\ ArgumentsReadable(first, block, Key, Statement)
    BY <2>4 DEF Called
  <2>6. /\ DOMAIN Statement.args = 1 .. Len(Statement.args) /\ Len(Statement.args) \in Nat
        /\ arg \in DOMAIN Statement.args
    BY <1>1, <2>2, <2>5, CallFacts DEF RootsIn
  <2>7. /\ state'.locals = Without(before, LostBefore(before, block, Key, Statement, arg + 1))
        /\ TrackedBefore(before, block, Key, Statement, arg + 1, tracker')
    <3> DEFINE rs == RootsIn(before, Statement)
               st == AfterArgument(state, block, Key, Statement, rs, arg)
               tr == ArgumentTracked(state, block, Key, Statement, rs, arg, tracker)
    <3>1. ArgumentAllowed(state, block, Key, Statement, rs, arg, tracker)
      BY <1>3, <2>5
    <3>2. /\ st.locals = Without(before, LostBefore(before, block, Key, Statement, arg + 1))
          /\ TrackedBefore(before, block, Key, Statement, arg + 1, tr)
      <4>1. /\ WellFormed(Statement) /\ before \in LocalsFunctions /\ state \in SoundStates
            /\ arg \in DOMAIN Statement.args
            /\ state.locals = Without(before, LostBefore(before, block, Key, Statement, arg))
            /\ TrackedBefore(before, block, Key, Statement, arg, tracker)
            /\ ArgumentAllowed(state, block, Key, Statement, RootsIn(before, Statement), arg, tracker)
        BY <2>2, <2>5, <2>6, <3>1
      <4> QED  BY <4>1, ArgumentStep
    <3>3. state' = st /\ tracker' = tr
      BY <2>1, <2>5
    <3> HIDE DEF st, tr
    <3> QED  BY <3>2, <3>3
  <2>8. ArgumentPassed(before, block, Key, Statement, arg)
    BY <1>3, <2>2, <2>5 DEF ArgumentPassed
  <2>9. Called(before, block, Key, Statement, arg + 1, roots, state', tracker')
    <3>1. \A k \in DOMAIN Statement.args : k < arg + 1 => k < arg \/ k = arg
      BY <2>6
    <3>2. arg + 1 \in 1 .. Len(Statement.args) + 1
      BY <2>6
    <3> QED  BY <2>5, <2>7, <2>8, <3>1, <3>2 DEF Called
  <2>10. /\ Blocks' = Blocks
         /\ \A b : Statements(b)' = Statements(b)
         /\ Unvisited' /\ ReadsPassed' /\ EmptyBlocks' /\ Begins'
         /\ layout' = FunctionLayout(prog')
    BY <1>1, <2>1, VisitChain
  <2>11. arg' # 0
    BY <2>1, <2>6
  <2>12. Calling'
    <3>1. KeyAt(block, index)' = Key /\ Statement' = Statement
      BY <2>1, <2>2 DEF KeyAt, facts, Statement, Statements
    <3>2. (entries[block][index])' = {before}
      BY <2>1, <2>4
    <3>3. Called(before, block', KeyAt(block, index)', Statement', arg', roots', state', tracker')
      BY <2>1, <2>9, <3>1
    <3> QED  BY <2>1, <3>2, <3>3, SameCalled DEF Calling
  <2>13. Chained' /\ OnePoint' /\ AllSeen' /\ Arrived'
    <3>1. \A b, i : Linked(b, i)' <=> Linked(b, i)
      BY <2>1, SameLinks
    <3>2. Broken' = Broken
      BY <2>1, <2>3, <2>11 DEF Broken
    <3>3. Chained'
      BY <2>1, <2>10, <3>1, <3>2 DEF ChainInv, Chained
    <3>4. OnePoint'
      BY <2>1, <2>10 DEF ChainInv, OnePoint
    <3>5. AllSeen'
      BY <2>1, <2>3, <2>10 DEF ChainInv, AllSeen
    <3>6. Arrived'
      BY <2>11 DEF Arrived
    <3> QED  BY <3>3, <3>4, <3>5, <3>6
  <2> QED  BY <2>10, <2>12, <2>13 DEF ChainInv
<1> QED  BY <1>2, <1>3

LEMMA TransferResultChain ==
    ASSUME AnalysisInv, WorklistInv, ChainInv, TransferResult
    PROVE  ChainInv'
<1>1. /\ InStatements /\ arg = Len(roots) + 1
      /\ state' = AfterCall(state, Statement, roots)
      /\ index' = index + 1 /\ arg' = 0
      /\ UNCHANGED << facts, may, must, phase, ins, outs, work, block, edge, entries >>
  BY DEF TransferResult
<1>2. /\ block \in Blocks /\ index \in Nat /\ state \in SoundStates
      /\ DOMAIN Statements(block) = 1 .. Len(Statements(block))
      /\ Len(Statements(block)) \in Nat
      /\ Key = KeyAt(block, index) /\ WellFormed(Statement)
  BY <1>1, InStatementsFacts
<1>3. arg # 0
  BY <1>1 DEF AnalysisInv, CallInProgress
<1>4. Statement.kind = "call"
  BY <1>3 DEF AnalysisInv, CallInProgress
<1>5. PICK before \in LocalsFunctions :
        /\ entries[block][index] = {before}
        /\ Called(before, block, Key, Statement, arg, roots, state, tracker)
  BY <1>2, <1>3 DEF ChainInv, Calling
<1>6. /\ roots = RootsIn(before, Statement)
      /\ state.locals = Without(before, LostBefore(before, block, Key, Statement, arg))
      /\ \A k \in DOMAIN Statement.args : k < arg => ArgumentPassed(before, block, Key, Statement, k)
      /\ \E first \in SoundStates :
           first.locals = before /\ ArgumentsReadable(first, block, Key, Statement)
  BY <1>5 DEF Called
<1>7. /\ DOMAIN Statement.args = 1 .. Len(Statement.args) /\ Len(Statement.args) \in Nat
      /\ \A k \in Statement.ret : RootsIn(before, Statement)[k] = RootsOf(before, Statement.args[k].local)
      /\ Len(RootsIn(before, Statement)) = Len(Statement.args)
  <2>1. /\ DOMAIN Statement.args = 1 .. Len(Statement.args) /\ Len(Statement.args) \in Nat
        /\ Statement.ret \subseteq DOMAIN Statement.args
    BY <1>2, CallFacts
  <2>2. DOMAIN RootsIn(before, Statement) = 1 .. Len(Statement.args)
    BY <2>1 DEF RootsIn
  <2> QED  BY <2>1, <2>2, LenIsDomain DEF RootsIn
<1>8. arg = Len(Statement.args) + 1
  BY <1>1, <1>6, <1>7
<1>9. state'.locals = CallMakes(before, block, Key, Statement)
  <2>1. UNION {roots[i] : i \in Statement.ret}
          = UNION {RootsOf(before, Statement.args[k].local) : k \in Statement.ret}
    BY <1>6, <1>7
  <2>2. CASE Statement.to = None
    BY <1>1, <1>6, <1>8, <2>2 DEF AfterCall, CallMakes
  <2>3. CASE Statement.to # None
    <3>1. state' = UpdateLocal(state, Statement.to, ResultOf(before, Statement))
      BY <1>1, <2>1, <2>3 DEF AfterCall, ResultOf
    <3>2. state'.locals = [state.locals EXCEPT ![Statement.to] = ResultOf(before, Statement)]
      BY <3>1 DEF UpdateLocal
    <3> QED  BY <1>6, <1>8, <2>3, <3>2 DEF CallMakes
  <2> QED  BY <2>2, <2>3
<1>10. StatementPassed(block, Key, Statement, before, state'.locals)
  <2>1. \A k \in DOMAIN Statement.args : k < arg
    BY <1>7, <1>8
  <2> QED  BY <1>4, <1>6, <1>9, <2>1 DEF StatementPassed
<1>11. Arrived'
  <2>1. StatementPassed(block, KeyAt(block, index), Statements(block)[index], before, state'.locals)
    BY <1>2, <1>10 DEF Statement
  <2> QED  BY <1>1, <1>2, <1>5, <2>1, ArriveChain
<1>12. /\ Blocks' = Blocks
       /\ \A b : Statements(b)' = Statements(b)
       /\ Unvisited' /\ ReadsPassed' /\ EmptyBlocks' /\ Begins'
       /\ layout' = FunctionLayout(prog')
  BY <1>1, VisitChain
<1>13. Chained' /\ OnePoint' /\ AllSeen' /\ Calling'
  <2>1. \A b, i : Linked(b, i)' <=> Linked(b, i)
    BY <1>1, SameLinks
  <2>2. Broken' = Broken
    BY <1>1, <1>2, <1>3 DEF Broken
  <2>3. Chained'
    BY <1>1, <1>12, <2>1, <2>2 DEF ChainInv, Chained
  <2>4. OnePoint'
    BY <1>1, <1>12 DEF ChainInv, OnePoint
  <2>5. AllSeen'
    <3>1. \A i \in DOMAIN Statements(block) : i < index + 1 => i < index \/ i = index
      BY <1>2
    <3> QED  BY <1>1, <1>3, <1>12, <3>1 DEF ChainInv, AllSeen
  <2>6. Calling'
    BY <1>1 DEF Calling
  <2> QED  BY <2>3, <2>4, <2>5, <2>6
<1> QED  BY <1>11, <1>12, <1>13 DEF ChainInv

LEMMA AtTerminatorFacts ==
    ASSUME AnalysisInv, WorklistInv, AtTerminator
    PROVE  /\ prog \in Programs /\ block \in Blocks /\ block # 0
           /\ DOMAIN Statements(block) = 1 .. Len(Statements(block))
           /\ Len(Statements(block)) \in Nat
           /\ index = Len(Statements(block)) + 1 /\ index \in Nat /\ arg = 0
           /\ state \in SoundStates /\ phase = "flow"
           /\ Key = KeyAt(block, Len(Statements(block)) + 1)
<1>1. /\ prog \in Programs /\ block \in Blocks /\ block # 0
      /\ index = Len(Statements(block)) + 1 /\ state \in SoundStates /\ phase = "flow"
  BY DEF AnalysisInv, AtTerminator
<1>2. Statements(block) \in Seq(StatementSet)
  BY <1>1, ProgramFacts
<1>3. index \notin DOMAIN Statements(block)
  BY <1>1, <1>2
<1>4. arg = 0
  BY <1>3 DEF AnalysisInv, CallInProgress
<1> QED  BY <1>1, <1>2, <1>4 DEF Key, KeyAt

\* The end of a visit closes the chain with the state on exit.
LEMMA LeaveChain ==
    ASSUME AnalysisInv, WorklistInv, ChainInv, AtTerminator, LeaveBlock,
           UNCHANGED << facts, may, must, phase, ins, work, entries >>,
           outs' = [outs EXCEPT ![block] = {state}],
           TerminatorPassed(block, state)
    PROVE  ChainInv'
<1> DEFINE n == Len(Statements(block))
<1>1. /\ block \in Blocks /\ block # 0 /\ prog \in Programs
      /\ DOMAIN Statements(block) = 1 .. n /\ n \in Nat
      /\ index = n + 1 /\ arg = 0 /\ phase = "flow"
  BY AtTerminatorFacts
<1>2. block' = 0 /\ edge' = 0 /\ arg' = 0 /\ index' = 0
  BY <1>1 DEF LeaveBlock
<1>3. /\ outs'[block] = {state}
      /\ \A b \in Blocks \ {block} : outs'[b] = outs[b]
  BY <1>1 DEF WorklistInv
<1>4. /\ Blocks' = Blocks
      /\ \A b : Statements(b)' = Statements(b)
      /\ \A b, i : entries'[b][i] = entries[b][i] /\ LocalsAt(b, i + 1)' = LocalsAt(b, i + 1)
                          => (Linked(b, i)' <=> Linked(b, i))
      /\ \A b, i : entries'[b] = entries[b] /\ outs'[b] = outs[b]
                          => LocalsAt(b, i)' = LocalsAt(b, i)
      /\ \A b, st : TerminatorPassed(b, st)' <=> TerminatorPassed(b, st)
  BY SameLinks
<1>5. OnePoint' /\ Unvisited'
  <2>1. \A b \in Blocks : \A p, q \in outs'[b] : p = q
    BY <1>3 DEF ChainInv, OnePoint
  <2> QED  BY <1>1, <1>4, <2>1 DEF ChainInv, OnePoint, Unvisited
<1>6. ASSUME NEW b \in Blocks, NEW i \in DOMAIN Statements(b) PROVE Linked(b, i)'
  <2>1. Linked(b, i) \/ (b = block /\ i = index - 1)
    BY <1>1 DEF ChainInv, Chained, Broken
  <2>2. CASE b # block
    BY <1>3, <1>4, <2>1, <2>2
  <2>3. CASE b = block /\ i # n
    <3>1. i + 1 \in DOMAIN Statements(b) /\ i # index - 1
      BY <1>1, <2>3
    <3>2. LocalsAt(b, i + 1)' = LocalsAt(b, i + 1)
      BY <1>4, <3>1 DEF LocalsAt
    <3> QED  BY <1>4, <2>1, <3>1, <3>2
  <2>4. CASE b = block /\ i = n
    <3>1. index > 1 /\ index - 1 = i /\ i + 1 \notin DOMAIN Statements(b)
      BY <1>1, <2>4
    <3>2. \A before \in entries[b][i] :
             StatementPassed(b, KeyAt(b, i), Statements(b)[i], before, state.locals)
      BY <1>1, <2>4, <3>1 DEF ChainInv, Arrived
    <3>3. LocalsAt(b, i + 1)' = {state.locals}
      BY <1>3, <1>4, <2>4, <3>1 DEF LocalsAt
    <3>4. \A before, after :
             StatementPassed(b, KeyAt(b, i), Statements(b)[i], before, after)'
               <=> StatementPassed(b, KeyAt(b, i), Statements(b)[i], before, after)
      <4>1. KeyAt(b, i)' = KeyAt(b, i) /\ Statements(b)'[i] = Statements(b)[i]
        BY <1>4, SamePassed
      <4> QED  BY <4>1, SamePassed
    <3>5. Linked(b, i)' <=> \A before \in entries'[b][i], after \in LocalsAt(b, i + 1)' :
             StatementPassed(b, KeyAt(b, i), Statements(b)[i], before, after)'
      BY DEF Linked
    <3> QED  BY <3>2, <3>3, <3>4, <3>5
  <2> QED  BY <2>2, <2>3, <2>4
<1>7. Chained'
  BY <1>4, <1>6 DEF Chained
<1>8. AllSeen'
  <2>1. \A i \in DOMAIN Statements(block) : i < index
    BY <1>1
  <2>2. \A i \in DOMAIN Statements(block) : entries[block][i] # {}
    BY <1>1, <2>1 DEF ChainInv, AllSeen
  <2> QED  BY <1>2, <1>3, <1>4, <2>2 DEF ChainInv, AllSeen
<1>9. Arrived' /\ Calling'
  BY <1>2 DEF Arrived, Calling
<1>10. ReadsPassed'
  <2>1. \A b \in Blocks : \A out \in outs'[b] : TerminatorPassed(b, out)
    BY <1>3 DEF ChainInv, ReadsPassed
  <2> QED  BY <1>2, <1>4, <2>1 DEF ReadsPassed
<1>11. EmptyBlocks'
  <2>1. ASSUME NEW b \in Blocks, Statements(b) = << >>
        PROVE  Pending(b) \/ outs'[b] = ins[b]
    <3>1. CASE b # block
      BY <1>3, <2>1, <3>1 DEF ChainInv, EmptyBlocks
    <3>2. CASE b = block
      <4>1. index = 1
        BY <1>1, <2>1, <3>2
      <4>2. Pending(block) \/ ins[block] = {state}
        BY <1>1, <4>1 DEF WorklistInv, Progress, Current
      <4> QED  BY <1>3, <3>2, <4>2
    <3> QED  BY <3>1, <3>2
  <2> QED  BY <1>4, <2>1 DEF EmptyBlocks, Pending
<1>12. Begins' /\ layout' = FunctionLayout(prog')
  BY DEF ChainInv, Begins, Visible, facts
<1> QED  BY <1>5, <1>7, <1>8, <1>9, <1>10, <1>11, <1>12 DEF ChainInv

LEMMA FinishBlockChain ==
    ASSUME AnalysisInv, WorklistInv, ChainInv, FinishBlock
    PROVE  ChainInv'
<1>1. /\ AtTerminator /\ edge = Len(prog.succ[block]) + 1 /\ LeaveBlock
      /\ outs' = [outs EXCEPT ![block] = {state}]
      /\ UNCHANGED << facts, may, must, phase, ins, work, entries >>
  BY DEF FinishBlock
<1>2. prog.succ[block] \in Seq(Blocks)
  BY <1>1, AtTerminatorFacts, ProgramFacts
<1>3. edge # 0
  BY <1>1, <1>2
<1>4. TerminatorPassed(block, state)
  BY <1>3 DEF ChainInv, ReadsPassed
<1> QED  BY <1>1, <1>4, LeaveChain

LEMMA TransferTerminatorChain ==
    ASSUME AnalysisInv, WorklistInv, ChainInv, TransferTerminator
    PROVE  ChainInv'
<1>1. CASE ~\A l \in prog.reads[block] : Readable(state, block, Key, l)
  BY <1>1, QuietChain DEF TransferTerminator, Reject
<1>2. CASE \A l \in prog.reads[block] : Readable(state, block, Key, l)
  <2>1. /\ AtTerminator /\ edge = 0
        /\ UNCHANGED << facts, may, must, phase, ins, outs, work, entries >>
    BY <1>2 DEF TransferTerminator
  <2>2. /\ block \in Blocks /\ block # 0 /\ phase = "flow"
        /\ Key = KeyAt(block, Len(Statements(block)) + 1)
    BY <2>1, AtTerminatorFacts
  <2>3. TerminatorPassed(block, state)
    BY <1>2, <2>2 DEF TerminatorPassed
  <2>4. CASE outs[block] = {state} /\ LeaveBlock
    <3>1. outs' = [outs EXCEPT ![block] = {state}]
      BY <2>1, <2>2, <2>4 DEF WorklistInv
    <3> QED  BY <2>1, <2>3, <2>4, <3>1, LeaveChain
  <2>5. CASE edge' = 1 /\ UNCHANGED << block, state, index, arg, roots, tracker >>
    <3>1. /\ Blocks' = Blocks
          /\ \A b : Statements(b)' = Statements(b)
          /\ \A b, i : LocalsAt(b, i)' = LocalsAt(b, i)
          /\ \A b, i : Linked(b, i)' <=> Linked(b, i)
          /\ \A b, st : TerminatorPassed(b, st)' <=> TerminatorPassed(b, st)
      BY <2>1, SameLinks
    <3>2. OnePoint' /\ Unvisited'
      BY <2>1, <2>2, <3>1 DEF ChainInv, OnePoint, Unvisited
    <3>3. Chained' /\ AllSeen'
      BY <2>1, <2>5, <3>1 DEF ChainInv, Chained, AllSeen, Broken
    <3>4. Arrived'
      BY <2>1, <2>5, <3>1, SamePassed DEF ChainInv, Arrived
    <3>5. Calling'
      BY <2>1, <2>5, AtTerminatorFacts DEF Calling
    <3>6. ReadsPassed'
      BY <2>1, <2>3, <2>5, <3>1 DEF ChainInv, ReadsPassed
    <3>7. EmptyBlocks' /\ Begins' /\ layout' = FunctionLayout(prog')
      BY <2>1, <2>5, <3>1 DEF ChainInv, EmptyBlocks, Begins, Pending, Visible, facts
    <3> QED  BY <3>2, <3>3, <3>4, <3>5, <3>6, <3>7 DEF ChainInv
  <2> QED
    BY <1>2, <2>4, <2>5 DEF TransferTerminator
<1> QED  BY <1>1, <1>2

LEMMA PropagateEdgeChain ==
    ASSUME AnalysisInv, WorklistInv, ChainInv, PropagateEdge
    PROVE  ChainInv'
<1> DEFINE next     == prog.succ[block][edge]
           incoming == KillInvisible(state, Visible(next))
           joined   == {Join(in, incoming) : in \in ins[next]}
           new      == IF ins[next] = {} THEN {incoming} ELSE joined
<1>1. /\ AtTerminator /\ edge \in DOMAIN prog.succ[block]
      /\ UNCHANGED << facts, may, must >>
  BY DEF PropagateEdge
<1>2. /\ block \in Blocks /\ block # 0 /\ prog \in Programs /\ phase = "flow" /\ arg = 0
      /\ work \in Seq(Blocks) /\ ins \in [Blocks -> SUBSET SoundStates]
  BY <1>1, AtTerminatorFacts DEF AnalysisInv
<1>3. /\ prog.succ[block] \in Seq(Blocks) /\ edge \in Nat /\ edge # 0 /\ next \in Blocks
  <2>1. prog.succ[block] \in Seq(Blocks)
    BY <1>2, ProgramFacts
  <2> QED  BY <1>1, <2>1
<1>4. CASE \E in \in ins[next] : InconsistentMove(in, incoming)
  BY <1>4, QuietChain DEF PropagateEdge, Reject
<1>5. CASE ~\E in \in ins[next] : InconsistentMove(in, incoming)
  <2>1. /\ ins' = [ins EXCEPT ![next] = new]
        /\ work' = IF new = ins[next] THEN work ELSE Append(work, next)
        /\ edge' = edge + 1
        /\ UNCHANGED << facts, may, must, phase, outs, block, state, index, arg, roots, tracker,
                        entries >>
    BY <1>1, <1>5 DEF PropagateEdge
  <2> HIDE DEF next, incoming, joined
  <2>2. /\ Blocks' = Blocks
        /\ \A b : Statements(b)' = Statements(b)
        /\ \A b, i : LocalsAt(b, i)' = LocalsAt(b, i)
        /\ \A b, i : Linked(b, i)' <=> Linked(b, i)
        /\ \A b, st : TerminatorPassed(b, st)' <=> TerminatorPassed(b, st)
    BY <2>1, SameLinks
  <2>3. OnePoint' /\ Unvisited'
    BY <1>2, <2>1, <2>2 DEF ChainInv, OnePoint, Unvisited
  <2>4. Chained' /\ AllSeen'
    BY <2>1, <2>2 DEF ChainInv, Chained, AllSeen, Broken
  <2>5. Arrived'
    BY <2>1, <2>2, SamePassed DEF ChainInv, Arrived
  <2>6. Calling'
    BY <1>2, <2>1 DEF Calling
  <2>7. ReadsPassed'
    BY <1>3, <2>1, <2>2 DEF ChainInv, ReadsPassed
  <2>8. EmptyBlocks'
    <3>1. ASSUME NEW b \in Blocks, Statements(b) = << >>, b # block
          PROVE  Pending(b)' \/ outs[b] = ins'[b]
      <4>1. Pending(b) \/ outs[b] = ins[b]
        BY <3>1 DEF ChainInv, EmptyBlocks
      <4>2. Pending(b) => Pending(b)'
        <5> HIDE DEF new
        <5>1. CASE work' = work
          BY <5>1 DEF Pending
        <5>2. CASE work' = Append(work, next)
          BY <1>2, <1>3, <5>2, PendingAppend DEF Pending
        <5> QED  BY <2>1, <5>1, <5>2
      <4>3. CASE b # next
        BY <1>2, <2>1, <4>1, <4>2, <4>3
      <4>4. CASE b = next /\ new = ins[next]
        BY <1>2, <1>3, <2>1, <4>1, <4>2, <4>4
      <4>5. CASE b = next /\ new # ins[next]
        <5>1. work' = Append(work, next)
          BY <2>1, <4>5
        <5> QED  BY <1>2, <1>3, <4>5, <5>1, PendingAppend DEF Pending
      <4> QED  BY <4>3, <4>4, <4>5
    <3> QED  BY <2>1, <2>2, <3>1 DEF EmptyBlocks
  <2>9. Begins'
    <3>1. ASSUME NEW in \in ins'[1], NEW l \in Locals
          PROVE  IF l \in Params \cap Visible(1) THEN Slotted(in.locals, l)
                 ELSE DefinitelyUninit(in.locals[l])
      <4>1. CASE 1 # next
        <5>1. in \in ins[1]
          BY <1>2, <2>1, <3>1, <4>1, ProgramFacts
        <5> QED  BY <5>1 DEF ChainInv, Begins
      <4>2. CASE 1 = next
        <5>1. ins[next] # {} /\ in \in new
          BY <1>2, <1>3, <2>1, <3>1, <4>2 DEF WorklistInv, OneEntry
        <5>2. PICK old \in ins[next] : in = Join(old, incoming)
          BY <5>1 DEF joined
        <5>3. IF l \in Params \cap Visible(1) THEN Slotted(old.locals, l)
              ELSE DefinitelyUninit(old.locals[l])
          BY <4>2, <5>2 DEF ChainInv, Begins
        <5>4. DefinitelyUninit(old.locals[l]) = DefinitelyUninit(incoming.locals[l])
          BY <1>5, <5>2, Zenon DEF InconsistentMove
        <5>5. in.locals[l].mode = old.locals[l].mode \cup incoming.locals[l].mode
          BY <5>2 DEF Join, Recounted
        <5> QED  BY <5>3, <5>4, <5>5 DEF Slotted, DefinitelyUninit
      <4> QED  BY <4>1, <4>2
    <3> QED  BY <2>1, <3>1 DEF Begins, Visible, facts
  <2>10. layout' = FunctionLayout(prog')
    BY <2>1 DEF ChainInv, facts
  <2> QED
    BY <2>3, <2>4, <2>5, <2>6, <2>7, <2>8, <2>9, <2>10 DEF ChainInv
<1> QED  BY <1>4, <1>5

LEMMA ChainStep ==
    AnalysisInv /\ WorklistInv /\ ChainInv /\ [Next]_checkVars => ChainInv'
<1> SUFFICES ASSUME AnalysisInv, WorklistInv, ChainInv, [Next]_checkVars PROVE ChainInv'
  OBVIOUS
<1>1. CASE ComputeMayUse
  BY <1>1, PrepareChain DEF ComputeMayUse
<1>2. CASE ComputeMustUse
  BY <1>2, PrepareChain DEF ComputeMustUse
<1>3. CASE Accept
  BY <1>3, QuietChain DEF Accept
<1>4. CASE UNCHANGED checkVars
  <2>1. UNCHANGED << facts, may, must, phase, ins, outs, work, visit, entries >>
    BY <1>4 DEF checkVars, facts
  <2> QED  BY <2>1, QuietChain
<1> QED
  BY <1>1, <1>2, <1>3, <1>4, TakeBlockChain, TransferStatementChain, ReadArgumentsChain,
     TransferArgumentChain, TransferResultChain, TransferTerminatorChain, PropagateEdgeChain,
     FinishBlockChain DEF Next

\* In every function the locals that were recorded before a statement, and the
\* checks they passed there, follow from those of the statement before: what an
\* accepted block was checked with is one pass over its statements.
THEOREM RecordedStatesAreChained == Spec => []ChainInv
<1>1. Init => AnalysisInv /\ WorklistInv /\ ChainInv
  BY InitialInv, InitialWorklist, InitialChain
<1>2. AnalysisInv /\ WorklistInv /\ ChainInv /\ [Next]_checkVars
        => (AnalysisInv /\ WorklistInv /\ ChainInv)'
  BY StepInv, WorklistStep, ChainStep
<1> QED  BY <1>1, <1>2, PTL DEF Spec

-----------------------------------------------------------------------------
(* What the run may still use *)

\* The locals that the run may use from the i-th point of a block.
NeededAt(b, i) == {l \in Locals : FutureUse(b, l, KeyAt(b, i) - 1) # "none"}

LEMMA FutureUseMeans ==
    ASSUME NEW b, NEW l, NEW key
    PROVE  FutureUse(b, l, key) # "none"
             <=> layout.most[b][l] > key \/ \E next \in Successors(b) : l \in may[next]
BY DEF FutureUse, Successors

\* What the checker knows of the future uses when it accepts.
UsesKnown ==
    /\ prog \in Programs
    /\ layout = FunctionLayout(prog)
    /\ may \in [Blocks -> SUBSET Locals]
    /\ \A b \in Blocks : may[b] = UsedOnSomePath(b)

LEMMA UsedIsNeeded ==
    ASSUME UsesKnown, NEW b \in Blocks, NEW i \in Positions(prog, b),
           NEW l \in UsedAt(prog, b, i), l \in Locals
    PROVE  /\ l \in NeededAt(b, i)
           /\ layout.last[l] > 0 /\ ~Expired(l, KeyAt(b, i))
<1>1. /\ layout.start[b] \in Nat /\ layout.most[b][l] \in Nat /\ layout.last[l] \in Nat
      /\ layout.most[b][l] <= layout.last[l]
      /\ KeyAt(b, i) <= layout.most[b][l]
  BY LayoutWorks DEF UsesKnown
<1>2. i \in Nat /\ i > 0
  <2>1. Len(prog.stmts[b]) \in Nat
    BY ProgramFacts DEF UsesKnown, Statements
  <2> QED  BY <2>1 DEF Positions
<1>3. layout.most[b][l] > KeyAt(b, i) - 1
  BY <1>1, <1>2 DEF KeyAt
<1>4. l \in NeededAt(b, i)
  BY <1>3, FutureUseMeans DEF NeededAt
<1> QED  BY <1>1, <1>2, <1>4 DEF Expired, KeyAt

LEMMA NeededBefore ==
    ASSUME UsesKnown, NEW b \in Blocks, NEW i \in Nat
    PROVE  /\ NeededAt(b, i + 1) \subseteq NeededAt(b, i)
           /\ NeededAt(b, i + 1) = {l \in Locals : FutureUse(b, l, KeyAt(b, i)) # "none"}
<1>1. /\ layout.start[b] \in Nat
      /\ \A l \in Locals : layout.most[b][l] \in Nat
  BY LayoutWorks DEF UsesKnown
<1>2. KeyAt(b, i + 1) - 1 = KeyAt(b, i) /\ KeyAt(b, i) \in Nat
  BY <1>1 DEF KeyAt
<1>3. \A l \in Locals : layout.most[b][l] > KeyAt(b, i) => layout.most[b][l] > KeyAt(b, i) - 1
  BY <1>1, <1>2
<1> QED  BY <1>2, <1>3, FutureUseMeans DEF NeededAt

LEMMA NeededIsUsed ==
    ASSUME UsesKnown, NEW b \in Blocks, NEW i \in Nat, NEW l \in NeededAt(b, i), i > 0
    PROVE  l \in Locals /\ layout.last[l] > 0
<1>1. l \in Locals
  BY DEF NeededAt
<1>2. \A d \in Blocks : layout.start[d] \in Nat /\ layout.most[d][l] \in Nat
                          /\ layout.most[d][l] <= layout.last[l]
  BY <1>1, LayoutWorks DEF UsesKnown
<1>3. layout.last[l] \in Nat
  BY <1>1, LayoutWorks DEF UsesKnown
<1>4. layout.most[b][l] > KeyAt(b, i) - 1 \/ \E next \in Successors(b) : l \in may[next]
  BY FutureUseMeans DEF NeededAt
<1>5. CASE layout.most[b][l] > KeyAt(b, i) - 1
  <2> DEFINE m == layout.most[b][l]
             start == layout.start[b]
             last == layout.last[l]
  <2>1. m \in Nat /\ start \in Nat /\ last \in Nat /\ m <= last
    BY <1>2, <1>3
  <2>2. m > start + i - 1
    BY <1>5, <2>1 DEF KeyAt
  <2> HIDE DEF m, start, last
  <2>3. last > 0
    BY <2>1, <2>2
  <2> QED  BY <1>1, <2>3 DEF last
<1>6. ASSUME NEW next \in Successors(b), l \in may[next]
      PROVE  layout.last[l] > 0
  <2>1. next \in Blocks
    BY BlockFacts DEF UsesKnown
  <2>2. ~ReachedThrough(next, Blocks) \subseteq Unused(l)
    BY <1>6, <2>1 DEF UsesKnown, UsedOnSomePath
  <2>3. PICK d \in Blocks : l \in UsesOf(d)
    <3>1. ReachedThrough(next, Blocks) \subseteq Blocks
      BY <2>1, ReachedWorks DEF UsesKnown
    <3> QED  BY <2>2, <3>1 DEF Unused
  <2> QED  BY <1>2, <1>3, <2>3 DEF UsesOf
<1> QED  BY <1>1, <1>4, <1>5, <1>6

LEMMA NeededAcross ==
    ASSUME UsesKnown, NEW b \in Blocks, NEW next \in Successors(b), NEW i
    PROVE  NeededAt(next, 1) \subseteq NeededAt(b, i)
<1>1. next \in Blocks
  BY BlockFacts DEF UsesKnown
<1>2. ASSUME NEW l \in NeededAt(next, 1) PROVE l \in may[next]
  <2>1. l \in Locals
    BY DEF NeededAt
  <2>2. layout.start[next] \in Nat /\ layout.most[next][l] \in Nat
    BY <1>1, <2>1, LayoutWorks DEF UsesKnown
  <2>3. layout.most[next][l] > KeyAt(next, 1) - 1 \/ \E s \in Successors(next) : l \in may[s]
    BY FutureUseMeans DEF NeededAt
  <2>4. CASE layout.most[next][l] > KeyAt(next, 1) - 1
    <3>1. l \in UsesOf(next)
      BY <2>1, <2>2, <2>4 DEF KeyAt, UsesOf
    <3> QED  BY <1>1, <3>1, SomePath DEF UsesKnown
  <2>5. ASSUME NEW s \in Successors(next), l \in may[s] PROVE l \in may[next]
    <3>1. s \in Blocks
      BY <1>1, BlockFacts DEF UsesKnown
    <3> QED  BY <1>1, <2>5, <3>1, SomePath DEF UsesKnown
  <2> QED  BY <2>3, <2>4, <2>5
<1>3. \A l \in NeededAt(next, 1) : l \in Locals /\ FutureUse(b, l, KeyAt(b, i) - 1) # "none"
  BY <1>2, FutureUseMeans DEF NeededAt
<1> QED  BY <1>3 DEF NeededAt

-----------------------------------------------------------------------------
(* What the checker leaves of an accepted function *)

Accepted ==
    /\ phase = "accepted"
    /\ AnalysisInv /\ WorklistInv /\ ChainInv /\ FutureUseInv

\* The locals that the checker saw at a point.
Here(b, i) == CHOOSE locals \in LocalsAt(b, i) : TRUE

LEMMA AcceptedUses ==
    ASSUME Accepted
    PROVE  UsesKnown
<1>1. /\ prog \in Programs /\ layout = FunctionLayout(prog)
      /\ may \in [Blocks -> SUBSET Locals]
      /\ \A b \in Blocks : may[b] \subseteq UsedOnSomePath(b)
      /\ \A b \in Blocks : UsedOnSomePath(b) \subseteq may[b]
  BY DEF Accepted, FutureUseInv, ChainInv
<1> QED  BY <1>1 DEF UsesKnown

LEMMA AcceptedBlocks ==
    ASSUME Accepted, NEW b \in Blocks, ins[b] # {}
    PROVE  /\ outs[b] # {} /\ CheckedWithEntry(b)
           /\ \A i \in DOMAIN Statements(b) : entries[b][i] # {} /\ Linked(b, i)
           /\ Statements(b) = << >> => outs[b] = ins[b]
<1>1. block = 0 /\ work = << >>
  BY DEF Accepted, WorklistInv, EmptyAtTheEnd
<1>2. ~Pending(b) /\ b # block
  BY <1>1, ProgramFacts DEF Pending, Accepted, AnalysisInv
<1>3. outs[b] # {} /\ CheckedWithEntry(b)
  BY <1>2 DEF Accepted, WorklistInv, NothingLost, Visited
<1>4. \A i \in DOMAIN Statements(b) : entries[b][i] # {}
  BY <1>3 DEF Accepted, ChainInv, AllSeen
<1>5. \A i \in DOMAIN Statements(b) : Linked(b, i)
  BY <1>2 DEF Accepted, ChainInv, Chained
<1>6. Statements(b) = << >> => outs[b] = ins[b]
  BY <1>2 DEF Accepted, ChainInv, EmptyBlocks
<1> QED  BY <1>3, <1>4, <1>5, <1>6

LEMMA PositionFacts ==
    ASSUME prog \in Programs, NEW b \in Blocks
    PROVE  /\ Len(Statements(b)) \in Nat
           /\ DOMAIN Statements(b) = 1 .. Len(Statements(b))
           /\ Positions(prog, b) = 1 .. Len(Statements(b)) + 1
           /\ \A i \in DOMAIN Statements(b) : i \in Positions(prog, b) /\ i + 1 \in Positions(prog, b)
           /\ 1 \in Positions(prog, b) /\ Len(Statements(b)) + 1 \in Positions(prog, b)
<1>1. Len(Statements(b)) \in Nat /\ DOMAIN Statements(b) = 1 .. Len(Statements(b))
  BY ProgramFacts
<1>2. Positions(prog, b) = 1 .. Len(Statements(b)) + 1
  BY DEF Positions, Statements
<1> QED  BY <1>1, <1>2

LEMMA ExitWorks ==
    ASSUME Accepted, NEW b \in Blocks, ins[b] # {}
    PROVE  \E out \in SoundStates :
             /\ outs[b] = {out}
             /\ LocalsAt(b, Len(Statements(b)) + 1) = {out.locals}
             /\ TerminatorPassed(b, out)
<1>1. outs[b] # {} /\ outs[b] \subseteq SoundStates
  BY AcceptedBlocks DEF Accepted, WorklistInv
<1>2. PICK out : out \in outs[b]
  BY <1>1
<1>3. outs[b] = {out}
  BY <1>2 DEF Accepted, ChainInv, OnePoint
<1>4. TerminatorPassed(b, out)
  BY <1>2 DEF Accepted, ChainInv, ReadsPassed
<1>5. ~(Len(Statements(b)) + 1 \in DOMAIN Statements(b))
  <2>1. prog \in Programs
    BY DEF Accepted, AnalysisInv
  <2> QED  BY <2>1, PositionFacts
<1>6. LocalsAt(b, Len(Statements(b)) + 1) = {out.locals}
  BY <1>3, <1>5 DEF LocalsAt
<1> QED  BY <1>1, <1>2, <1>3, <1>4, <1>6

LEMMA PointWorks ==
    ASSUME Accepted, NEW b \in Blocks, ins[b] # {}, NEW i \in Positions(prog, b)
    PROVE  /\ Here(b, i) \in LocalsFunctions
           /\ LocalsAt(b, i) = {Here(b, i)}
<1>1. prog \in Programs
  BY DEF Accepted, AnalysisInv
<1>2. PICK locals \in LocalsFunctions : LocalsAt(b, i) = {locals}
  <2>1. CASE i \in DOMAIN Statements(b)
    <3>1. /\ entries[b][i] \subseteq LocalsFunctions
          /\ \A p, q \in entries[b][i] : p = q
      BY <2>1 DEF Accepted, ChainInv, OnePoint
    <3>2. entries[b][i] # {} /\ LocalsAt(b, i) = entries[b][i]
      BY <2>1, AcceptedBlocks DEF LocalsAt
    <3> QED  BY <3>1, <3>2
  <2>2. CASE i \notin DOMAIN Statements(b)
    <3>1. i = Len(Statements(b)) + 1
      BY <1>1, <2>2, PositionFacts
    <3>2. PICK out \in SoundStates : LocalsAt(b, i) = {out.locals}
      BY <3>1, ExitWorks
    <3> QED  BY <3>2, SoundParts DEF LocalsFunctions
  <2> QED  BY <2>1, <2>2
<1> QED  BY <1>2 DEF Here

LEMMA StatementWorks ==
    ASSUME Accepted, NEW b \in Blocks, ins[b] # {}, NEW i \in DOMAIN Statements(b)
    PROVE  /\ WellFormed(Statements(b)[i])
           /\ Here(b, i) = CHOOSE locals \in entries[b][i] : TRUE
           /\ StatementPassed(b, KeyAt(b, i), Statements(b)[i], Here(b, i), Here(b, i + 1))
<1>1. prog \in Programs
  BY DEF Accepted, AnalysisInv
<1>2. i \in Positions(prog, b) /\ i + 1 \in Positions(prog, b)
  BY <1>1, PositionFacts
<1>3. /\ LocalsAt(b, i) = {Here(b, i)} /\ LocalsAt(b, i + 1) = {Here(b, i + 1)}
      /\ LocalsAt(b, i) = entries[b][i]
  BY <1>2, PointWorks DEF LocalsAt
<1>4. Linked(b, i)
  BY AcceptedBlocks
<1>5. Here(b, i) = CHOOSE locals \in entries[b][i] : TRUE
  BY <1>3 DEF Here
<1>6. WellFormed(Statements(b)[i])
  BY <1>1, ProgramFacts
<1>7. Here(b, i) \in entries[b][i] /\ Here(b, i + 1) \in LocalsAt(b, i + 1)
  BY <1>3
<1> QED  BY <1>4, <1>5, <1>6, <1>7 DEF Linked

LEMMA EntryWorks ==
    ASSUME Accepted, NEW b \in Blocks, ins[b] # {}
    PROVE  \E in \in SoundStates : ins[b] = {in} /\ Here(b, 1) = in.locals
<1>1. prog \in Programs /\ ins[b] \subseteq SoundStates
  BY DEF Accepted, AnalysisInv
<1>2. PICK in \in SoundStates : ins[b] = {in}
  BY <1>1 DEF Accepted, WorklistInv, OneEntry
<1>3. 1 \in Positions(prog, b)
  BY <1>1, PositionFacts
<1>4. LocalsAt(b, 1) = {Here(b, 1)}
  BY <1>3, PointWorks
<1>5. LocalsAt(b, 1) = {in.locals}
  <2>1. CASE Statements(b) = << >>
    <3>1. outs[b] = {in}
      BY <1>2, <2>1, AcceptedBlocks
    <3> QED  BY <2>1, <3>1 DEF LocalsAt
  <2>2. CASE Statements(b) # << >>
    <3>1. entries[b][1] = {in.locals}
      BY <1>2, <2>2, AcceptedBlocks DEF CheckedWithEntry
    <3>2. 1 \in DOMAIN Statements(b)
      <4>1. Statements(b) \in Seq(StatementSet)
        BY <1>1, ProgramFacts
      <4> QED  BY <2>2, <4>1
    <3> QED  BY <3>1, <3>2 DEF LocalsAt
  <2> QED  BY <2>1, <2>2
<1> QED  BY <1>2, <1>4, <1>5

\* Leaving a region takes its locals, and is no different from losing them.
LEMMA KilledIsWithout ==
    ASSUME NEW s \in SoundStates, NEW visible \in SUBSET Locals
    PROVE  KilledLocals(s, visible) = Without(s.locals, Locals \ visible)
<1> DEFINE lost == Locals \ visible
<1>1. ASSUME NEW l \in Locals PROVE KilledLocals(s, visible)[l] = Without(s.locals, lost)[l]
  <2>1. s.locals[l] \in SettledLocals
    BY SoundParts
  <2>2. s.locals[l].roots \subseteq Locals
    BY <2>1 DEF SettledLocals, LocalState
  <2>3. s.locals[l].roots \ lost = s.locals[l].roots \cap visible
    BY <2>2
  <2>4. s.locals[l].roots \cap lost = {}
          => s.locals[l].roots \cap visible = s.locals[l].roots
    BY <2>2
  <2>5. WithRoots(s.locals[l], s.locals[l].roots) = s.locals[l]
    BY <2>1, WithRootsSame
  <2> QED  BY <2>3, <2>4, <2>5 DEF KilledLocals, Without
<1> QED  BY <1>1 DEF KilledLocals, Without

\* The locals after are at least what is left of those before.
Covers(before, lost, after, l) ==
    /\ DefinitelyUninit(after[l]) <=> DefinitelyUninit(Without(before, lost)[l])
    /\ Slotted(Without(before, lost), l) => Slotted(after, l)
    /\ Without(before, lost)[l].roots \subseteq after[l].roots

LEMMA EdgeWorks ==
    ASSUME Accepted, NEW b \in Blocks, ins[b] # {}, NEW next \in Successors(b)
    PROVE  /\ next \in Blocks /\ ins[next] # {}
           /\ \A l \in Locals :
                 Covers(Here(b, Len(Statements(b)) + 1), Locals \ Visible(next), Here(next, 1), l)
<1>1. prog \in Programs
  BY DEF Accepted, AnalysisInv
<1>2. next \in Blocks
  BY <1>1, BlockFacts
<1>3. PICK out \in SoundStates :
        outs[b] = {out} /\ LocalsAt(b, Len(Statements(b)) + 1) = {out.locals}
  BY ExitWorks
<1>4. Here(b, Len(Statements(b)) + 1) = out.locals
  BY <1>3 DEF Here
<1>5. Covered(out, next)
  BY <1>3 DEF Accepted, WorklistInv, CoveredExits
<1>6. ins[next] # {}
  BY <1>5 DEF Covered
<1>7. PICK in \in SoundStates : ins[next] = {in} /\ Here(next, 1) = in.locals
  BY <1>2, <1>6, EntryWorks
<1> DEFINE killed == KillInvisible(out, Visible(next))
<1>8. in.locals = Merged(in, killed)
  BY <1>5, <1>7, JoinIsMerged DEF Covered
<1>9. Visible(next) \in SUBSET Locals
  <2>1. layout = FunctionLayout(prog) /\ next \in DOMAIN prog.stmts
    BY <1>2 DEF Accepted, ChainInv, Blocks
  <2> QED  BY <2>1 DEF Visible, FunctionLayout, VisibilityMask
<1>10. killed.locals = Without(out.locals, Locals \ Visible(next))
  BY <1>9, KillLocals, KilledIsWithout
<1>11. ASSUME NEW l \in Locals
       PROVE  Covers(out.locals, Locals \ Visible(next), in.locals, l)
  <2> HIDE DEF killed
  <2>1. /\ in.locals[l].mode = in.locals[l].mode \cup killed.locals[l].mode
        /\ in.locals[l].roots = in.locals[l].roots \cup killed.locals[l].roots
    BY <1>8 DEF Merged
  <2>2. in.locals \in LocalsFunctions /\ killed.locals \in LocalsFunctions
    <3>1. out.locals \in LocalsFunctions /\ in.locals \in LocalsFunctions
      BY SoundParts DEF LocalsFunctions
    <3> QED  BY <1>10, <3>1, WithoutWorks
  <2>3. Settled(in.locals[l]) /\ Settled(killed.locals[l])
    BY <2>2 DEF LocalsFunctions, SettledLocals
  <2>4. DefinitelyUninit(in.locals[l]) <=> DefinitelyUninit(killed.locals[l])
    BY <2>1, <2>3 DEF Settled, DefinitelyUninit
  <2>5. Slotted(killed.locals, l) => Slotted(in.locals, l)
    BY <2>1 DEF Slotted
  <2>6. killed.locals[l].roots \subseteq in.locals[l].roots
    BY <2>1
  <2> QED  BY <1>10, <2>4, <2>5, <2>6 DEF Covers
<1> QED  BY <1>2, <1>4, <1>6, <1>7, <1>11

-----------------------------------------------------------------------------
(* What a statement makes of the locals *)

TakesIn(before, b, key, s) == s.kind = "assign" /\ AssignMoves([locals |-> before], b, key, s)

GivesIn(before, b, key, s) ==
    {s.args[k].local : k \in {j \in DOMAIN s.args : AccessIn(before, b, key, s, j) = "move"}}
        \cup (IF s.kind = "pack" THEN {s.from} ELSE {})

LostIn(before, b, key, s) ==
    UNION {RootsOf(before, l) :
             l \in IF TakesIn(before, b, key, s) THEN {s.from} ELSE GivesIn(before, b, key, s)}

ViewedIn(before, s) == ViewedBy([locals |-> before], s.from)

\* The checker looks at the locals of the state only.
LEMMA SameLocals ==
    ASSUME NEW st, NEW b, NEW key, NEW s
    PROVE  /\ ViewedBy(st, s.from) = ViewedIn(st.locals, s)
           /\ AssignMoves(st, b, key, s) <=> AssignMoves([locals |-> st.locals], b, key, s)
           /\ \A l : IsAlias(st, l) <=> "alias" \in st.locals[l].mode
           /\ \A l : EffectiveRoots(st, l) = RootsOf(st.locals, l)
<1>1. ViewedBy(st, s.from) = ViewedIn(st.locals, s)
  BY DEF ViewedIn, ViewedBy, IsAlias, EffectiveRoots
<1>2. AssignMoves(st, b, key, s) <=> AssignMoves([locals |-> st.locals], b, key, s)
  BY <1>1 DEF AssignMoves, ViewedIn
<1> QED  BY <1>1, <1>2 DEF IsAlias, EffectiveRoots

LEMMA OtherKinds ==
    ASSUME NEW s, WellFormed(s), NEW before, NEW b, NEW key
    PROVE  /\ s.kind # "call" => s.args = << >> /\ DOMAIN s.args = {}
           /\ s.kind \in {"eval", "assign", "pack", "write", "call"}
           /\ s.kind \in {"assign", "pack", "write"} => s.to \in Locals
           /\ s.kind \in {"eval", "pack"} => s.from \in Locals
           /\ s.from \in Locals \cup {None} /\ s.to \in Locals \cup {None}
           /\ s.kind \in {"eval", "write"} => LostIn(before, b, key, s) = {}
           /\ s.kind = "assign" /\ ~TakesIn(before, b, key, s) => LostIn(before, b, key, s) = {}
           /\ s.kind = "pack" => LostIn(before, b, key, s) = RootsOf(before, s.from)
           /\ TakesIn(before, b, key, s) => LostIn(before, b, key, s) = RootsOf(before, s.from)
<1>1. /\ s.kind # "call" => s.args = << >> /\ DOMAIN s.args = {}
      /\ s.kind \in {"eval", "assign", "pack", "write", "call"}
      /\ s.kind \in {"assign", "pack", "write"} => s.to \in Locals
      /\ s.kind \in {"eval", "pack"} => s.from \in Locals
      /\ s.from \in Locals \cup {None} /\ s.to \in Locals \cup {None}
  BY DEF WellFormed, StatementSet
<1>2. ~TakesIn(before, b, key, s) /\ s.kind \in {"eval", "assign", "write"}
        => LostIn(before, b, key, s) = {}
  BY <1>1 DEF LostIn, GivesIn
<1>3. s.kind = "pack" => ~TakesIn(before, b, key, s) /\ GivesIn(before, b, key, s) = {s.from}
  BY <1>1 DEF TakesIn, GivesIn
<1>4. s.kind = "pack" => LostIn(before, b, key, s) = RootsOf(before, s.from)
  BY <1>3 DEF LostIn
<1>5. TakesIn(before, b, key, s) => LostIn(before, b, key, s) = RootsOf(before, s.from)
  BY DEF LostIn
<1>6. s.kind \in {"eval", "write"} => ~TakesIn(before, b, key, s)
  BY DEF TakesIn
<1> QED  BY <1>1, <1>2, <1>4, <1>5, <1>6

LEMMA CallLost ==
    ASSUME NEW s, WellFormed(s), s.kind = "call", NEW before \in LocalsFunctions, NEW b, NEW key
    PROVE  /\ LostIn(before, b, key, s) = LostBefore(before, b, key, s, Len(s.args) + 1)
           /\ \A n : LostBefore(before, b, key, s, n) \subseteq LostIn(before, b, key, s)
<1>1. DOMAIN s.args = 1 .. Len(s.args) /\ Len(s.args) \in Nat
  BY CallFacts
<1> DEFINE moved == {j \in DOMAIN s.args : AccessIn(before, b, key, s, j) = "move"}
<1>2. Moved(before, b, key, s, Len(s.args) + 1) = moved
  BY <1>1 DEF Moved
<1>3. LostIn(before, b, key, s) = UNION {RootsOf(before, s.args[k].local) : k \in moved}
  <2>1. ~TakesIn(before, b, key, s) /\ GivesIn(before, b, key, s) = {s.args[k].local : k \in moved}
    BY DEF TakesIn, GivesIn
  <2> QED  BY <2>1 DEF LostIn
<1>4. \A n : Moved(before, b, key, s, n) \subseteq moved
  BY DEF Moved
<1> HIDE DEF moved
<1> QED  BY <1>2, <1>3, <1>4 DEF LostBefore

LEMMA WithoutAt ==
    ASSUME NEW p, NEW q, NEW lost, NEW l \in Locals, p[l] = q[l]
    PROVE  Without(p, lost)[l] = Without(q, lost)[l]
BY DEF Without

\* The locals after an assignment.
AssignMakes(before, after, b, key, s) ==
    LET old   == before[s.to]
        bound == Bound([locals |-> before], b, key, s)
    IN  /\ \A h \in Locals : h # s.to => after[h] = Without(before, LostIn(before, b, key, s))[h]
        /\ DefinitelyUninit(old) \/ old.mode = {"slot"} => after[s.to] = bound
        /\ old.mode = {"alias"} => after[s.to] = old
        /\ ~DefinitelyUninit(old) /\ old.mode # {"slot"} /\ old.mode # {"alias"} =>
             /\ after[s.to].mode = old.mode
             /\ after[s.to].roots = old.roots \cup bound.roots

LEMMA AssignPassed ==
    ASSUME NEW s, WellFormed(s), s.kind = "assign", NEW st \in SoundStates, NEW b, NEW key
    PROVE  AssignMakes(st.locals, Assigned(st, b, key, s).locals, b, key, s)
<1> DEFINE before == st.locals
           entry  == [locals |-> before]
           old    == before[s.to]
           bound  == Bound(st, b, key, s)
           after  == Assigned(st, b, key, s).locals
           lost   == LostIn(before, b, key, s)
<1>1. before \in LocalsFunctions /\ s.to \in Locals
  BY SoundParts, OtherKinds DEF LocalsFunctions
<1>2. /\ ViewedBy(st, s.from) = ViewedIn(before, s)
      /\ AssignMoves(st, b, key, s) <=> TakesIn(before, b, key, s)
  BY SameLocals DEF TakesIn
<1>3. Bound(entry, b, key, s) = bound
  BY SameLocals DEF Bound, DirectlyViewed, ViewedIn
<1> DEFINE Made ==
             /\ \A h \in Locals : h # s.to => after[h] = Without(before, lost)[h]
             /\ DefinitelyUninit(old) \/ old.mode = {"slot"} => after[s.to] = bound
             /\ old.mode = {"alias"} => after[s.to] = old
             /\ ~DefinitelyUninit(old) /\ old.mode # {"slot"} /\ old.mode # {"alias"} =>
                  /\ after[s.to].mode = old.mode
                  /\ after[s.to].roots = old.roots \cup bound.roots
<1>4. ASSUME AssignMoves(st, b, key, s) PROVE Made
  <2>1. DefinitelyUninit(old) /\ ViewedBy(st, s.from) # {}
    BY <1>4 DEF AssignMoves
  <2>2. ViewedBy(st, s.from) = RootsOf(before, s.from)
    BY <2>1 DEF ViewedBy, EffectiveRoots
  <2>3. lost = RootsOf(before, s.from)
    BY <1>2, <1>4, OtherKinds
  <2>4. after = [Without(before, lost) EXCEPT ![s.to] = bound]
    <3>1. Invalidate(st, ViewedBy(st, s.from)).locals = Without(before, lost)
      BY <2>2, <2>3, InvalidatedLocals
    <3>2. Assigned(st, b, key, s) = UpdateLocal(Invalidate(st, ViewedBy(st, s.from)), s.to, bound)
      BY <1>4, <2>1 DEF Assigned
    <3> HIDE DEF bound, lost, before
    <3> QED  BY <3>1, <3>2 DEF UpdateLocal, after
  <2>5. Without(before, lost) \in [Locals -> SettledLocals]
    BY <1>1, WithoutWorks DEF LocalsFunctions
  <2>6. after[s.to] = bound /\ \A h \in Locals : h # s.to => after[h] = Without(before, lost)[h]
    <3> HIDE DEF after, lost, bound
    <3> QED  BY <1>1, <2>4, <2>5
  <2>7. old.mode = {"uninit"}
    BY <2>1 DEF DefinitelyUninit
  <2> HIDE DEF after, lost, bound
  <2> QED  BY <2>1, <2>6, <2>7
<1>5. ASSUME ~AssignMoves(st, b, key, s) PROVE Made
  <2>1. lost = {}
    BY <1>2, <1>5, OtherKinds
  <2>2. Without(before, lost) = before
    BY <1>1, <2>1, WithoutNone
  <2>3. before \in [Locals -> SettledLocals]
    BY <1>1 DEF LocalsFunctions
  <2>4. CASE DefinitelyUninit(old) \/ old.mode = {"slot"}
    <3>1. after = [before EXCEPT ![s.to] = bound]
      BY <1>5, <2>4 DEF Assigned, UpdateLocal
    <3>2. after[s.to] = bound /\ \A h \in Locals : h # s.to => after[h] = before[h]
      BY <1>1, <2>3, <3>1
    <3>3. old.mode # {"alias"}
      BY <2>4 DEF DefinitelyUninit
    <3> HIDE DEF after, lost, bound, before
    <3> QED  BY <2>2, <2>4, <3>2, <3>3
  <2>5. CASE old.mode = {"alias"}
    <3>1. after = before
      BY <2>5 DEF Assigned, DefinitelyUninit
    <3>2. ~DefinitelyUninit(old) /\ old.mode # {"slot"}
      BY <2>5 DEF DefinitelyUninit
    <3> HIDE DEF after, lost, bound, before
    <3> QED  BY <2>2, <2>5, <3>1, <3>2
  <2>6. CASE ~DefinitelyUninit(old) /\ old.mode # {"slot"} /\ old.mode # {"alias"}
    <3> DEFINE new == [mode |-> old.mode, roots |-> old.roots \cup bound.roots,
                       direct |-> old.direct \cup bound.direct]
    <3>1. after = [before EXCEPT ![s.to] = new]
      BY <2>6 DEF Assigned, UpdateLocal
    <3>2. after[s.to] = new /\ \A h \in Locals : h # s.to => after[h] = before[h]
      BY <1>1, <2>3, <3>1
    <3> HIDE DEF after, lost, bound, before
    <3> QED  BY <2>2, <2>6, <3>2
  <2> QED  BY <2>4, <2>5, <2>6
<1>6. Made
  BY <1>4, <1>5
<1> QED  BY <1>3, <1>6 DEF AssignMakes

\* A place stored in an aggregate takes what it held with it.
PackMakes(before, after, b, key, s) ==
    LET old    == before[s.to]
        stored == IF DefinitelyUninit(old) THEN [before EXCEPT ![s.to] = Slot] ELSE before
    IN  after = Without(stored, LostIn(before, b, key, s))

LEMMA PackPassed ==
    ASSUME NEW s, WellFormed(s), s.kind = "pack", NEW st \in SoundStates, NEW b, NEW key,
           ~DefinitelyUninit(st.locals[s.from])
    PROVE  PackMakes(st.locals, Packed(st, b, key, s).locals, b, key, s)
<1> DEFINE before == st.locals
           old    == before[s.to]
           put    == [s EXCEPT !.from = None]
           left   == Assigned(st, b, key, put)
           stored == IF DefinitelyUninit(old) THEN [before EXCEPT ![s.to] = Slot] ELSE before
<1>1. before \in LocalsFunctions /\ s.to \in Locals /\ s.from \in Locals
  BY SoundParts, OtherKinds DEF LocalsFunctions
<1>2. put.to = s.to /\ put.from = None
  BY DEF WellFormed, StatementSet
<1>3. ViewedBy(st, put.from) = {}
  BY <1>2 DEF ViewedBy
<1>4. ~AssignMoves(st, b, key, put) /\ Bound(st, b, key, put) = Slot
  BY <1>3 DEF AssignMoves, Bound
<1>5. old \in LocalState /\ Settled(old)
  BY <1>1 DEF LocalsFunctions, SettledLocals
<1>6. old = [mode |-> old.mode, roots |-> old.roots, direct |-> old.direct]
  BY <1>5 DEF LocalState
<1> HIDE DEF put
<1>7. left.locals = stored
  <2>1. CASE DefinitelyUninit(old)
    BY <1>2, <1>4, <2>1 DEF Assigned, UpdateLocal
  <2>2. CASE old.mode = {"slot"}
    <3>1. left.locals = [before EXCEPT ![s.to] = Slot]
      BY <1>2, <1>4, <2>2 DEF Assigned, UpdateLocal
    <3>2. old = Slot
      <4>1. old.roots = {} /\ old.direct = {}
        BY <1>5, <2>2 DEF Settled
      <4> QED  BY <1>6, <2>2, <4>1 DEF Slot
    <3>3. [before EXCEPT ![s.to] = Slot] = before
      BY <1>1, <3>2 DEF LocalsFunctions
    <3> QED  BY <2>2, <3>1, <3>3 DEF DefinitelyUninit
  <2>3. CASE ~DefinitelyUninit(old) /\ old.mode # {"slot"} /\ old.mode = {"alias"}
    BY <1>2, <1>4, <2>3 DEF Assigned
  <2>4. CASE ~DefinitelyUninit(old) /\ old.mode # {"slot"} /\ old.mode # {"alias"}
    <3> DEFINE new == [mode |-> old.mode, roots |-> old.roots \cup Slot.roots,
                       direct |-> old.direct \cup Slot.direct]
    <3>1. left.locals = [before EXCEPT ![s.to] = new]
      BY <1>2, <1>4, <2>4 DEF Assigned, UpdateLocal
    <3>2. new = old
      BY <1>6 DEF Slot
    <3>3. [before EXCEPT ![s.to] = old] = before
      BY <1>1 DEF LocalsFunctions
    <3> QED  BY <2>4, <3>1, <3>2, <3>3
  <2> QED  BY <2>1, <2>2, <2>3, <2>4
<1>8. EffectiveRoots(left, s.from) = RootsOf(before, s.from)
  <2>1. stored[s.from] = before[s.from]
    BY <1>1 DEF LocalsFunctions
  <2> HIDE DEF stored, left, before
  <2> QED  BY <1>7, <2>1 DEF EffectiveRoots, RootsOf
<1>9. Packed(st, b, key, s) = Invalidate(left, RootsOf(before, s.from))
  BY <1>8 DEF Packed, put
<1>10. Packed(st, b, key, s).locals = Without(stored, RootsOf(before, s.from))
  BY <1>7, <1>9, InvalidatedLocals
<1>11. LostIn(before, b, key, s) = RootsOf(before, s.from)
  BY OtherKinds
<1> QED  BY <1>10, <1>11 DEF PackMakes

LEMMA PassedMakes ==
    ASSUME NEW b, NEW key, NEW s, WellFormed(s), NEW before, NEW after,
           StatementPassed(b, key, s, before, after)
    PROVE  /\ s.kind \in {"eval", "write"} => after = before
           /\ s.kind = "assign" => AssignMakes(before, after, b, key, s)
           /\ s.kind = "pack" => PackMakes(before, after, b, key, s)
           /\ s.kind = "call" => after = CallMakes(before, b, key, s)
<1>1. PICK st \in SoundStates :
        /\ st.locals = before
        /\ s.kind # "call" => /\ StatementAllowed(st, b, key, s)
                              /\ after = AfterStatement(st, b, key, s).locals
        /\ s.kind = "call" => after = CallMakes(before, b, key, s)
  BY DEF StatementPassed
<1>2. s.kind \in {"eval", "write"} => after = before
  BY <1>1 DEF AfterStatement
<1>3. ASSUME s.kind = "assign" PROVE AssignMakes(before, after, b, key, s)
  BY <1>1, <1>3, AssignPassed DEF AfterStatement
<1>4. ASSUME s.kind = "pack" PROVE PackMakes(before, after, b, key, s)
  <2>1. StatementAllowed(st, b, key, s) /\ after = Packed(st, b, key, s).locals
    BY <1>1, <1>4 DEF AfterStatement
  <2>2. ~DefinitelyUninit(st.locals[s.from])
    BY <1>4, <2>1 DEF StatementAllowed, PackAllowed, Readable
  <2> QED  BY <1>1, <1>4, <2>1, <2>2, PackPassed
<1> QED  BY <1>1, <1>2, <1>3, <1>4

\* Whatever a statement does not assign to keeps what is not lost.
LEMMA OthersKept ==
    ASSUME NEW b, NEW key, NEW s, WellFormed(s), NEW before \in LocalsFunctions, NEW after,
           StatementPassed(b, key, s, before, after),
           NEW h \in Locals, h # s.to
    PROVE  after[h] = Without(before, LostIn(before, b, key, s))[h]
<1> DEFINE lost == LostIn(before, b, key, s)
<1>1. s.kind \in {"eval", "assign", "pack", "write", "call"}
  BY OtherKinds
<1>2. CASE s.kind \in {"eval", "write"}
  <2>1. lost = {} /\ after = before
    BY <1>2, OtherKinds, PassedMakes
  <2> QED  BY <2>1, WithoutNone
<1>3. CASE s.kind = "assign"
  <2>1. AssignMakes(before, after, b, key, s)
    BY <1>3, PassedMakes
  <2> QED  BY <2>1 DEF AssignMakes
<1>4. CASE s.kind = "pack"
  <2> DEFINE stored == IF DefinitelyUninit(before[s.to]) THEN [before EXCEPT ![s.to] = Slot]
                       ELSE before
  <2>1. after = Without(stored, lost)
    BY <1>4, PassedMakes DEF PackMakes
  <2>2. stored[h] = before[h]
    BY DEF LocalsFunctions
  <2> HIDE DEF stored, lost
  <2>3. Without(stored, lost)[h] = Without(before, lost)[h]
    BY <2>2, WithoutAt
  <2> QED  BY <2>1, <2>3 DEF lost
<1>5. CASE s.kind = "call"
  <2> DEFINE left == Without(before, lost)
  <2>1. LostBefore(before, b, key, s, Len(s.args) + 1) = lost
    BY <1>5, CallLost
  <2>2. after = IF s.to = None THEN left ELSE [left EXCEPT ![s.to] = ResultOf(before, s)]
    BY <1>5, <2>1, PassedMakes DEF CallMakes
  <2>3. left \in [Locals -> SettledLocals]
    BY WithoutWorks DEF LocalsFunctions
  <2> HIDE DEF left, lost
  <2>4. after[h] = left[h]
    BY <2>2, <2>3
  <2> QED  BY <2>4 DEF left, lost
<1> QED  BY <1>1, <1>2, <1>3, <1>4, <1>5

LEMMA CoversSame ==
    ASSUME NEW before, NEW lost, NEW after, NEW l, after[l] = Without(before, lost)[l]
    PROVE  Covers(before, lost, after, l)
BY DEF Covers, Slotted

\* A write through a view leaves its target what is left of it, at least.
LEMMA TargetKept ==
    ASSUME NEW b, NEW key, NEW s, WellFormed(s), NEW before \in LocalsFunctions, NEW after,
           StatementPassed(b, key, s, before, after),
           s.to \in Locals,
           s.kind = "write" \/ (s.kind \in {"assign", "pack"} /\ "alias" \in before[s.to].mode)
    PROVE  Covers(before, LostIn(before, b, key, s), after, s.to)
<1> DEFINE lost == LostIn(before, b, key, s)
           old  == before[s.to]
<1>1. old \in LocalState /\ Settled(old)
  BY DEF LocalsFunctions, SettledLocals
<1>2. CASE s.kind = "write"
  <2>1. lost = {} /\ after = before
    BY <1>2, OtherKinds, PassedMakes
  <2> QED  BY <2>1, WithoutNone, CoversSame
<1>3. CASE s.kind = "assign" /\ "alias" \in old.mode
  <2>1. ~DefinitelyUninit(old)
    BY <1>3 DEF DefinitelyUninit
  <2>2. ~TakesIn(before, b, key, s)
    BY <2>1 DEF TakesIn, AssignMoves
  <2>3. lost = {} /\ Without(before, lost) = before
    BY <1>3, <2>2, OtherKinds, WithoutNone
  <2>4. AssignMakes(before, after, b, key, s)
    BY <1>3, PassedMakes
  <2>5. CASE old.mode = {"alias"}
    <3>1. after[s.to] = old
      BY <2>4, <2>5 DEF AssignMakes
    <3>2. after[s.to] = Without(before, lost)[s.to]
      BY <2>3, <3>1
    <3>3. Covers(before, lost, after, s.to)
      <4> HIDE DEF lost
      <4> QED  BY <3>2, CoversSame
    <3> QED  BY <3>3
  <2>6. CASE old.mode # {"alias"}
    <3>1. old.mode # {"slot"}
      BY <1>3
    <3>2. after[s.to].mode = old.mode /\ old.roots \subseteq after[s.to].roots
      BY <2>1, <2>4, <2>6, <3>1 DEF AssignMakes
    <3> QED  BY <2>3, <3>2 DEF Covers, Slotted, DefinitelyUninit
  <2> QED  BY <2>5, <2>6
<1>4. CASE s.kind = "pack" /\ "alias" \in old.mode
  <2>1. ~DefinitelyUninit(old)
    BY <1>4 DEF DefinitelyUninit
  <2>2. after = Without(before, lost)
    <3>1. PackMakes(before, after, b, key, s)
      BY <1>4, PassedMakes
    <3> QED  BY <2>1, <3>1 DEF PackMakes
  <2>3. after[s.to] = Without(before, lost)[s.to]
    BY <2>2
  <2> QED  BY <2>3, CoversSame
<1> QED  BY <1>2, <1>3, <1>4

\* A target that is bound anew holds a value of its own or views what it was
\* assigned.
LEMMA TargetBound ==
    ASSUME NEW b, NEW key, NEW s, WellFormed(s), NEW before \in LocalsFunctions, NEW after,
           StatementPassed(b, key, s, before, after),
           s.kind \in {"assign", "pack"},
           DefinitelyUninit(before[s.to]) \/ Slotted(before, s.to)
    PROVE  /\ s.kind = "pack" \/ ViewedIn(before, s) = {}
                => Slotted(after, s.to) \/ DefinitelyUninit(after[s.to])
           /\ TakesIn(before, b, key, s) => Slotted(after, s.to)
           /\ s.kind = "assign" /\ ViewedIn(before, s) # {} /\ ~TakesIn(before, b, key, s)
                => ViewedIn(before, s) \subseteq after[s.to].roots
<1> DEFINE lost  == LostIn(before, b, key, s)
           old   == before[s.to]
           bound == Bound([locals |-> before], b, key, s)
<1>1. s.to \in Locals /\ old \in LocalState /\ Settled(old)
  BY OtherKinds DEF LocalsFunctions, SettledLocals
<1>2. ASSUME s.kind = "assign"
      PROVE  /\ ViewedIn(before, s) = {} => Slotted(after, s.to)
             /\ TakesIn(before, b, key, s) => Slotted(after, s.to)
             /\ ViewedIn(before, s) # {} /\ ~TakesIn(before, b, key, s)
                  => ViewedIn(before, s) \subseteq after[s.to].roots
  <2>1. AssignMakes(before, after, b, key, s)
    BY <1>2, PassedMakes
  <2>2. /\ ViewedIn(before, s) = {} => bound = Slot
        /\ TakesIn(before, b, key, s) => bound = Slot
        /\ ViewedIn(before, s) # {} /\ ~TakesIn(before, b, key, s)
             => bound.roots = ViewedIn(before, s)
    BY <1>2 DEF Bound, ViewedIn, TakesIn, AliasOf
  <2>3. CASE DefinitelyUninit(old) \/ old.mode = {"slot"}
    <3>1. after[s.to] = bound
      BY <2>1, <2>3 DEF AssignMakes
    <3> HIDE DEF bound
    <3> QED  BY <2>2, <3>1 DEF Slotted, Slot
  <2>4. CASE ~DefinitelyUninit(old) /\ old.mode # {"slot"}
    <3>1. Slotted(before, s.to) /\ old.mode # {"alias"}
      BY <2>4 DEF Slotted
    <3>2. after[s.to].mode = old.mode /\ after[s.to].roots = old.roots \cup bound.roots
      BY <2>1, <2>4, <3>1 DEF AssignMakes
    <3> HIDE DEF bound
    <3> QED  BY <2>2, <3>1, <3>2 DEF Slotted
  <2> QED  BY <2>3, <2>4
<1>3. ASSUME s.kind = "pack" PROVE Slotted(after, s.to) \/ DefinitelyUninit(after[s.to])
  <2> DEFINE stored == IF DefinitelyUninit(old) THEN [before EXCEPT ![s.to] = Slot] ELSE before
  <2>1. after = Without(stored, lost)
    BY <1>3, PassedMakes DEF PackMakes
  <2>2. stored \in LocalsFunctions
    BY <1>1, ConstantLocals DEF LocalsFunctions
  <2>3. Slotted(stored, s.to)
    BY <1>1 DEF Slotted, Slot, LocalsFunctions
  <2> HIDE DEF stored, lost
  <2>4. CASE s.to \in lost
    <3>1. after[s.to] = Uninit
      BY <1>1, <2>1, <2>2, <2>4, WithoutWorks
    <3> QED  BY <3>1 DEF DefinitelyUninit, Uninit
  <2>5. CASE s.to \notin lost
    BY <1>1, <2>1, <2>2, <2>3, <2>5, WithoutWorks
  <2> QED  BY <2>4, <2>5
<1>4. s.kind = "pack" => ~TakesIn(before, b, key, s)
  BY DEF TakesIn
<1> QED  BY <1>2, <1>3, <1>4

\* The result of a call views the arguments that it may return.
LEMMA ResultBound ==
    ASSUME NEW b, NEW key, NEW s, WellFormed(s), NEW before \in LocalsFunctions, NEW after,
           StatementPassed(b, key, s, before, after),
           s.kind = "call", s.to # None
    PROVE  /\ s.ret = {} => Slotted(after, s.to)
           /\ \A k \in s.ret : RootsOf(before, s.args[k].local) \subseteq after[s.to].roots
<1> DEFINE left == Without(before, LostBefore(before, b, key, s, Len(s.args) + 1))
           viewed == UNION {RootsOf(before, s.args[k].local) : k \in s.ret}
<1>1. s.to \in Locals
  BY OtherKinds
<1>2. after = [left EXCEPT ![s.to] = ResultOf(before, s)]
  <2>1. after = CallMakes(before, b, key, s)
    BY PassedMakes
  <2> QED  BY <2>1 DEF CallMakes
<1>3. left \in [Locals -> SettledLocals]
  BY WithoutWorks DEF LocalsFunctions
<1> HIDE DEF left
<1>4. after[s.to] = ResultOf(before, s)
  BY <1>1, <1>2, <1>3
<1>5. ResultOf(before, s) = IF viewed = {} THEN Slot ELSE AliasOf(viewed, {})
  BY DEF ResultOf
<1>6. s.ret = {} => viewed = {}
  OBVIOUS
<1>7. ASSUME NEW k \in s.ret PROVE RootsOf(before, s.args[k].local) \subseteq viewed
  <2>1. RootsOf(before, s.args[k].local) \in {RootsOf(before, s.args[j].local) : j \in s.ret}
    OBVIOUS
  <2> QED  BY <2>1
<1> HIDE DEF viewed
<1>8. CASE viewed = {}
  <2>1. after[s.to] = Slot
    BY <1>4, <1>5, <1>8
  <2> QED  BY <1>7, <1>8, <2>1 DEF Slotted, Slot
<1>9. CASE viewed # {}
  <2>1. after[s.to].roots = viewed
    BY <1>4, <1>5, <1>9 DEF AliasOf
  <2> QED  BY <1>6, <1>7, <1>9, <2>1
<1> QED  BY <1>8, <1>9

-----------------------------------------------------------------------------
(* What an access that was allowed leaves nobody else to do *)

\* The checker counts h as a holder that is in use when actor acts.
Lively(b, key, h, actor) ==
    layout.last[h] > 0 /\ (~Expired(h, key) \/ UsedInLaterIteration(b, h, key, actor))

LEMMA LivelyIsActive ==
    ASSUME NEW st, NEW b, NEW key, NEW r, NEW h, NEW actor, NEW strict,
           Lively(b, key, h, actor), ~Expired(h, key) \/ "alias" \in st.locals[h].mode
    PROVE  Active(st, b, key, r, h, actor, strict)
BY DEF Lively, Active, IsAlias

\* Nobody stands in for the root that an access acts for.
LEMMA LivelyForRoot ==
    ASSUME NEW b, NEW key, NEW h, NEW actor, Lively(b, key, h, actor)
    PROVE  Lively(b, key, h, None)
<1>1. None \notin Temps
  BY BindingsAssumption
<1> QED  BY <1>1 DEF Lively, UsedInLaterIteration

LEMMA SoleHolder ==
    ASSUME NEW st, NEW b, NEW key, NEW r, NEW actor, NEW hint, NEW strict,
           Cardinality(ActiveHolders(st, b, key, r, actor, hint, strict)) <= 1,
           NEW x \in Holders(st.locals, r), NEW y \in Holders(st.locals, r), x # y,
           x = actor \/ Active(st, b, key, r, x, hint, strict),
           y = actor \/ Active(st, b, key, r, y, hint, strict),
           actor = r \/ (x # r /\ y # r)
    PROVE  FALSE
<1> DEFINE S == ActiveHolders(st, b, key, r, actor, hint, strict)
<1>1. x \in S /\ y \in S
  BY DEF ActiveHolders
<1>2. IsFiniteSet(S)
  <2>1. S \subseteq Locals
    BY DEF ActiveHolders, Holders
  <2> QED  BY <2>1, LocalsAssumption, FS_Subset
<1>3. Cardinality(S) <= 1
  OBVIOUS
<1> HIDE DEF S
<1>4. {x, y} \in SUBSET S
  BY <1>1
<1>5. Cardinality({x, y}) <= Cardinality(S)
  BY <1>2, <1>4, FS_Subset
<1>6. Cardinality({x, y}) = 2
  <2>1. IsFiniteSet({x}) /\ Cardinality({x}) = 1
    BY FS_Singleton
  <2>2. Cardinality({x} \cup {y}) = Cardinality({x}) + 1
    BY <2>1, FS_AddElement
  <2>3. {x} \cup {y} = {x, y}
    OBVIOUS
  <2> QED  BY <2>1, <2>2, <2>3
<1>7. Cardinality(S) \in Nat
  BY <1>2, FS_CardinalityType
<1> QED  BY <1>3, <1>5, <1>6, <1>7

LEMMA NoSoleReader ==
    ASSUME NEW st, NEW b, NEW key, NEW rs, NEW actor, NEW tr,
           SharedAllowed(st, b, key, rs, actor, tr),
           NEW r \in rs, NEW h \in (Mutable \ Temps) \ {actor},
           "alias" \in st.locals[h].mode, r \in RootsOf(st.locals, h),
           Active(st, b, key, r, h, actor, FALSE)
    PROVE  FALSE
BY DEF SharedAllowed, IsAlias, EffectiveRoots

\* What is left of a holder that lost neither itself nor the root.
LEMMA StillHolds ==
    ASSUME NEW before \in LocalsFunctions, NEW lost, NEW h \in Locals, NEW r,
           h \notin lost, r \notin lost, r \in RootsOf(before, h)
    PROVE  /\ r \in RootsOf(Without(before, lost), h)
           /\ h \in Holders(Without(before, lost), r)
           /\ r \in before[h].roots => "alias" \in Without(before, lost)[h].mode
<1>1. RootsOf(Without(before, lost), h) = RootsOf(before, h) \ lost
  BY WithoutRoots
<1>2. Without(before, lost)[h].roots = before[h].roots \ lost
  BY WithoutWorks
<1>3. Without(before, lost) \in LocalsFunctions
  BY WithoutWorks
<1>4. "alias" \in Without(before, lost)[h].mode <=> Without(before, lost)[h].roots # {}
  BY <1>3, SettledParts
<1> QED  BY <1>1, <1>2, <1>4 DEF Holders

LEMMA RootIsHeld ==
    ASSUME NEW before \in LocalsFunctions, NEW h \in Locals, NEW r \in before[h].roots
    PROVE  r \in RootsOf(before, h) /\ h \in Holders(before, r) /\ "alias" \in before[h].mode
<1>1. /\ RootsOf(before, h) = (IF Slotted(before, h) THEN {h} ELSE {}) \cup before[h].roots
      /\ "alias" \in before[h].mode <=> before[h].roots # {}
  BY SettledParts
<1> QED  BY <1>1 DEF Holders

LEMMA AssignedAlone ==
    ASSUME NEW st, NEW b, NEW key, NEW s, AssignAllowed(st, b, key, s),
           ~DefinitelyUninit(st.locals[s.to])
    PROVE  MutableAllowed(st, b, key, EffectiveRoots(st, s.to), s.to, NoAccess, TRUE, TRUE, FALSE)
BY DEF AssignAllowed

\* A write, an assignment or a store leaves its target alone with its value.
LEMMA WriteAlone ==
    ASSUME NEW b, NEW key, NEW s, WellFormed(s), NEW before \in LocalsFunctions, NEW after,
           StatementPassed(b, key, s, before, after),
           s.kind \in {"assign", "pack", "write"}, ~DefinitelyUninit(before[s.to]),
           NEW r \in RootsOf(before, s.to), NEW h \in Locals, h # s.to, h # r,
           r \in before[h].roots, Lively(b, key, h, s.to)
    PROVE  FALSE
<1>1. PICK st \in SoundStates : st.locals = before /\ StatementAllowed(st, b, key, s)
  BY DEF StatementPassed
<1>2. s.to \in Locals /\ s.to # None
  BY OtherKinds, BindingsAssumption
<1>3. MutableAllowed(st, b, key, EffectiveRoots(st, s.to), s.to, NoAccess, TRUE, TRUE, FALSE)
  <2>1. CASE s.kind = "write"
    BY <1>1, <2>1 DEF StatementAllowed
  <2>2. CASE s.kind = "assign"
    BY <1>1, <2>2 DEF StatementAllowed, AssignAllowed
  <2>3. CASE s.kind = "pack"
    <3> DEFINE put == [s EXCEPT !.from = None]
    <3>1. put.to = s.to
      BY DEF WellFormed, StatementSet
    <3>2. AssignAllowed(st, b, key, put)
      BY <1>1, <2>3 DEF StatementAllowed, PackAllowed
    <3> HIDE DEF put
    <3>3. ~DefinitelyUninit(st.locals[put.to])
      BY <1>1, <3>1
    <3>4. MutableAllowed(st, b, key, EffectiveRoots(st, put.to), put.to, NoAccess, TRUE, TRUE, FALSE)
      BY <3>2, <3>3, AssignedAlone
    <3> QED  BY <3>1, <3>4
  <2> QED  BY <2>1, <2>2, <2>3
<1>4. /\ EffectiveRoots(st, s.to) = RootsOf(before, s.to)
      /\ s.to \in Holders(st.locals, r)
  BY <1>1, <1>2 DEF EffectiveRoots, Holders
<1>5. h \in Holders(st.locals, r) /\ "alias" \in st.locals[h].mode
  BY <1>1, RootIsHeld
<1>6. Active(st, b, key, r, h, s.to, FALSE)
  BY <1>5, LivelyIsActive
<1>7. Cardinality(ActiveHolders(st, b, key, r, s.to, s.to, FALSE)) <= 1
  BY <1>2, <1>3, <1>4 DEF MutableAllowed
<1>8. s.to = r \/ (s.to # r /\ h # r)
  OBVIOUS
<1> HIDE DEF Active
<1> QED  BY <1>4, <1>5, <1>6, <1>7, <1>8, SoleHolder

\* A local that was found readable is read while nobody writes through a view.
LEMMA ReadAlone ==
    ASSUME NEW b, NEW key, NEW st \in SoundStates, NEW l \in Locals, Readable(st, b, key, l),
           NEW r \in RootsOf(st.locals, l), NEW h \in Mutable \ Temps, h # l,
           r \in st.locals[h].roots, Lively(b, key, h, l)
    PROVE  FALSE
<1>1. h \in Locals /\ st.locals \in LocalsFunctions
  BY BindingsAssumption, SoundParts DEF LocalsFunctions
<1>2. SharedAllowed(st, b, key, RootsOf(st.locals, l), l, NoAccess)
  BY DEF Readable, EffectiveRoots
<1>3. r \in RootsOf(st.locals, h) /\ "alias" \in st.locals[h].mode
  BY <1>1, RootIsHeld
<1>4. Active(st, b, key, r, h, l, FALSE)
  BY <1>3, LivelyIsActive
<1>5. h \in (Mutable \ Temps) \ {l}
  OBVIOUS
<1> QED  BY <1>2, <1>3, <1>4, <1>5, NoSoleReader

\* What the checker found of one argument.
LEMMA ArgumentAccessed ==
    ASSUME NEW b, NEW key, NEW s, WellFormed(s), s.kind = "call",
           NEW before \in LocalsFunctions, NEW after,
           StatementPassed(b, key, s, before, after), NEW k \in DOMAIN s.args
    PROVE  /\ s.args[k].local \in Locals /\ ~DefinitelyUninit(before[s.args[k].local])
           /\ s.args[k].effect = "SharedBorrow" =>
                \E st \in SoundStates : st.locals = before /\ Readable(st, b, key, s.args[k].local)
           /\ \E st \in SoundStates : \E tr :
                /\ st.locals = Without(before, LostBefore(before, b, key, s, k))
                /\ TrackedBefore(before, b, key, s, k, tr)
                /\ RootsOf(st.locals, s.args[k].local) = RootsOf(before, s.args[k].local)
                /\ AccessIn(before, b, key, s, k) = "SharedBorrow"
                     /\ s.args[k].effect # "SharedBorrow" =>
                       \E actor \in {None, s.args[k].local} :
                         SharedAllowed(st, b, key, RootsOf(before, s.args[k].local), actor, tr)
                /\ AccessIn(before, b, key, s, k) # "SharedBorrow" =>
                     \E w, strict :
                       MutableAllowed(st, b, key, RootsOf(before, s.args[k].local), None, tr,
                                      FALSE, w, strict)
<1> DEFINE l == s.args[k].local
           access == AccessIn(before, b, key, s, k)
<1>1. PICK first \in SoundStates :
        /\ first.locals = before
        /\ ArgumentsReadable(first, b, key, s)
        /\ ArgumentPassed(before, b, key, s, k)
  BY DEF StatementPassed
<1>2. l \in Locals /\ access \in {"SharedBorrow", "MutableBorrow", "move"}
  BY CallFacts, AccessKinds
<1>3. ~DefinitelyUninit(before[l])
  BY <1>1 DEF ArgumentsReadable, Readable
<1>4. s.args[k].effect = "SharedBorrow" => Readable(first, b, key, l)
  BY <1>1 DEF ArgumentsReadable
<1>5. PICK st, tr :
        /\ st \in SoundStates
        /\ st.locals = Without(before, LostBefore(before, b, key, s, k))
        /\ TrackedBefore(before, b, key, s, k, tr)
        /\ ArgumentAllowed(st, b, key, s, RootsIn(before, s), k, tr)
  BY <1>1 DEF ArgumentPassed
<1>6. /\ ArgumentAccess(st, b, key, s, RootsIn(before, s), k) = access
      /\ EffectiveRoots(st, l) = RootsOf(before, l)
      /\ RootsOf(st.locals, l) = RootsOf(before, l)
  BY <1>5, ArgumentStep DEF EffectiveRoots
<1>7. access = "SharedBorrow" /\ s.args[k].effect # "SharedBorrow" =>
        \E actor \in {None, l} : SharedAllowed(st, b, key, RootsOf(before, l), actor, tr)
  <2> HIDE DEF l, access
  <2>1. ArgumentAllowed(st, b, key, s, RootsIn(before, s), k, tr)
    BY <1>5
  <2> QED  BY <1>6, <2>1 DEF ArgumentAllowed, l
<1>8. access # "SharedBorrow" =>
        \E w, strict : MutableAllowed(st, b, key, RootsOf(before, l), None, tr, FALSE, w, strict)
  <2>1. CASE access = "MutableBorrow"
    <3>1. MutableAllowed(st, b, key, RootsOf(before, l), None, tr, FALSE, TRUE, FALSE)
      BY <1>5, <1>6, <2>1 DEF ArgumentAllowed
    <3> QED  BY <3>1
  <2>2. CASE access = "move"
    <3>1. MutableAllowed(st, b, key, RootsOf(before, l), None, tr, FALSE, FALSE, TRUE)
      BY <1>5, <1>6, <2>2 DEF ArgumentAllowed
    <3> QED  BY <3>1
  <2> QED  BY <1>2, <2>1, <2>2
<1> QED  BY <1>1, <1>2, <1>3, <1>4, <1>5, <1>6, <1>7, <1>8

\* An argument that is written to or given away leaves its local alone with
\* each of its roots.
LEMMA ArgumentAlone ==
    ASSUME NEW b, NEW key, NEW s, WellFormed(s), s.kind = "call",
           NEW before \in LocalsFunctions, NEW after,
           StatementPassed(b, key, s, before, after),
           NEW k \in DOMAIN s.args, AccessIn(before, b, key, s, k) # "SharedBorrow",
           layout.last[s.args[k].local] > 0, ~Expired(s.args[k].local, key),
           NEW r \in RootsOf(before, s.args[k].local),
           NEW h \in Locals, h # s.args[k].local, h \notin LostIn(before, b, key, s),
           r \in RootsOf(before, h), h = r \/ r \in before[h].roots, Lively(b, key, h, None)
    PROVE  FALSE
<1> DEFINE l == s.args[k].local
           lost == LostBefore(before, b, key, s, k)
<1>1. PICK st, tr :
        /\ st \in SoundStates
        /\ st.locals = Without(before, lost)
        /\ RootsOf(st.locals, l) = RootsOf(before, l)
        /\ \E w, strict :
             MutableAllowed(st, b, key, RootsOf(before, l), None, tr, FALSE, w, strict)
  BY ArgumentAccessed
<1>2. PICK w, strict :
        MutableAllowed(st, b, key, RootsOf(before, l), None, tr, FALSE, w, strict)
  BY <1>1
<1>3. Cardinality(ActiveHolders(st, b, key, r, r, None, strict)) <= 1
  BY <1>2 DEF MutableAllowed
<1>4. l \in Locals /\ DOMAIN s.args = 1 .. Len(s.args) /\ Len(s.args) \in Nat
  BY CallFacts
<1>5. l \in Holders(st.locals, r)
  BY <1>1, <1>4 DEF Holders
<1>6. k \notin Moved(before, b, key, s, k)
  BY <1>4 DEF Moved
<1>7. r \notin lost
  BY <1>6, LostApart
<1>8. h \notin lost
  BY CallLost
<1>9. /\ h \in Holders(st.locals, r)
      /\ r \in before[h].roots => "alias" \in st.locals[h].mode
  BY <1>1, <1>7, <1>8, StillHolds
<1>10. h = r \/ Active(st, b, key, r, h, None, strict)
  BY <1>9, LivelyIsActive
<1>11. Active(st, b, key, r, l, None, strict)
  BY DEF Active
<1>12. l # h
  OBVIOUS
<1> HIDE DEF l, lost
<1> QED  BY <1>3, <1>5, <1>9, <1>10, <1>11, <1>12, SoleHolder

LEMMA ArgumentReadAlone ==
    ASSUME NEW b, NEW key, NEW s, WellFormed(s), s.kind = "call",
           NEW before \in LocalsFunctions, NEW after,
           StatementPassed(b, key, s, before, after),
           NEW k \in DOMAIN s.args, AccessIn(before, b, key, s, k) = "SharedBorrow",
           NEW r \in RootsOf(before, s.args[k].local),
           NEW h \in Mutable \ Temps, h # s.args[k].local, h \notin LostIn(before, b, key, s),
           r \in before[h].roots, Lively(b, key, h, s.args[k].local)
    PROVE  FALSE
<1> DEFINE l == s.args[k].local
           lost == LostBefore(before, b, key, s, k)
<1>1. h \in Locals /\ l \in Locals
  BY BindingsAssumption, CallFacts
<1>2. CASE s.args[k].effect = "SharedBorrow"
  <2>1. PICK st \in SoundStates : st.locals = before /\ Readable(st, b, key, l)
    BY <1>2, ArgumentAccessed
  <2>2. /\ Readable(st, b, key, l) /\ r \in RootsOf(st.locals, l)
        /\ h # l /\ r \in st.locals[h].roots /\ Lively(b, key, h, l)
    BY <2>1
  <2> HIDE DEF l
  <2> QED  BY <1>1, <2>2, ReadAlone
<1>3. CASE s.args[k].effect # "SharedBorrow"
  <2>1. PICK st, tr :
          /\ st \in SoundStates
          /\ st.locals = Without(before, LostBefore(before, b, key, s, k))
          /\ TrackedBefore(before, b, key, s, k, tr)
          /\ ArgumentAllowed(st, b, key, s, RootsIn(before, s), k, tr)
    BY DEF StatementPassed, ArgumentPassed
  <2>2. PICK actor \in {None, l} : SharedAllowed(st, b, key, RootsOf(before, l), actor, tr)
    <3>1. /\ ArgumentAccess(st, b, key, s, RootsIn(before, s), k) = "SharedBorrow"
          /\ EffectiveRoots(st, l) = RootsOf(before, l)
      BY <2>1, ArgumentStep DEF EffectiveRoots
    <3> QED  BY <1>3, <2>1, <3>1 DEF ArgumentAllowed
  <2>3. k \notin Moved(before, b, key, s, k)
    <3>1. DOMAIN s.args = 1 .. Len(s.args) /\ Len(s.args) \in Nat
      BY CallFacts
    <3> QED  BY <3>1 DEF Moved
  <2>4. r \notin lost /\ h \notin lost
    BY <2>3, LostApart, CallLost
  <2>5. r \in RootsOf(before, h)
    BY <1>1, RootIsHeld
  <2>6. r \in RootsOf(st.locals, h) /\ "alias" \in st.locals[h].mode
    BY <1>1, <2>1, <2>4, <2>5, StillHolds
  <2>7. Lively(b, key, h, actor)
    BY <2>2, LivelyForRoot
  <2>8. Active(st, b, key, r, h, actor, FALSE)
    BY <2>6, <2>7, LivelyIsActive
  <2>9. h \in (Mutable \ Temps) \ {actor}
    BY <1>1, <2>2, BindingsAssumption
  <2>10. r \in RootsOf(before, l)
    OBVIOUS
  <2> HIDE DEF l, lost
  <2> QED  BY <2>2, <2>6, <2>8, <2>9, <2>10, NoSoleReader
<1> QED  BY <1>2, <1>3

\* Arguments of one call that share a root are both reads.
LEMMA ArgumentsApart ==
    ASSUME NEW b, NEW key, NEW s, WellFormed(s), s.kind = "call",
           NEW before \in LocalsFunctions, NEW after,
           StatementPassed(b, key, s, before, after),
           NEW i \in DOMAIN s.args, NEW j \in DOMAIN s.args, i # j,
           AccessIn(before, b, key, s, i) # "SharedBorrow",
           NEW r \in RootsOf(before, s.args[i].local), r \in RootsOf(before, s.args[j].local)
    PROVE  FALSE
<1>1. DOMAIN s.args = 1 .. Len(s.args) /\ Len(s.args) \in Nat
  BY CallFacts
<1> DEFINE access(k) == AccessIn(before, b, key, s, k)
           rs(k) == RootsOf(before, s.args[k].local)
<1>2. ASSUME NEW k \in DOMAIN s.args, NEW m \in DOMAIN s.args, m < k,
             access(m) # "SharedBorrow", r \in rs(k), r \in rs(m)
      PROVE  FALSE
  <2>1. PICK st, tr :
          /\ st \in SoundStates
          /\ TrackedBefore(before, b, key, s, k, tr)
          /\ access(k) = "SharedBorrow" /\ s.args[k].effect # "SharedBorrow" =>
               \E actor \in {None, s.args[k].local} : SharedAllowed(st, b, key, rs(k), actor, tr)
          /\ access(k) # "SharedBorrow" =>
               \E w, strict : MutableAllowed(st, b, key, rs(k), None, tr, FALSE, w, strict)
    BY ArgumentAccessed
  <2>2. tr[r] = "mutable"
    BY <1>2, <2>1 DEF TrackedBefore
  <2>3. CASE access(k) # "SharedBorrow"
    <3>1. PICK w, strict : MutableAllowed(st, b, key, rs(k), None, tr, FALSE, w, strict)
      BY <2>1, <2>3
    <3> QED  BY <1>2, <2>2, <3>1 DEF MutableAllowed
  <2>4. CASE access(k) = "SharedBorrow" /\ s.args[k].effect # "SharedBorrow"
    <3>1. PICK actor \in {None, s.args[k].local} : SharedAllowed(st, b, key, rs(k), actor, tr)
      BY <2>1, <2>4
    <3> QED  BY <1>2, <2>2, <3>1 DEF SharedAllowed
  <2>5. CASE s.args[k].effect = "SharedBorrow"
    \* It was read before the other one was accessed.
    <3>1. PICK st1, tr1 :
            /\ st1 \in SoundStates
            /\ TrackedBefore(before, b, key, s, m, tr1)
            /\ \E w, strict : MutableAllowed(st1, b, key, rs(m), None, tr1, FALSE, w, strict)
      BY <1>2, ArgumentAccessed
    <3>2. tr1[r] \in {"shared", "mutable"}
      BY <1>2, <2>5, <3>1 DEF TrackedBefore
    <3>3. PICK w, strict : MutableAllowed(st1, b, key, rs(m), None, tr1, FALSE, w, strict)
      BY <3>1
    <3> QED  BY <1>2, <3>2, <3>3 DEF MutableAllowed
  <2> QED  BY <2>3, <2>4, <2>5
<1>3. CASE i < j
  BY <1>2, <1>3
<1>4. CASE j < i
  \* The access to the later one finds what was done to the earlier one.
  <2>1. PICK st, tr :
          /\ st \in SoundStates
          /\ TrackedBefore(before, b, key, s, i, tr)
          /\ \E w, strict : MutableAllowed(st, b, key, rs(i), None, tr, FALSE, w, strict)
    BY ArgumentAccessed
  <2>2. tr[r] \in {"shared", "mutable"}
    BY <1>4, <2>1 DEF TrackedBefore
  <2>3. PICK w, strict : MutableAllowed(st, b, key, rs(i), None, tr, FALSE, w, strict)
    BY <2>1
  <2> QED  BY <2>2, <2>3 DEF MutableAllowed
<1> QED  BY <1>1, <1>3, <1>4

-----------------------------------------------------------------------------
(* The accesses of a statement *)

LoadedIn(before, b, key, s) ==
    ({s.from} \ {None})
        \cup {s.args[k].local :
                k \in {j \in DOMAIN s.args : AccessIn(before, b, key, s, j) = "SharedBorrow"}}

BorrowedIn(before, b, key, s) ==
    {s.args[k].local :
       k \in {j \in DOMAIN s.args : AccessIn(before, b, key, s, j) = "MutableBorrow"}}

\* The target of a statement that writes to what the target holds.
Overwritten(before, s, l) ==
    /\ l = s.to /\ s.kind \in {"write", "assign", "pack"}
    /\ ~DefinitelyUninit(before[l])

\* What is read first is readable in the state that the checker saw.
LEMMA SourceReadable ==
    ASSUME NEW b, NEW key, NEW s, WellFormed(s), NEW before \in LocalsFunctions, NEW after,
           StatementPassed(b, key, s, before, after), s.from # None
    PROVE  /\ s.from \in Locals /\ s.kind # "call"
           /\ \E st \in SoundStates : st.locals = before /\ Readable(st, b, key, s.from)
<1>1. s.kind \in {"eval", "assign", "pack"} /\ s.from \in Locals
  BY OtherKinds DEF WellFormed
<1>2. PICK st \in SoundStates : st.locals = before /\ StatementAllowed(st, b, key, s)
  BY <1>1 DEF StatementPassed
<1>3. Readable(st, b, key, s.from)
  BY <1>1, <1>2 DEF StatementAllowed, AssignAllowed, PackAllowed
<1> QED  BY <1>1, <1>2, <1>3

LEMMA UsesPassed ==
    ASSUME NEW b, NEW key, NEW s, WellFormed(s), NEW before \in LocalsFunctions, NEW after,
           StatementPassed(b, key, s, before, after),
           NEW l \in LoadedIn(before, b, key, s) \cup BorrowedIn(before, b, key, s)
                       \cup GivesIn(before, b, key, s)
    PROVE  l \in Locals /\ l \in Loaded(s) /\ ~DefinitelyUninit(before[l])
<1>1. ASSUME l = s.from, s.from # None
      PROVE  l \in Locals /\ l \in Loaded(s) /\ ~DefinitelyUninit(before[l])
  BY <1>1, SourceReadable DEF Loaded, Readable
<1>2. ASSUME NEW k \in DOMAIN s.args, l = s.args[k].local
      PROVE  l \in Locals /\ l \in Loaded(s) /\ ~DefinitelyUninit(before[l])
  <2>1. s.kind = "call"
    BY OtherKinds
  <2> QED  BY <1>2, <2>1, ArgumentAccessed DEF Loaded
<1>3. s.kind = "pack" => s.from # None
  BY OtherKinds, BindingsAssumption
<1> QED  BY <1>1, <1>2, <1>3 DEF LoadedIn, BorrowedIn, GivesIn

LEMMA TargetReady ==
    ASSUME NEW b, NEW key, NEW s, WellFormed(s), NEW before \in LocalsFunctions, NEW after,
           StatementPassed(b, key, s, before, after), s.kind = "write"
    PROVE  ~DefinitelyUninit(before[s.to])
BY DEF StatementPassed, StatementAllowed

\* An access to what l holds leaves no view of it that is in use: none if it is
\* a write, no mutable binding if it is a read.
LEMMA AccessAlone ==
    ASSUME NEW b, NEW key, NEW s, WellFormed(s), NEW before \in LocalsFunctions, NEW after,
           StatementPassed(b, key, s, before, after),
           NEW l \in Locals, layout.last[l] > 0, ~Expired(l, key),
           NEW r \in RootsOf(before, l),
           NEW h \in Locals, h # l, h # r, r \in before[h].roots,
           h \notin LostIn(before, b, key, s), Lively(b, key, h, l),
           \/ l \in BorrowedIn(before, b, key, s) \/ Overwritten(before, s, l)
           \/ l \in LoadedIn(before, b, key, s) /\ h \in Mutable \ Temps
    PROVE  FALSE
<1>1. r \in RootsOf(before, h) /\ Lively(b, key, h, None)
  BY RootIsHeld, LivelyForRoot
<1>2. CASE l \in BorrowedIn(before, b, key, s)
  <2>1. PICK k \in DOMAIN s.args : /\ l = s.args[k].local
                                   /\ AccessIn(before, b, key, s, k) = "MutableBorrow"
    BY <1>2 DEF BorrowedIn
  <2>2. s.kind = "call"
    BY <2>1, OtherKinds
  <2> QED  BY <1>1, <2>1, <2>2, ArgumentAlone
<1>3. CASE Overwritten(before, s, l)
  BY <1>3, WriteAlone DEF Overwritten
<1>4. CASE l = s.from /\ s.from # None /\ h \in Mutable \ Temps
  <2>1. PICK st \in SoundStates : st.locals = before /\ Readable(st, b, key, l)
    BY <1>4, SourceReadable
  <2>2. r \in RootsOf(st.locals, l) /\ r \in st.locals[h].roots
    BY <2>1
  <2> QED  BY <1>4, <2>1, <2>2, ReadAlone
<1>5. CASE /\ h \in Mutable \ Temps
           /\ \E k \in DOMAIN s.args : /\ l = s.args[k].local
                                       /\ AccessIn(before, b, key, s, k) = "SharedBorrow"
  <2>1. PICK k \in DOMAIN s.args : /\ l = s.args[k].local
                                   /\ AccessIn(before, b, key, s, k) = "SharedBorrow"
    BY <1>5
  <2>2. s.kind = "call"
    BY <2>1, OtherKinds
  <2> QED  BY <1>5, <2>1, <2>2, ArgumentReadAlone
<1> QED  BY <1>2, <1>3, <1>4, <1>5 DEF LoadedIn

-----------------------------------------------------------------------------
(* What the locals hold, beside what the checker says of them *)

\* A point of the run: the locals as the checker saw them, those that the run
\* may still use, and what they hold.
Points ==
    [locals : LocalsFunctions, need : SUBSET Locals,
     view : [Locals -> Nat], viewing : SUBSET Locals,
     above : [Locals -> SUBSET Locals], stale : SUBSET Locals]

Held(p, h) == h \in p.need /\ ~DefinitelyUninit(p.locals[h]) /\ p.view[h] # 0

\* What is initialised and may be used holds a value.
Filled(p) == \A l \in p.need : p.view[l] = 0 => DefinitelyUninit(p.locals[l])

\* What the checker gave up may still hold a value, but it holds it alone.
Aside(p) ==
    \A l \in Locals : DefinitelyUninit(p.locals[l]) /\ p.view[l] # 0 =>
      /\ l \notin p.viewing /\ l \notin p.stale
      /\ \A h \in Locals : h # l => p.view[h] # p.view[l]

\* h holds its value as the root r of it, or views it with r among its roots.
HeldFrom(p, h, r) ==
    /\ IF h \in p.viewing THEN r \in p.locals[h].roots ELSE h = r /\ Slotted(p.locals, h)
    /\ h # r /\ p.view[r] = p.view[h] => r \in p.above[h]

\* r is a root of every local in use that holds v; it holds v itself, unless
\* it is a temporary, whose slot may have been filled anew.
Owner(p, r, v) ==
    /\ r \notin Temps => p.view[r] = v /\ r \in RootsOf(p.locals, r)
    /\ \A h \in Locals : Held(p, h) /\ p.view[h] = v => HeldFrom(p, h, r)

Owned(p) == \A h \in Locals : Held(p, h) => \E r \in Locals : Owner(p, r, p.view[h])

\* No view that may still be used had its value written to.
Unstaled(p) == \A l \in p.stale \cap p.need : DefinitelyUninit(p.locals[l])

\* From p to q the roots in lost are lost, the locals in gone end, and only t
\* is bound anew.
Carries(p, q, lost, gone, t) ==
    /\ q.need \subseteq p.need
    /\ \A x \in Locals : x # t =>
         /\ Covers(p.locals, lost, q.locals, x)
         /\ DefinitelyUninit(q.locals[x]) => DefinitelyUninit(p.locals[x]) \/ x \in gone
         /\ x \in q.need /\ ~DefinitelyUninit(q.locals[x]) => x \notin gone
         /\ q.view[x] = IF x \in gone THEN 0 ELSE p.view[x]
         /\ x \in q.viewing <=> x \in p.viewing /\ x \notin gone
         /\ x \in q.stale => x \notin gone
         /\ x \notin gone => \A r \in p.above[x] :
              q.view[r] = p.view[r] /\ q.view[r] # 0 => r \in q.above[x]

LEMMA StillUninit ==
    ASSUME NEW before \in LocalsFunctions, NEW lost, NEW after, NEW x \in Locals,
           Covers(before, lost, after, x), DefinitelyUninit(before[x])
    PROVE  DefinitelyUninit(after[x])
<1>1. RootsOf(before, x) = {}
  BY SettledParts
<1>2. DefinitelyUninit(Without(before, lost)[x])
  BY <1>1, WithoutRoots
<1> QED  BY <1>2 DEF Covers

LEMMA StillHeld ==
    ASSUME NEW p \in Points, NEW q \in Points, NEW lost, NEW gone, NEW t,
           Carries(p, q, lost, gone, t),
           NEW x \in Locals, x # t, Held(q, x)
    PROVE  /\ x \notin gone /\ x \notin lost
           /\ Held(p, x) /\ q.view[x] = p.view[x]
           /\ x \in q.viewing <=> x \in p.viewing
           /\ p.locals[x].roots \ lost \subseteq q.locals[x].roots
           /\ Slotted(p.locals, x) => Slotted(q.locals, x)
<1>1. x \in q.need /\ ~DefinitelyUninit(q.locals[x]) /\ q.view[x] # 0
  BY DEF Held
<1>2. /\ x \notin gone /\ q.view[x] = p.view[x] /\ x \in p.need
      /\ x \in q.viewing <=> x \in p.viewing
      /\ Covers(p.locals, lost, q.locals, x)
  BY <1>1 DEF Carries
<1>3. p.locals \in LocalsFunctions
  BY DEF Points
<1>4. ~DefinitelyUninit(p.locals[x])
  BY <1>1, <1>2, <1>3, StillUninit
<1>5. ~DefinitelyUninit(Without(p.locals, lost)[x])
  BY <1>1, <1>2 DEF Covers
<1>6. x \notin lost
  BY <1>3, <1>5, WithoutRoots
<1>7. /\ Without(p.locals, lost)[x].roots = p.locals[x].roots \ lost
      /\ Slotted(Without(p.locals, lost), x) <=> Slotted(p.locals, x)
  BY <1>3, <1>6, WithoutWorks
<1> QED  BY <1>1, <1>2, <1>4, <1>6, <1>7 DEF Held, Covers

LEMMA FilledStep ==
    ASSUME NEW p \in Points, NEW q \in Points, NEW lost, NEW gone, NEW t,
           Carries(p, q, lost, gone, t), Filled(p),
           t \in Locals => q.view[t] # 0
    PROVE  Filled(q)
<1> SUFFICES ASSUME NEW l \in q.need, q.view[l] = 0 PROVE DefinitelyUninit(q.locals[l])
  BY DEF Filled
<1>1. l \in Locals /\ l # t /\ p.locals \in LocalsFunctions
  BY DEF Points
<1>2. CASE l \in gone
  BY <1>1, <1>2 DEF Carries
<1>3. CASE l \notin gone
  <2>1. p.view[l] = 0 /\ l \in p.need /\ Covers(p.locals, lost, q.locals, l)
    BY <1>1, <1>3 DEF Carries
  <2>2. DefinitelyUninit(p.locals[l])
    BY <2>1 DEF Filled
  <2> QED  BY <1>1, <2>1, <2>2, StillUninit
<1> QED  BY <1>2, <1>3

LEMMA AsideStep ==
    ASSUME NEW p \in Points, NEW q \in Points, NEW lost, NEW gone, NEW t,
           Carries(p, q, lost, gone, t), Aside(p),
           \A x \in q.stale : x # t =>
             x \in p.stale \/ \E l \in Locals : l # x /\ p.view[l] = p.view[x],
           t \in Locals =>
             \A x \in Locals : x # t /\ DefinitelyUninit(p.locals[x]) /\ p.view[x] # 0
                                 => q.view[t] # p.view[x],
           t \in Locals /\ DefinitelyUninit(q.locals[t]) =>
             /\ t \notin q.viewing /\ t \notin q.stale
             /\ \A h \in Locals : h # t => q.view[h] # q.view[t]
    PROVE  Aside(q)
<1> SUFFICES ASSUME NEW x \in Locals, DefinitelyUninit(q.locals[x]), q.view[x] # 0
             PROVE  /\ x \notin q.viewing /\ x \notin q.stale
                    /\ \A h \in Locals : h # x => q.view[h] # q.view[x]
  BY DEF Aside
<1>1. CASE x = t
  BY <1>1
<1>2. CASE x # t
  <2>1. x \notin gone /\ q.view[x] = p.view[x] /\ DefinitelyUninit(p.locals[x])
        /\ (x \in q.viewing <=> x \in p.viewing)
    BY <1>2 DEF Carries
  <2>2. /\ x \notin p.viewing /\ x \notin p.stale
        /\ \A h \in Locals : h # x => p.view[h] # p.view[x]
    BY <2>1 DEF Aside
  <2>3. x \notin q.stale
    BY <1>2, <2>2
  <2>4. ASSUME NEW h \in Locals, h # x PROVE q.view[h] # q.view[x]
    <3>1. h # t => q.view[h] = 0 \/ q.view[h] = p.view[h]
      BY DEF Carries
    <3> QED  BY <1>2, <2>1, <2>2, <2>4, <3>1
  <2> QED  BY <2>1, <2>2, <2>3, <2>4
<1> QED  BY <1>1, <1>2

\* A root that is not lost stays one of its own.
LEMMA RootStays ==
    ASSUME NEW p \in Points, NEW q \in Points, NEW lost, NEW gone, NEW t,
           Carries(p, q, lost, gone, t),
           NEW r \in Locals, r # t, r \notin lost, r \in RootsOf(p.locals, r)
    PROVE  /\ r \in RootsOf(q.locals, r)
           /\ ~DefinitelyUninit(Without(p.locals, lost)[r])
<1>1. p.locals \in LocalsFunctions /\ q.locals \in LocalsFunctions
  BY DEF Points
<1>2. Covers(p.locals, lost, q.locals, r)
  BY DEF Carries
<1>3. Slotted(p.locals, r) \/ r \in p.locals[r].roots
  BY <1>1, SettledParts
<1>4. /\ Without(p.locals, lost)[r].roots = p.locals[r].roots \ lost
      /\ Slotted(Without(p.locals, lost), r) <=> Slotted(p.locals, r)
  BY <1>1, WithoutWorks
<1>5. Slotted(q.locals, r) \/ r \in q.locals[r].roots
  BY <1>2, <1>3, <1>4 DEF Covers
<1>6. r \in RootsOf(q.locals, r)
  BY <1>1, <1>5, SettledParts
<1>7. ~DefinitelyUninit(Without(p.locals, lost)[r])
  BY <1>1, WithoutRoots
<1> QED  BY <1>6, <1>7

LEMMA OwnerKept ==
    ASSUME NEW p \in Points, NEW q \in Points, NEW lost, NEW gone, NEW t,
           Carries(p, q, lost, gone, t),
           NEW r \in Locals, NEW v, v # 0, Owner(p, r, v), r \notin lost,
           r \notin Temps => q.view[r] = v /\ r \in RootsOf(q.locals, r),
           t \in Locals /\ Held(q, t) /\ q.view[t] = v => HeldFrom(q, t, r),
           q.view[r] = v => p.view[r] = v
    PROVE  Owner(q, r, v)
<1> SUFFICES ASSUME NEW h \in Locals, Held(q, h), q.view[h] = v PROVE HeldFrom(q, h, r)
  BY DEF Owner
<1>1. CASE h = t
  BY <1>1
<1>2. CASE h # t
  <2>1. /\ h \notin gone /\ h \notin lost
        /\ Held(p, h) /\ q.view[h] = p.view[h]
        /\ h \in q.viewing <=> h \in p.viewing
        /\ p.locals[h].roots \ lost \subseteq q.locals[h].roots
        /\ Slotted(p.locals, h) => Slotted(q.locals, h)
    BY <1>2, StillHeld
  <2>2. HeldFrom(p, h, r)
    BY <2>1 DEF Owner
  <2>3. IF h \in q.viewing THEN r \in q.locals[h].roots ELSE h = r /\ Slotted(q.locals, h)
    BY <2>1, <2>2 DEF HeldFrom
  <2>4. ASSUME h # r, q.view[r] = q.view[h] PROVE r \in q.above[h]
    <3>1. p.view[r] = v /\ q.view[r] = v /\ r \in p.above[h]
      BY <2>1, <2>2, <2>4 DEF HeldFrom
    <3> QED  BY <1>2, <2>1, <3>1 DEF Carries
  <2> QED  BY <2>3, <2>4 DEF HeldFrom
<1> QED  BY <1>1, <1>2

LEMMA OwnedStep ==
    ASSUME NEW p \in Points, NEW q \in Points, NEW lost, NEW gone, NEW t,
           Carries(p, q, lost, gone, t), Owned(p),
           \A x \in q.need : \A r \in p.locals[x].roots :
             /\ x # t /\ ~DefinitelyUninit(q.locals[x]) /\ p.view[x] # 0
             /\ r \in Temps \/ p.view[r] = p.view[x]
             => r \notin lost,
           \A x, h \in Locals :
             /\ x # t /\ h # t /\ x \in gone
             /\ p.view[h] = p.view[x] /\ ~DefinitelyUninit(Without(p.locals, lost)[x])
             => h \in gone,
           t \in Locals \ Temps /\ t \in RootsOf(p.locals, t) =>
             \A x \in q.need : x # t /\ ~DefinitelyUninit(q.locals[x])
                                 => t \notin p.locals[x].roots,
           t \in Locals /\ (\E h \in Locals : Held(q, h) /\ q.view[h] = q.view[t]) =>
             \E r \in Locals : Owner(q, r, q.view[t])
    PROVE  Owned(q)
<1> SUFFICES ASSUME NEW h \in Locals, Held(q, h)
             PROVE  \E r \in Locals : Owner(q, r, q.view[h])
  BY DEF Owned
<1>1. CASE t \in Locals /\ q.view[h] = q.view[t]
  BY <1>1
<1>2. CASE ~(t \in Locals /\ q.view[h] = q.view[t])
  <2> DEFINE v == q.view[h]
  <2>1. /\ h \notin gone /\ h \notin lost
        /\ Held(p, h) /\ v = p.view[h]
    BY <1>2, StillHeld
  <2>2. PICK r \in Locals : Owner(p, r, v)
    BY <2>1 DEF Owned
  <2>3. HeldFrom(p, h, r) /\ v # 0 /\ h # t /\ p.view[h] = v
        /\ h \in q.need /\ ~DefinitelyUninit(q.locals[h])
    BY <1>2, <2>1, <2>2 DEF Owner, Held
  <2>4. h \in p.viewing => r \in p.locals[h].roots
    BY <2>3 DEF HeldFrom
  <2>5. h \notin p.viewing => h = r
    BY <2>3 DEF HeldFrom
  <2>6. r \notin Temps => p.view[r] = v /\ r \in RootsOf(p.locals, r)
    BY <2>2 DEF Owner
  <2>7. r \notin lost
    <3>1. CASE h \in p.viewing
      BY <2>3, <2>4, <2>6, <3>1
    <3>2. CASE h \notin p.viewing
      BY <2>1, <2>5, <3>2
    <3> QED  BY <3>1, <3>2
  <2>8. ASSUME r \notin Temps PROVE q.view[r] = v /\ r \in RootsOf(q.locals, r)
    <3>1. r # t
      BY <2>3, <2>4, <2>5, <2>6, <2>8
    <3>2. r \in RootsOf(q.locals, r) /\ ~DefinitelyUninit(Without(p.locals, lost)[r])
      BY <2>6, <2>7, <2>8, <3>1, RootStays
    <3>3. r \notin gone
      BY <2>1, <2>3, <2>6, <2>8, <3>1, <3>2
    <3>4. q.view[r] = p.view[r]
      BY <3>1, <3>3 DEF Carries
    <3> QED  BY <2>6, <2>8, <3>2, <3>4
  <2>9. q.view[r] = v => p.view[r] = v
    <3>1. r # t => q.view[r] = 0 \/ q.view[r] = p.view[r]
      BY DEF Carries
    <3> QED  BY <1>2, <2>3, <3>1
  <2>10. ~(t \in Locals /\ q.view[t] = v)
    BY <1>2
  <2>11. Owner(q, r, v)
    <3> HIDE DEF v
    <3> QED  BY <2>2, <2>3, <2>7, <2>8, <2>9, <2>10, OwnerKept
  <2> QED  BY <2>11
<1> QED  BY <1>1, <1>2

LEMMA UnstaledStep ==
    ASSUME NEW p \in Points, NEW q \in Points, NEW lost, NEW gone, NEW t,
           Carries(p, q, lost, gone, t), Unstaled(p),
           t \in Locals => t \notin q.stale,
           \A x \in q.stale : x # t /\ x \notin p.stale /\ x \in q.need
                                => DefinitelyUninit(q.locals[x])
    PROVE  Unstaled(q)
<1> SUFFICES ASSUME NEW x \in q.stale \cap q.need PROVE DefinitelyUninit(q.locals[x])
  BY DEF Unstaled
<1>1. x \in Locals /\ x # t /\ p.locals \in LocalsFunctions
  BY DEF Points
<1>2. CASE x \in p.stale
  <2>1. x \in p.need /\ Covers(p.locals, lost, q.locals, x)
    BY <1>1 DEF Carries
  <2>2. DefinitelyUninit(p.locals[x])
    BY <1>2, <2>1 DEF Unstaled
  <2> QED  BY <1>1, <2>1, <2>2, StillUninit
<1>3. CASE x \notin p.stale
  BY <1>1, <1>3
<1> QED  BY <1>2, <1>3

-----------------------------------------------------------------------------
(* The point that the run is at *)

Now == Here(at[1], at[2])

Then == Here(at[1], at[2] + 1)

RunPoint ==
    [locals |-> Now, need |-> NeededAt(at[1], at[2]),
     view |-> view, viewing |-> viewing, above |-> above, stale |-> stale]

RunTypes ==
    /\ view \in [Locals -> Nat]
    /\ viewing \subseteq Locals /\ given \subseteq Locals /\ stale \subseteq Locals
    /\ above \in [Locals -> SUBSET Locals]
    /\ hops \in Nat

InBlock ==
    /\ Accepted /\ RunTypes
    /\ at[1] \in Blocks /\ ins[at[1]] # {}

AtStatement == InBlock /\ at[2] \in DOMAIN Statements(at[1])

LEMMA StatementHere ==
    ASSUME AtStatement
    PROVE  /\ UsesKnown /\ prog \in Programs /\ at[2] \in Nat /\ at[2] > 0
           /\ RunKey = KeyAt(at[1], at[2])
           /\ Entry = [locals |-> Now]
           /\ WellFormed(RunStatement)
           /\ Now \in LocalsFunctions /\ Then \in LocalsFunctions
           /\ StatementPassed(at[1], RunKey, RunStatement, Now, Then)
           /\ RunPoint \in Points
<1>1. UsesKnown /\ prog \in Programs /\ at[2] \in DOMAIN Statements(at[1])
  BY AcceptedUses DEF AtStatement, InBlock, Accepted, AnalysisInv
<1>2. /\ DOMAIN Statements(at[1]) = 1 .. Len(Statements(at[1]))
      /\ Len(Statements(at[1])) \in Nat
      /\ at[2] \in Positions(prog, at[1]) /\ at[2] + 1 \in Positions(prog, at[1])
  BY <1>1, PositionFacts DEF AtStatement, InBlock
<1>3. Now \in LocalsFunctions /\ Then \in LocalsFunctions
  BY <1>2, PointWorks DEF AtStatement, InBlock, Now, Then
<1>4. RunKey = KeyAt(at[1], at[2])
  BY DEF RunKey, KeyAt
<1>5. /\ WellFormed(RunStatement)
      /\ Now = CHOOSE locals \in entries[at[1]][at[2]] : TRUE
      /\ StatementPassed(at[1], RunKey, RunStatement, Now, Then)
  BY <1>1, <1>4, StatementWorks DEF AtStatement, InBlock, Now, Then, RunStatement
<1>6. RunPoint \in Points
  BY <1>3 DEF RunPoint, Points, NeededAt, AtStatement, InBlock, RunTypes
<1> QED  BY <1>1, <1>2, <1>3, <1>4, <1>5, <1>6 DEF Entry

\* The run does what the checker decided.
LEMMA RunDecides ==
    ASSUME AtStatement
    PROVE  /\ \A k \in DOMAIN RunStatement.args :
                AccessOf(RunStatement, k) = AccessIn(Now, at[1], RunKey, RunStatement, k)
           /\ \A l : EffectiveRoots(Entry, l) = RootsOf(Now, l)
           /\ ViewedBy(Entry, RunStatement.from) = ViewedIn(Now, RunStatement)
           /\ Takes(RunStatement) <=> TakesIn(Now, at[1], RunKey, RunStatement)
           /\ Gives(RunStatement) = GivesIn(Now, at[1], RunKey, RunStatement)
           /\ Reads(RunStatement) = LoadedIn(Now, at[1], RunKey, RunStatement)
           /\ Lost(RunStatement) = LostIn(Now, at[1], RunKey, RunStatement)
           /\ \A l, lost : Usable(l, lost) <=> ~DefinitelyUninit(Without(Now, lost)[l])
<1> DEFINE s == RunStatement
<1>1. Entry = [locals |-> Now]
  BY StatementHere
<1>2. \A l : EffectiveRoots(Entry, l) = RootsOf(Now, l)
  BY <1>1 DEF EffectiveRoots
<1>3. EntryRoots(s) = RootsIn(Now, s)
  BY <1>2 DEF EntryRoots, RootsIn, ArgumentRoots
<1>4. \A k \in DOMAIN s.args : AccessOf(s, k) = AccessIn(Now, at[1], RunKey, s, k)
  BY <1>1, <1>3 DEF AccessOf, AccessIn
<1>5. Takes(s) <=> TakesIn(Now, at[1], RunKey, s)
  BY <1>1 DEF Takes, TakesIn
<1>6. ViewedBy(Entry, s.from) = ViewedIn(Now, s)
  BY <1>1 DEF ViewedIn
<1> HIDE DEF s
<1>7. Gives(s) = GivesIn(Now, at[1], RunKey, s)
  <2>1. ArgumentsWith(s, {"move"})
          = {s.args[k].local : k \in {j \in DOMAIN s.args : AccessIn(Now, at[1], RunKey, s, j) = "move"}}
    BY <1>4 DEF ArgumentsWith
  <2> QED  BY <2>1 DEF Gives, GivesIn
<1>8. Reads(s) = LoadedIn(Now, at[1], RunKey, s)
  <2>1. ArgumentsWith(s, {"SharedBorrow"})
          = {s.args[k].local :
               k \in {j \in DOMAIN s.args : AccessIn(Now, at[1], RunKey, s, j) = "SharedBorrow"}}
    BY <1>4 DEF ArgumentsWith
  <2> QED  BY <2>1 DEF Reads, LoadedIn
<1>9. Lost(s) = LostIn(Now, at[1], RunKey, s)
  BY <1>2, <1>5, <1>7 DEF Lost, LostIn
<1>10. \A l, lost : Usable(l, lost) <=> ~DefinitelyUninit(Without(Now, lost)[l])
  BY <1>1, InvalidatedLocals DEF Usable
<1> QED  BY <1>2, <1>4, <1>5, <1>6, <1>7, <1>8, <1>9, <1>10 DEF s

LEMMA RunWrites ==
    ASSUME AtStatement
    PROVE  Writes(RunStatement)
             = BorrowedIn(Now, at[1], RunKey, RunStatement)
                 \cup {l \in {RunStatement.to} :
                         \/ RunStatement.kind = "write"
                         \/ RunStatement.kind \in {"assign", "pack"} /\ view[l] # 0}
<1> DEFINE s == RunStatement
<1>1. \A k \in DOMAIN s.args : AccessOf(s, k) = AccessIn(Now, at[1], RunKey, s, k)
  BY RunDecides
<1> HIDE DEF s
<1>2. ArgumentsWith(s, {"MutableBorrow"}) = BorrowedIn(Now, at[1], RunKey, s)
  BY <1>1 DEF ArgumentsWith, BorrowedIn
<1> QED  BY <1>2 DEF Writes, s

LEMMA TouchedNow ==
    ASSUME AtStatement, NEW l \in Locals,
           l \in Written(RunStatement) \cup Loaded(RunStatement)
    PROVE  /\ l \in NeededAt(at[1], at[2])
           /\ layout.last[l] > 0 /\ ~Expired(l, RunKey)
<1>1. /\ UsesKnown /\ prog \in Programs /\ RunKey = KeyAt(at[1], at[2])
      /\ at[1] \in Blocks
  BY StatementHere DEF AtStatement, InBlock
<1>2. at[2] \in 1 .. Len(Statements(at[1])) /\ Len(Statements(at[1])) \in Nat
      /\ at[2] \in Positions(prog, at[1])
  BY <1>1, PositionFacts DEF AtStatement
<1>3. l \in UsedAt(prog, at[1], at[2])
  BY <1>2 DEF UsedAt, RunStatement, Statements
<1> QED  BY <1>1, <1>2, <1>3, UsedIsNeeded

\* What a statement uses holds a value, and is initialised unless it is the
\* target of an assignment.
LEMMA UsedNow ==
    ASSUME AtStatement, Filled(RunPoint), NEW l,
           l \in Reads(RunStatement) \cup Writes(RunStatement) \cup Gives(RunStatement)
    PROVE  /\ l \in Locals /\ l \in RunPoint.need /\ view[l] # 0
           /\ layout.last[l] > 0 /\ ~Expired(l, RunKey)
           /\ Held(RunPoint, l) \/ DefinitelyUninit(Now[l])
           /\ l \notin Writes(RunStatement) => Held(RunPoint, l)
           /\ l \in Reads(RunStatement) \cup Gives(RunStatement) => Held(RunPoint, l)
<1> DEFINE s == RunStatement
           b == at[1]
<1>1. /\ WellFormed(s) /\ Now \in LocalsFunctions
      /\ StatementPassed(b, RunKey, s, Now, Then)
  BY StatementHere
<1>2. /\ Reads(s) = LoadedIn(Now, b, RunKey, s)
      /\ Gives(s) = GivesIn(Now, b, RunKey, s)
      /\ Writes(s) = BorrowedIn(Now, b, RunKey, s)
                       \cup {x \in {s.to} : \/ s.kind = "write"
                                            \/ s.kind \in {"assign", "pack"} /\ view[x] # 0}
  BY RunDecides, RunWrites
<1>3. /\ RunPoint.locals = Now /\ RunPoint.need = NeededAt(b, at[2]) /\ RunPoint.view = view
  BY DEF RunPoint
<1> HIDE DEF s, b
<1>4. CASE l \in LoadedIn(Now, b, RunKey, s) \cup BorrowedIn(Now, b, RunKey, s)
                  \cup GivesIn(Now, b, RunKey, s)
  <2>1. l \in Locals /\ l \in Loaded(s) /\ ~DefinitelyUninit(Now[l])
    BY <1>1, <1>4, UsesPassed
  <2>2. l \in NeededAt(b, at[2]) /\ layout.last[l] > 0 /\ ~Expired(l, RunKey)
    BY <2>1, TouchedNow DEF s, b
  <2>3. view[l] # 0
    BY <1>3, <2>1, <2>2 DEF Filled
  <2> QED  BY <1>3, <2>1, <2>2, <2>3 DEF Held, s
<1>5. CASE /\ l = s.to
           /\ \/ s.kind = "write"
              \/ s.kind \in {"assign", "pack"} /\ view[l] # 0
  <2>1. l \in Locals /\ l \in Written(s)
    BY <1>1, <1>5, OtherKinds, BindingsAssumption DEF Written
  <2>2. l \in NeededAt(b, at[2]) /\ layout.last[l] > 0 /\ ~Expired(l, RunKey)
    BY <2>1, TouchedNow DEF s, b
  <2>3. s.kind = "write" => ~DefinitelyUninit(Now[l])
    BY <1>1, <1>5, TargetReady
  <2>4. view[l] # 0
    BY <1>3, <1>5, <2>2, <2>3 DEF Filled
  <2>5. l \in Writes(s)
    BY <1>2, <1>5
  <2>6. CASE l \in Reads(s) \cup Gives(s)
    BY <1>2, <1>4, <2>6 DEF s
  <2>7. CASE l \notin Reads(s) \cup Gives(s)
    BY <1>3, <2>1, <2>2, <2>4, <2>5, <2>7 DEF Held, s
  <2> QED  BY <2>6, <2>7
<1>6. \/ l \in LoadedIn(Now, b, RunKey, s) \cup BorrowedIn(Now, b, RunKey, s)
           \cup GivesIn(Now, b, RunKey, s)
      \/ /\ l = s.to
         /\ s.kind = "write" \/ (s.kind \in {"assign", "pack"} /\ view[l] # 0)
  <2>1. l \in Reads(s) \cup Writes(s) \cup Gives(s)
    BY DEF s
  <2> QED  BY <1>2, <2>1
<1> QED  BY <1>4, <1>5, <1>6

\* Two locals in use that hold the same value have a root in common.
LEMMA SharedRoot ==
    ASSUME NEW p \in Points, Owned(p), NEW l \in Locals, NEW h \in Locals,
           Held(p, l), Held(p, h), p.view[l] = p.view[h]
    PROVE  \E r \in Locals :
             /\ Owner(p, r, p.view[h])
             /\ HeldFrom(p, l, r) /\ HeldFrom(p, h, r)
             /\ r \in RootsOf(p.locals, l) /\ r \in RootsOf(p.locals, h)
             /\ r \notin Temps => p.view[r] = p.view[h]
<1>1. PICK r \in Locals : Owner(p, r, p.view[h])
  BY DEF Owned
<1>2. HeldFrom(p, l, r) /\ HeldFrom(p, h, r) /\ (r \notin Temps => p.view[r] = p.view[h])
  BY <1>1 DEF Owner
<1>3. p.locals \in LocalsFunctions
  BY DEF Points
<1>4. ASSUME NEW x \in Locals, HeldFrom(p, x, r) PROVE r \in RootsOf(p.locals, x)
  BY <1>3, <1>4, SettledParts DEF HeldFrom
<1> QED  BY <1>1, <1>2, <1>4

LEMMA NoFault ==
    ASSUME AtStatement, Filled(RunPoint), Aside(RunPoint), Owned(RunPoint),
           \A l \in given : view[l] = 0
    PROVE  /\ FaultOf(RunStatement) \notin {"given", "empty"}
           /\ Unstaled(RunPoint) => FaultOf(RunStatement) = "none"
<1> DEFINE s == RunStatement
           used == Reads(s) \cup Writes(s) \cup Gives(s)
<1>1. \A l \in used : /\ l \in Locals /\ l \in RunPoint.need /\ view[l] # 0
                      /\ Held(RunPoint, l) \/ DefinitelyUninit(Now[l])
  BY UsedNow
<1>2. used \cap given = {}
  BY <1>1
<1>3. ASSUME Unstaled(RunPoint) PROVE used \cap stale = {}
  <2> SUFFICES ASSUME NEW l \in used, l \in stale PROVE FALSE
    OBVIOUS
  <2>1. DefinitelyUninit(Now[l]) /\ l \in Locals /\ view[l] # 0
    BY <1>1, <1>3 DEF Unstaled, RunPoint, Held
  <2>2. l \notin stale
    BY <2>1 DEF Aside, RunPoint
  <2> QED  BY <2>2
<1>4. ~ArgumentsClash(s)
  <2> SUFFICES ASSUME NEW i \in DOMAIN s.args, NEW j \in DOMAIN s.args, i # j,
                      view[s.args[i].local] = view[s.args[j].local],
                      AccessOf(s, i) # "SharedBorrow"
               PROVE  FALSE
    BY DEF ArgumentsClash
  <2>1. /\ WellFormed(s) /\ Now \in LocalsFunctions /\ RunPoint \in Points
        /\ StatementPassed(at[1], RunKey, s, Now, Then)
        /\ RunPoint.locals = Now /\ RunPoint.view = view
    BY StatementHere DEF RunPoint
  <2>2. s.kind = "call" /\ AccessIn(Now, at[1], RunKey, s, i) # "SharedBorrow"
    BY <2>1, OtherKinds, RunDecides
  <2>3. ASSUME NEW k \in DOMAIN s.args
        PROVE  s.args[k].local \in Locals /\ Held(RunPoint, s.args[k].local)
    <3>1. s.args[k].local \in Locals /\ ~DefinitelyUninit(Now[s.args[k].local])
      BY <2>1, <2>2, ArgumentAccessed
    <3>2. s.args[k].local \in Loaded(s)
      BY DEF Loaded
    <3>3. s.args[k].local \in NeededAt(at[1], at[2])
      BY <3>1, <3>2, TouchedNow
    <3> QED  BY <3>1, <3>3 DEF Held, Filled, RunPoint
  <2>4. PICK r \in Locals : /\ r \in RootsOf(Now, s.args[i].local)
                            /\ r \in RootsOf(Now, s.args[j].local)
    <3> DEFINE l == s.args[i].local
               h == s.args[j].local
    <3>1. Held(RunPoint, l) /\ Held(RunPoint, h) /\ l \in Locals /\ h \in Locals
          /\ RunPoint.view[l] = RunPoint.view[h]
      BY <2>1, <2>3
    <3> HIDE DEF l, h
    <3>2. \E r \in Locals : r \in RootsOf(Now, l) /\ r \in RootsOf(Now, h)
      BY <2>1, <3>1, SharedRoot
    <3> QED  BY <3>2 DEF l, h
  <2> QED  BY <2>1, <2>2, <2>4, ArgumentsApart
<1> HIDE DEF used
<1>5. FaultOf(s) = IF used \cap given # {} THEN "given"
                   ELSE IF \E l \in used : view[l] = 0 THEN "empty"
                   ELSE IF used \cap stale # {} \/ ArgumentsClash(s) THEN "stale"
                   ELSE "none"
  BY DEF FaultOf, used
<1> QED  BY <1>1, <1>2, <1>3, <1>4, <1>5

-----------------------------------------------------------------------------
(* One statement of the run *)

Target == IF Rebinds(RunStatement) THEN RunStatement.to ELSE None

\* The checker is right so far, and the statement leaves no view behind.
Proceeds ==
    /\ AtStatement
    /\ Filled(RunPoint) /\ Aside(RunPoint) /\ Owned(RunPoint)
    /\ FaultOf(RunStatement) = "none"
    /\ ~LeavesView(RunStatement) /\ ~RootsItself(RunStatement)

\* What the run may still use is in use for every access but a temporary's.
LEMMA NeededLively ==
    ASSUME AtStatement, NEW x \in NeededAt(at[1], at[2] + 1)
    PROVE  /\ x \in Locals /\ x \in NeededAt(at[1], at[2])
           /\ layout.last[x] > 0 /\ FutureUse(at[1], x, RunKey) # "none"
           /\ \A actor : actor \notin Temps => Lively(at[1], RunKey, x, actor)
           /\ \A actor : ~Expired(x, RunKey) => Lively(at[1], RunKey, x, actor)
<1>1. UsesKnown /\ RunKey = KeyAt(at[1], at[2]) /\ at[2] \in Nat /\ at[2] > 0
      /\ at[1] \in Blocks
  BY StatementHere DEF AtStatement, InBlock
<1>2. /\ x \in NeededAt(at[1], at[2])
      /\ x \in Locals /\ FutureUse(at[1], x, RunKey) # "none"
  BY <1>1, NeededBefore
<1>3. layout.last[x] > 0
  BY <1>1, <1>2, NeededIsUsed
<1> QED  BY <1>2, <1>3 DEF Lively, UsedInLaterIteration

LEMMA GivesLost ==
    ASSUME AtStatement, NEW l \in Gives(RunStatement)
    PROVE  /\ RootsOf(Now, l) \subseteq Lost(RunStatement)
           /\ l \in Locals /\ ~Usable(l, Lost(RunStatement))
<1> DEFINE s == RunStatement
<1>1. /\ WellFormed(s) /\ Now \in LocalsFunctions
      /\ StatementPassed(at[1], RunKey, s, Now, Then)
      /\ Gives(s) = GivesIn(Now, at[1], RunKey, s)
      /\ Lost(s) = LostIn(Now, at[1], RunKey, s)
  BY StatementHere, RunDecides
<1>2. /\ s.kind # "call" => DOMAIN s.args = {}
      /\ TakesIn(Now, at[1], RunKey, s) => s.kind = "assign"
  BY <1>1, OtherKinds DEF TakesIn
<1> HIDE DEF s
<1>3. ~TakesIn(Now, at[1], RunKey, s)
  BY <1>1, <1>2 DEF GivesIn, s
<1>4. RootsOf(Now, l) \subseteq Lost(s)
  BY <1>1, <1>3 DEF LostIn, s
<1>5. l \in Locals
  BY <1>1, UsesPassed DEF s
<1>6. DefinitelyUninit(Without(Now, Lost(s))[l])
  BY <1>1, <1>4, <1>5, WithoutRoots
<1> QED  BY <1>4, <1>5, <1>6, RunDecides DEF s

\* A local that may still be used, and that the statement leaves usable, does
\* not lose the root of its value.
LEMMA LostAlone ==
    ASSUME Proceeds, NEW x \in NeededAt(at[1], at[2] + 1), x # Target,
           Usable(x, Lost(RunStatement)), view[x] # 0,
           NEW r \in Lost(RunStatement), r \in RootsOf(Now, x), x = r \/ r \in Now[x].roots,
           r \in Temps \/ view[r] = view[x]
    PROVE  FALSE
<1> DEFINE s == RunStatement
<1>1. AtStatement /\ ~LeavesView(s)
  BY DEF Proceeds
<1>2. /\ WellFormed(s) /\ Now \in LocalsFunctions
      /\ StatementPassed(at[1], RunKey, s, Now, Then)
      /\ Gives(s) = GivesIn(Now, at[1], RunKey, s)
      /\ Lost(s) = LostIn(Now, at[1], RunKey, s)
      /\ Takes(s) <=> TakesIn(Now, at[1], RunKey, s)
      /\ EffectiveRoots(Entry, x) = RootsOf(Now, x)
      /\ ~DefinitelyUninit(Without(Now, Lost(s))[x])
  BY <1>1, StatementHere, RunDecides
<1>3. x \in Locals /\ Lively(at[1], RunKey, x, None)
  BY <1>1, NeededLively, BindingsAssumption
<1>4. x \notin Lost(s)
  BY <1>2, <1>3, WithoutRoots
<1>5. CASE Takes(s) \/ s.kind = "pack"
  <2>1. LosesRoot(Entry, x, Lost(s))
    BY <1>2 DEF LosesRoot
  <2>2. ~(Rebinds(s) /\ x = s.to)
    BY DEF Target
  <2>3. ~EffectiveRoots(Entry, x) \subseteq Lost(s)
    BY <1>2, <1>3, WithoutRoots
  <2> QED  BY <1>1, <1>3, <1>5, <2>1, <2>2, <2>3 DEF LeavesView
<1>6. CASE ~Takes(s) /\ s.kind # "pack"
  <2>1. s.kind = "call"
    BY <1>2, <1>6, OtherKinds
  <2>2. PICK l \in Gives(s) : r \in RootsOf(Now, l)
    BY <1>2, <1>6 DEF LostIn
  <2>3. PICK k \in DOMAIN s.args :
          l = s.args[k].local /\ AccessIn(Now, at[1], RunKey, s, k) = "move"
    BY <1>2, <1>6, <2>2 DEF GivesIn
  <2>4. l # x
    BY <1>1, <2>2, GivesLost
  <2>5. layout.last[l] > 0 /\ ~Expired(l, RunKey)
    BY <1>1, <2>2, UsedNow DEF Proceeds
  <2> HIDE DEF s
  <2>6. x # s.args[k].local /\ x \notin LostIn(Now, at[1], RunKey, s)
        /\ r \in RootsOf(Now, s.args[k].local)
        /\ layout.last[s.args[k].local] > 0 /\ ~Expired(s.args[k].local, RunKey)
        /\ AccessIn(Now, at[1], RunKey, s, k) # "SharedBorrow"
    BY <1>2, <1>4, <2>2, <2>3, <2>4, <2>5
  <2> QED  BY <1>2, <1>3, <2>1, <2>6, ArgumentAlone
<1> QED  BY <1>5, <1>6

\* A local bound as a view is written through, not bound anew.
LEMMA BoundLocals ==
    ASSUME Proceeds
    PROVE  /\ Target \in Locals => /\ Rebinds(RunStatement) /\ Target = RunStatement.to
           /\ Target \notin Locals =>
                /\ ~Rebinds(RunStatement) /\ Target = None
                /\ \A l \in Locals : l # Target
           /\ Rebinds(RunStatement) /\ RunStatement.kind \in {"assign", "pack"} =>
                DefinitelyUninit(Now[Target]) \/ Slotted(Now, Target)
           /\ ~Rebinds(RunStatement) /\ RunStatement.kind \in {"assign", "pack"} =>
                "alias" \in Now[RunStatement.to].mode
           /\ RunStatement.kind = "call" => Rebinds(RunStatement) \/ RunStatement.to = None
<1> DEFINE s == RunStatement
<1>1. AtStatement /\ WellFormed(s) /\ Now \in LocalsFunctions /\ None \notin Locals
      /\ RunPoint \in Points
  BY StatementHere, BindingsAssumption DEF Proceeds
<1>2. /\ s.to \in Locals \cup {None}
      /\ s.kind \in {"assign", "pack"} => s.to \in Locals
  BY <1>1, OtherKinds
<1>3. Rebinds(s) => s.to \in Locals
  BY <1>2 DEF Rebinds
<1>4. ASSUME s.kind \in {"assign", "pack"}, view[s.to] # 0, ~DefinitelyUninit(Now[s.to])
      PROVE  \E r \in Locals : HeldFrom(RunPoint, s.to, r)
  <2>1. s.to \in Locals /\ s.to \in Written(s)
    BY <1>1, <1>2, <1>4 DEF Written
  <2>2. s.to \in NeededAt(at[1], at[2])
    BY <1>1, <2>1, TouchedNow
  <2>3. Held(RunPoint, s.to)
    BY <1>4, <2>2 DEF Held, RunPoint
  <2> QED  BY <2>1, <2>3 DEF Proceeds, Owned, Owner
<1>5. ASSUME s.kind \in {"assign", "pack"}, Rebinds(s)
      PROVE  DefinitelyUninit(Now[s.to]) \/ Slotted(Now, s.to)
  <2>1. s.to \in Locals /\ s.to \in Written(s)
    BY <1>1, <1>2, <1>5 DEF Written
  <2>2. s.to \in NeededAt(at[1], at[2])
    BY <1>1, <2>1, TouchedNow
  <2>3. view[s.to] = 0 \/ s.to \notin viewing
    BY <1>5 DEF Rebinds
  <2>4. CASE view[s.to] = 0
    BY <2>2, <2>4 DEF Proceeds, Filled, RunPoint
  <2>5. CASE view[s.to] # 0 /\ ~DefinitelyUninit(Now[s.to])
    <3>1. PICK r \in Locals : HeldFrom(RunPoint, s.to, r)
      BY <1>4, <1>5, <2>5
    <3> QED  BY <2>3, <2>5, <3>1 DEF HeldFrom, RunPoint
  <2> QED  BY <2>4, <2>5
<1>6. ASSUME s.kind \in {"assign", "pack"}, ~Rebinds(s)
      PROVE  "alias" \in Now[s.to].mode
  <2>1. s.to \in Locals /\ view[s.to] # 0 /\ s.to \in viewing
    BY <1>2, <1>6 DEF Rebinds
  <2>2. ~DefinitelyUninit(Now[s.to])
    BY <2>1 DEF Proceeds, Aside, RunPoint
  <2>3. PICK r \in Locals : HeldFrom(RunPoint, s.to, r)
    BY <1>4, <1>6, <2>1, <2>2
  <2>4. r \in Now[s.to].roots
    BY <2>1, <2>3 DEF HeldFrom, RunPoint
  <2> QED  BY <1>1, <2>1, <2>4, SettledParts
<1>7. s.kind = "call" => Rebinds(s) \/ s.to = None
  BY DEF Rebinds
<1> QED  BY <1>1, <1>3, <1>5, <1>6, <1>7 DEF Target

\* The locals that the statement does not bind anew are what it leaves of them.
LEMMA ThenCovers ==
    ASSUME Proceeds, NEW x \in Locals, x # Target
    PROVE  Covers(Now, Lost(RunStatement), Then, x)
<1> DEFINE s == RunStatement
<1>1. /\ AtStatement /\ WellFormed(s) /\ Now \in LocalsFunctions
      /\ StatementPassed(at[1], RunKey, s, Now, Then)
      /\ Lost(s) = LostIn(Now, at[1], RunKey, s)
  BY StatementHere, RunDecides DEF Proceeds
<1>2. /\ Rebinds(s) => Target = s.to
      /\ ~Rebinds(s) /\ s.kind \in {"assign", "pack"} => "alias" \in Now[s.to].mode
      /\ s.kind = "call" => Rebinds(s) \/ s.to = None
      /\ None \notin Locals
  BY BoundLocals, BindingsAssumption DEF Target
<1>3. s.kind \in {"eval", "assign", "pack", "write", "call"}
  BY <1>1, OtherKinds
<1> SUFFICES Covers(Now, LostIn(Now, at[1], RunKey, s), Then, x)
  BY <1>1
<1> HIDE DEF s
<1>4. CASE x # s.to
  <2>1. Then[x] = Without(Now, LostIn(Now, at[1], RunKey, s))[x]
    BY <1>1, <1>4, OthersKept
  <2> QED  BY <2>1, CoversSame
<1>5. CASE x = s.to /\ s.kind \in {"write", "assign", "pack"}
  <2>1. s.to \in Locals
        /\ (s.kind = "write" \/ (s.kind \in {"assign", "pack"} /\ "alias" \in Now[s.to].mode))
    BY <1>2, <1>5
  <2> QED  BY <1>1, <1>5, <2>1, TargetKept
<1>6. CASE x = s.to /\ s.kind = "eval"
  <2>1. Then = Now /\ LostIn(Now, at[1], RunKey, s) = {}
    BY <1>1, <1>6, PassedMakes, OtherKinds
  <2> QED  BY <1>1, <2>1, WithoutNone, CoversSame
<1>7. CASE x = s.to /\ s.kind = "call"
  BY <1>2, <1>7
<1> QED  BY <1>3, <1>4, <1>5, <1>6, <1>7

\* The locals that end are those whose values go, and those that the checker
\* gave up.
LEMMA EndedWell ==
    ASSUME Proceeds, NEW x \in Locals, x # Target
    PROVE  /\ DefinitelyUninit(Then[x]) =>
                DefinitelyUninit(Now[x]) \/ x \in Ended(RunStatement)
           /\ x \in NeededAt(at[1], at[2] + 1) /\ ~DefinitelyUninit(Then[x])
                => x \notin Ended(RunStatement)
           /\ \A h \in Locals :
                /\ x \in Ended(RunStatement) /\ view[h] = view[x]
                /\ ~DefinitelyUninit(Without(Now, Lost(RunStatement))[x])
                => h \in Ended(RunStatement)
<1> DEFINE s == RunStatement
<1>1. /\ AtStatement /\ Now \in LocalsFunctions /\ RunPoint \in Points
      /\ RunPoint.locals = Now /\ RunPoint.view = view /\ Owned(RunPoint)
      /\ \A l, lost : Usable(l, lost) <=> ~DefinitelyUninit(Without(Now, lost)[l])
      /\ Covers(Now, Lost(s), Then, x)
  BY StatementHere, RunDecides, ThenCovers DEF Proceeds, RunPoint
<1>2. DefinitelyUninit(Then[x]) <=> ~Usable(x, Lost(s))
  BY <1>1 DEF Covers
<1>3. ASSUME ~Usable(x, Lost(s)) PROVE DefinitelyUninit(Now[x]) \/ x \in Ended(s)
  <2>1. CASE Lost(s) = {}
    BY <1>1, <1>3, <2>1, WithoutNone
  <2>2. CASE Lost(s) # {}
    BY <1>3, <2>2 DEF Ended
  <2> QED  BY <2>1, <2>2
<1>4. ASSUME x \in NeededAt(at[1], at[2] + 1), Usable(x, Lost(s)), x \in Ended(s)
      PROVE  FALSE
  <2>1. PICK l \in Gives(s) : view[x] = view[l]
    BY <1>4 DEF Ended
  <2>2. Held(RunPoint, l) /\ l \in Locals /\ view[l] # 0
    BY <1>1, <2>1, UsedNow DEF Proceeds
  <2>3. ~DefinitelyUninit(Now[x])
    <3>1. Covers(Now, Lost(s), Then, x) /\ ~DefinitelyUninit(Then[x])
      BY <1>1, <1>2, <1>4
    <3> QED  BY <1>1, <3>1, StillUninit
  <2>4. Held(RunPoint, x)
    BY <1>1, <1>4, <2>1, <2>2, <2>3, NeededLively DEF Held, RunPoint
  <2>5. PICK r \in Locals :
          /\ HeldFrom(RunPoint, x, r)
          /\ r \in RootsOf(Now, l) /\ r \in RootsOf(Now, x)
          /\ r \notin Temps => view[r] = view[x]
    <3>1. RunPoint.view[l] = RunPoint.view[x]
      BY <1>1, <2>1
    <3>2. \E r \in Locals :
             /\ Owner(RunPoint, r, RunPoint.view[x])
             /\ HeldFrom(RunPoint, l, r) /\ HeldFrom(RunPoint, x, r)
             /\ r \in RootsOf(RunPoint.locals, l) /\ r \in RootsOf(RunPoint.locals, x)
             /\ r \notin Temps => RunPoint.view[r] = RunPoint.view[x]
      BY <1>1, <2>2, <2>4, <3>1, SharedRoot
    <3> QED  BY <1>1, <3>2
  <2>6. x = r \/ r \in Now[x].roots
    BY <1>1, <2>5 DEF HeldFrom
  <2>7. r \in Lost(s)
    BY <1>1, <2>1, <2>5, GivesLost
  <2> QED  BY <1>4, <2>1, <2>2, <2>5, <2>6, <2>7, LostAlone
<1>5. ASSUME NEW h \in Locals, x \in Ended(s), view[h] = view[x], Usable(x, Lost(s))
      PROVE  h \in Ended(s)
  <2>1. PICK l \in Gives(s) : view[x] = view[l]
    BY <1>5 DEF Ended
  <2> QED  BY <1>5, <2>1 DEF Ended
<1> QED  BY <1>1, <1>2, <1>3, <1>4, <1>5

\* There is always a value that no local holds.
LEMMA NewValueWorks ==
    ASSUME view \in [Locals -> Nat]
    PROVE  /\ NewValue \in Nat /\ NewValue # 0
           /\ \A l \in Locals : view[l] # NewValue
<1> DEFINE n == Cardinality(Locals)
           values == 1 .. n + 1
<1>1. n \in Nat
  BY LocalsAssumption, FS_CardinalityType
<1>2. IsFiniteSet(values) /\ Cardinality(values) = n + 1
  BY <1>1, FS_Interval
<1>3. ASSUME \A v \in values : Holding(v) # {} PROVE FALSE
  <2> DEFINE f == [v \in values |-> CHOOSE l \in Locals : view[l] = v]
  <2>1. ASSUME NEW v \in values PROVE f[v] \in Locals /\ view[f[v]] = v
    <3>1. \E l \in Locals : view[l] = v
      BY <1>3 DEF Holding
    <3> QED  BY <3>1
  <2>2. f \in [values -> Locals]
    BY <2>1
  <2> HIDE DEF f, values
  <2>3. \E x, y \in values : x # y /\ f[x] = f[y]
    BY <1>1, <1>2, <2>2, LocalsAssumption, FS_PigeonHole
  <2> QED  BY <2>1, <2>3
<1>4. \E v \in values : Holding(v) = {}
  BY <1>3
<1>5. NewValue \in values /\ Holding(NewValue) = {}
  BY <1>4 DEF NewValue
<1> QED  BY <1>1, <1>5 DEF Holding

\* What a local is bound to: a value of its own, a view of what l holds, or the
\* value that it takes over.
FreshBinding(new) ==
    /\ new = [value |-> NewValue, through |-> {}]
    /\ Slotted(Then, Target) \/ DefinitelyUninit(Then[Target])

ViewBinding(new, l) ==
    /\ new = [value |-> view[l], through |-> {l} \cup above[l]]
    /\ Held(RunPoint, l) /\ layout.last[l] > 0 /\ ~Expired(l, RunKey)
    /\ RootsOf(Now, l) \subseteq Then[Target].roots
    /\ RootsOf(Now, l) \cap Lost(RunStatement) = {}
    /\ Target \in Temps /\ l # Target => Target \notin RootsOf(Now, l)
    /\ Target \notin Temps => RunStatement.kind = "assign"
    /\ \A g \in Gives(RunStatement) : view[g] # view[l]

TakenBinding(new) ==
    /\ new = [value |-> view[RunStatement.from], through |-> {}]
    /\ RunStatement.from \in Locals /\ Held(RunPoint, RunStatement.from)
    /\ Slotted(Then, Target)
    /\ RootsOf(Now, RunStatement.from) = Lost(RunStatement)

LEMMA AssignBindings ==
    ASSUME Proceeds, Rebinds(RunStatement), RunStatement.kind = "assign",
           NEW new \in Bindings(RunStatement)
    PROVE  FreshBinding(new) \/ TakenBinding(new) \/ \E l \in Locals : ViewBinding(new, l)
<1> DEFINE s == RunStatement
<1>1. /\ AtStatement /\ WellFormed(s) /\ Now \in LocalsFunctions
      /\ StatementPassed(at[1], RunKey, s, Now, Then)
      /\ Target = s.to /\ s.to \in Locals
      /\ DefinitelyUninit(Now[s.to]) \/ Slotted(Now, s.to)
      /\ ~RootsItself(s)
  BY StatementHere, BoundLocals, OtherKinds DEF Proceeds, Target
<1>2. /\ ViewedBy(Entry, s.from) = ViewedIn(Now, s)
      /\ Takes(s) <=> TakesIn(Now, at[1], RunKey, s)
      /\ Lost(s) = LostIn(Now, at[1], RunKey, s)
      /\ \A l : EffectiveRoots(Entry, l) = RootsOf(Now, l)
  BY <1>1, RunDecides
<1>3. new \in IF ViewedIn(Now, s) = {} THEN {[value |-> NewValue, through |-> {}]}
              ELSE IF Takes(s) THEN {[value |-> view[s.from], through |-> {}]}
              ELSE {[value |-> view[s.from], through |-> {s.from} \cup above[s.from]]}
  BY <1>2 DEF Bindings
<1>4. CASE ViewedIn(Now, s) = {}
  <2>1. Slotted(Then, Target) \/ DefinitelyUninit(Then[Target])
    BY <1>1, <1>4, TargetBound
  <2> QED  BY <1>3, <1>4, <2>1 DEF FreshBinding
<1>5. CASE ViewedIn(Now, s) # {}
  <2>1. s.from # None /\ ViewedIn(Now, s) = RootsOf(Now, s.from)
    BY <1>5 DEF ViewedIn, ViewedBy, EffectiveRoots
  <2>2. s.from \in Reads(s)
    BY <2>1 DEF Reads
  <2>3. /\ s.from \in Locals /\ Held(RunPoint, s.from)
        /\ layout.last[s.from] > 0 /\ ~Expired(s.from, RunKey)
    BY <1>1, <2>2, UsedNow DEF Proceeds
  <2>4. CASE Takes(s)
    <3>1. RootsOf(Now, s.from) = Lost(s)
      BY <1>1, <1>2, <2>4, OtherKinds
    <3>2. Slotted(Then, Target)
      BY <1>1, <1>2, <2>4, TargetBound
    <3> QED  BY <1>3, <1>5, <2>3, <2>4, <3>1, <3>2 DEF TakenBinding
  <2>5. CASE ~Takes(s)
    <3>1. Lost(s) = {}
      BY <1>1, <1>2, <2>5, OtherKinds
    <3>2. ViewedIn(Now, s) \subseteq Then[Target].roots
      BY <1>1, <1>2, <1>5, <2>5, TargetBound
    <3>3. DOMAIN s.args = {}
      BY <1>1, OtherKinds
    <3>4. Gives(s) = {}
      BY <3>3 DEF Gives, ArgumentsWith
    <3>5. Target \in Temps /\ s.from # Target => Target \notin RootsOf(Now, s.from)
      BY <1>1, <1>2, <2>1 DEF RootsItself
    <3>6. ViewBinding(new, s.from)
      BY <1>3, <1>5, <2>1, <2>3, <2>5, <3>1, <3>2, <3>4, <3>5 DEF ViewBinding
    <3> QED  BY <2>3, <3>6
  <2> QED  BY <2>4, <2>5
<1> QED  BY <1>4, <1>5

LEMMA CallBindings ==
    ASSUME Proceeds, Rebinds(RunStatement), RunStatement.kind = "call",
           NEW new \in Bindings(RunStatement)
    PROVE  FreshBinding(new) \/ \E l \in Locals : ViewBinding(new, l)
<1> DEFINE s == RunStatement
<1>1. /\ AtStatement /\ WellFormed(s) /\ Now \in LocalsFunctions
      /\ StatementPassed(at[1], RunKey, s, Now, Then)
      /\ Target = s.to /\ s.to # None /\ s.to \in Temps
      /\ ~RootsItself(s) /\ Filled(RunPoint)
      /\ FaultOf(s) = "none"
  BY StatementHere, BoundLocals DEF Proceeds, Target, Rebinds, WellFormed
<1>2. /\ Lost(s) = LostIn(Now, at[1], RunKey, s)
      /\ \A l : EffectiveRoots(Entry, l) = RootsOf(Now, l)
      /\ \A k \in DOMAIN s.args : AccessOf(s, k) = AccessIn(Now, at[1], RunKey, s, k)
      /\ Gives(s) = GivesIn(Now, at[1], RunKey, s)
  BY <1>1, RunDecides
<1>3. CASE s.ret = {}
  <2>1. Slotted(Then, Target)
    BY <1>1, <1>3, ResultBound
  <2> QED  BY <1>3, <2>1 DEF Bindings, FreshBinding
<1>4. CASE s.ret # {}
  <2>1. PICK k \in s.ret :
          new = [value |-> view[s.args[k].local],
                 through |-> {s.args[k].local} \cup above[s.args[k].local]]
    BY <1>4 DEF Bindings
  <2> DEFINE l == s.args[k].local
  <2>2. k \in DOMAIN s.args
    BY <1>1, CallFacts
  <2>3. l \in Locals /\ ~DefinitelyUninit(Now[l])
    BY <1>1, <2>2, ArgumentAccessed
  <2>4. l \in Loaded(s)
    BY <2>2 DEF Loaded
  <2>5. l \in NeededAt(at[1], at[2]) /\ layout.last[l] > 0 /\ ~Expired(l, RunKey)
    BY <1>1, <2>3, <2>4, TouchedNow
  <2>6. Held(RunPoint, l)
    BY <1>1, <2>3, <2>5 DEF Held, Filled, RunPoint
  <2>7. AccessIn(Now, at[1], RunKey, s, k) # "move"
    BY <1>1, <2>2, MovedApart
  <2>8. RootsOf(Now, l) \cap Lost(s) = {}
    <3>1. k \notin Moved(Now, at[1], RunKey, s, Len(s.args) + 1)
      BY <2>7 DEF Moved
    <3>2. Lost(s) = LostBefore(Now, at[1], RunKey, s, Len(s.args) + 1)
      BY <1>1, <1>2, CallLost
    <3> QED  BY <1>1, <2>2, <3>1, <3>2, LostApart
  <2>9. RootsOf(Now, l) \subseteq Then[Target].roots
    BY <1>1, ResultBound
  <2>10. ASSUME NEW g \in Gives(s), view[g] = view[l] PROVE FALSE
    <3>1. PICK j \in DOMAIN s.args :
            g = s.args[j].local /\ AccessIn(Now, at[1], RunKey, s, j) = "move"
      BY <1>1, <1>2, <2>10 DEF GivesIn
    <3>2. j # k /\ AccessOf(s, j) # "SharedBorrow"
      BY <1>2, <2>7, <3>1
    <3>3. ArgumentsClash(s)
      BY <2>2, <2>10, <3>1, <3>2 DEF ArgumentsClash
    <3> QED  BY <1>1, <3>3 DEF FaultOf
  <2>11. l # Target => Target \notin RootsOf(Now, l)
    BY <1>1, <1>2, <2>2 DEF RootsItself
  <2>12. ViewBinding(new, l)
    BY <1>1, <2>1, <2>5, <2>6, <2>8, <2>9, <2>10, <2>11 DEF ViewBinding
  <2> QED  BY <2>3, <2>12
<1> QED  BY <1>3, <1>4

LEMMA BindingCases ==
    ASSUME Proceeds, Rebinds(RunStatement), NEW new \in Bindings(RunStatement)
    PROVE  FreshBinding(new) \/ TakenBinding(new) \/ \E l \in Locals : ViewBinding(new, l)
<1> DEFINE s == RunStatement
<1>1. s.kind \in {"assign", "pack", "call"}
  BY DEF Rebinds
<1>2. CASE s.kind = "pack"
  <2>1. /\ AtStatement /\ WellFormed(s) /\ Now \in LocalsFunctions
        /\ StatementPassed(at[1], RunKey, s, Now, Then)
        /\ Target = s.to
        /\ DefinitelyUninit(Now[s.to]) \/ Slotted(Now, s.to)
    BY <1>2, StatementHere, BoundLocals DEF Proceeds, Target
  <2>2. Slotted(Then, Target) \/ DefinitelyUninit(Then[Target])
    BY <1>2, <2>1, TargetBound
  <2> QED  BY <1>2, <2>2 DEF Bindings, FreshBinding
<1> QED  BY <1>1, <1>2, AssignBindings, CallBindings

\* The point after the statement.
Following ==
    [locals |-> Then, need |-> NeededAt(at[1], at[2] + 1),
     view |-> view', viewing |-> viewing', above |-> above', stale |-> stale']

Stepping == Proceeds /\ Settle(RunStatement, Ended(RunStatement))

\* What the target of a statement is bound to.
LEMMA SettleBinds ==
    ASSUME Stepping, Target \in Locals
    PROVE  \E new \in Bindings(RunStatement) :
             /\ view'[Target] = new.value
             /\ Target \in viewing' <=> new.through # {}
             /\ above'[Target] = new.through \ {Target}
             /\ Target \notin stale'
             /\ view' = [l \in Locals |-> IF l = Target THEN new.value
                           ELSE IF l \in Ended(RunStatement) THEN 0 ELSE view[l]]
             /\ viewing' = (viewing \ (Ended(RunStatement) \cup {Target}))
                              \cup (IF new.through = {} THEN {} ELSE {Target})
             /\ above' = [l \in Locals |->
                   IF l = Target THEN new.through \ {Target}
                   ELSE IF l \in Ended(RunStatement) THEN {}
                   ELSE above[l] \ ((Ended(RunStatement) \ {Target})
                          \cup (IF new.value = view[Target] THEN {} ELSE {Target}))]
             /\ stale' = (stale \cup Staled(Reads(RunStatement), Writes(RunStatement)))
                            \ (Ended(RunStatement) \cup {Target})
<1>1. Rebinds(RunStatement) /\ Target = RunStatement.to
  BY BoundLocals DEF Stepping
<1> DEFINE s == RunStatement
           gone == Ended(s)
<1> HIDE DEF s, gone
<1>2. Settle(s, gone) /\ Rebinds(s) /\ Target = s.to
  BY <1>1 DEF Stepping, s, gone
<1>3. PICK new \in Bindings(s) :
        /\ view' = [l \in Locals |-> IF l = Target THEN new.value
                                     ELSE IF l \in gone THEN 0 ELSE view[l]]
        /\ viewing' = (viewing \ (gone \cup {Target}))
                         \cup (IF new.through = {} THEN {} ELSE {Target})
        /\ above' = [l \in Locals |->
                       IF l = Target THEN new.through \ {Target}
                       ELSE IF l \in gone THEN {}
                       ELSE above[l] \ ((gone \ {Target})
                              \cup (IF new.value = view[Target] THEN {} ELSE {Target}))]
        /\ stale' = (stale \cup Staled(Reads(s), Writes(s))) \ (gone \cup {Target})
  BY <1>2 DEF Settle
<1>4. /\ view'[Target] = new.value
      /\ Target \in viewing' <=> new.through # {}
      /\ above'[Target] = new.through \ {Target}
      /\ Target \notin stale'
  BY <1>3
<1> QED  BY <1>3, <1>4 DEF s, gone

LEMMA SettleKeeps ==
    ASSUME Stepping, Target \notin Locals
    PROVE  /\ view' = [l \in Locals |-> IF l \in Ended(RunStatement) THEN 0 ELSE view[l]]
           /\ viewing' = viewing \ Ended(RunStatement)
           /\ above' = [l \in Locals |-> IF l \in Ended(RunStatement) THEN {}
                                         ELSE above[l] \ Ended(RunStatement)]
           /\ stale' = (stale \cup Staled(Reads(RunStatement), Writes(RunStatement)))
                          \ Ended(RunStatement)
<1>1. ~Rebinds(RunStatement)
  BY BoundLocals DEF Stepping
<1> QED  BY <1>1 DEF Stepping, Settle

LEMMA BindingTypes ==
    ASSUME Proceeds, Rebinds(RunStatement), NEW new \in Bindings(RunStatement)
    PROVE  new.value \in Nat /\ new.value # 0 /\ new.through \subseteq Locals
<1>1. view \in [Locals -> Nat] /\ above \in [Locals -> SUBSET Locals]
  BY DEF Proceeds, AtStatement, InBlock, RunTypes
<1>2. ASSUME FreshBinding(new)
      PROVE  new.value \in Nat /\ new.value # 0 /\ new.through \subseteq Locals
  BY <1>1, <1>2, NewValueWorks DEF FreshBinding
<1>3. ASSUME TakenBinding(new)
      PROVE  new.value \in Nat /\ new.value # 0 /\ new.through \subseteq Locals
  BY <1>1, <1>3 DEF TakenBinding, Held, RunPoint
<1>4. ASSUME NEW l \in Locals, ViewBinding(new, l)
      PROVE  new.value \in Nat /\ new.value # 0 /\ new.through \subseteq Locals
  BY <1>1, <1>4 DEF ViewBinding, Held, RunPoint
<1> QED  BY <1>2, <1>3, <1>4, BindingCases

LEMMA FollowingTypes ==
    ASSUME Stepping
    PROVE  /\ Following \in Points
           /\ view' \in [Locals -> Nat] /\ viewing' \subseteq Locals /\ stale' \subseteq Locals
           /\ above' \in [Locals -> SUBSET Locals]
<1>1. /\ view \in [Locals -> Nat] /\ above \in [Locals -> SUBSET Locals]
      /\ viewing \subseteq Locals /\ stale \subseteq Locals
      /\ Then \in LocalsFunctions
  BY StatementHere DEF Stepping, Proceeds, AtStatement, InBlock, RunTypes
<1>2. Staled(Reads(RunStatement), Writes(RunStatement)) \subseteq Locals
  BY DEF Staled
<1>3. /\ view' \in [Locals -> Nat] /\ viewing' \subseteq Locals /\ stale' \subseteq Locals
      /\ above' \in [Locals -> SUBSET Locals]
  <2>1. CASE Target \in Locals
    <3>1. Rebinds(RunStatement)
      BY <2>1, BoundLocals DEF Stepping
    <3> DEFINE gone == Ended(RunStatement)
    <3> HIDE DEF gone
    <3>2. PICK new \in Bindings(RunStatement) :
             /\ view' = [l \in Locals |-> IF l = Target THEN new.value
                           ELSE IF l \in gone THEN 0 ELSE view[l]]
             /\ viewing' = (viewing \ (gone \cup {Target}))
                              \cup (IF new.through = {} THEN {} ELSE {Target})
             /\ above' = [l \in Locals |->
                   IF l = Target THEN new.through \ {Target}
                   ELSE IF l \in gone THEN {}
                   ELSE above[l] \ ((gone \ {Target})
                          \cup (IF new.value = view[Target] THEN {} ELSE {Target}))]
             /\ stale' = (stale \cup Staled(Reads(RunStatement), Writes(RunStatement)))
                            \ (gone \cup {Target})
      BY <2>1, SettleBinds DEF gone
    <3>3. new.value \in Nat /\ new.through \subseteq Locals
      BY <3>1, BindingTypes DEF Stepping
    <3> QED  BY <1>1, <1>2, <2>1, <3>2, <3>3
  <2>2. CASE Target \notin Locals
    BY <1>1, <1>2, <2>2, SettleKeeps
  <2> QED  BY <2>1, <2>2
<1> QED  BY <1>1, <1>3 DEF Following, Points, NeededAt

LEMMA SettleCarries ==
    ASSUME Stepping
    PROVE  Carries(RunPoint, Following, Lost(RunStatement), Ended(RunStatement), Target)
<1> DEFINE s == RunStatement
           gone == Ended(s)
           q == Following
<1>1. NeededAt(at[1], at[2] + 1) \subseteq NeededAt(at[1], at[2])
  BY NeededLively DEF Stepping, Proceeds
<1>2. ASSUME NEW x \in Locals, x # Target
      PROVE  /\ Covers(Now, Lost(s), Then, x)
             /\ DefinitelyUninit(Then[x]) => DefinitelyUninit(Now[x]) \/ x \in gone
             /\ x \in NeededAt(at[1], at[2] + 1) /\ ~DefinitelyUninit(Then[x]) => x \notin gone
  BY <1>2, ThenCovers, EndedWell DEF Stepping
<1>3. ASSUME NEW x \in Locals, x # Target
      PROVE  /\ view'[x] = IF x \in gone THEN 0 ELSE view[x]
             /\ x \in viewing' <=> x \in viewing /\ x \notin gone
             /\ x \in stale' => x \notin gone
             /\ x \notin gone => \A r \in above[x] :
                  view'[r] = view[r] /\ view'[r] # 0 => r \in above'[x]
  <2>1. above \in [Locals -> SUBSET Locals] /\ view \in [Locals -> Nat]
    BY DEF Stepping, Proceeds, AtStatement, InBlock, RunTypes
  <2> HIDE DEF gone
  <2>2. CASE Target \in Locals
    <3>1. PICK new \in Bindings(RunStatement) :
             /\ view' = [l \in Locals |-> IF l = Target THEN new.value
                           ELSE IF l \in gone THEN 0 ELSE view[l]]
             /\ viewing' = (viewing \ (gone \cup {Target}))
                              \cup (IF new.through = {} THEN {} ELSE {Target})
             /\ above' = [l \in Locals |->
                   IF l = Target THEN new.through \ {Target}
                   ELSE IF l \in gone THEN {}
                   ELSE above[l] \ ((gone \ {Target})
                          \cup (IF new.value = view[Target] THEN {} ELSE {Target}))]
             /\ stale' = (stale \cup Staled(Reads(RunStatement), Writes(RunStatement)))
                            \ (gone \cup {Target})
      BY <2>2, SettleBinds DEF gone
    <3> QED  BY <1>3, <2>1, <3>1
  <2>3. CASE Target \notin Locals
    <3>1. /\ view' = [l \in Locals |-> IF l \in gone THEN 0 ELSE view[l]]
          /\ viewing' = viewing \ gone
          /\ above' = [l \in Locals |-> IF l \in gone THEN {} ELSE above[l] \ gone]
          /\ stale' = (stale \cup Staled(Reads(s), Writes(s))) \ gone
      BY <2>3, SettleKeeps DEF gone
    <3> QED  BY <2>1, <3>1
  <2> QED  BY <2>2, <2>3
<1>4. /\ RunPoint.locals = Now /\ RunPoint.need = NeededAt(at[1], at[2])
      /\ RunPoint.view = view /\ RunPoint.viewing = viewing /\ RunPoint.above = above
      /\ q.locals = Then /\ q.need = NeededAt(at[1], at[2] + 1)
      /\ q.view = view' /\ q.viewing = viewing' /\ q.above = above' /\ q.stale = stale'
  BY DEF RunPoint, Following
<1> HIDE DEF gone, q, s
<1>5. Carries(RunPoint, q, Lost(s), gone, Target)
  BY <1>1, <1>2, <1>3, <1>4 DEF Carries
<1> QED  BY <1>5 DEF s, gone, q

\* The root of a value that is in use is not bound anew.
LEMMA RootNotBound ==
    ASSUME Proceeds, Target \notin Temps, NEW r, r = Target, Target \in Locals,
           r \in RootsOf(Now, r), NEW x \in Locals, x # Target, r \in Now[x].roots,
           RunStatement.kind \in {"assign", "pack"},
           Lively(at[1], RunKey, x, Target)
    PROVE  FALSE
<1> DEFINE s == RunStatement
<1>1. /\ WellFormed(s) /\ Now \in LocalsFunctions
      /\ StatementPassed(at[1], RunKey, s, Now, Then)
      /\ Target = s.to
  BY StatementHere, BoundLocals DEF Proceeds
<1>2. ~DefinitelyUninit(Now[s.to])
  BY <1>1, SettledParts
<1> QED  BY <1>1, <1>2, WriteAlone

LEMMA FollowingFilled ==
    ASSUME Stepping
    PROVE  Filled(Following)
<1>1. Target \in Locals => Following.view[Target] # 0
  <2> SUFFICES ASSUME Target \in Locals PROVE view'[Target] # 0
    BY DEF Following
  <2>1. Rebinds(RunStatement) /\ Proceeds
    BY BoundLocals DEF Stepping
  <2>2. PICK new \in Bindings(RunStatement) : view'[Target] = new.value
    BY SettleBinds
  <2> QED  BY <2>1, <2>2, BindingTypes
<1>2. RunPoint \in Points /\ Following \in Points /\ Filled(RunPoint)
  BY FollowingTypes, StatementHere DEF Stepping, Proceeds
<1> QED  BY <1>1, <1>2, SettleCarries, FilledStep

\* What the target is bound to, and that nobody else holds it where it is a
\* value of its own.
LEMMA TargetCases ==
    ASSUME Stepping, Target \in Locals
    PROVE  \E new \in Bindings(RunStatement) :
             /\ view'[Target] = new.value
             /\ Target \in viewing' <=> new.through # {}
             /\ above'[Target] = new.through \ {Target}
             /\ \/ FreshBinding(new) /\ \A h \in Locals : h # Target => view'[h] # view'[Target]
                \/ TakenBinding(new)
                \/ \E l \in Locals : ViewBinding(new, l)
<1>1. Rebinds(RunStatement) /\ Proceeds /\ view \in [Locals -> Nat]
  BY BoundLocals DEF Stepping, Proceeds, AtStatement, InBlock, RunTypes
<1> DEFINE gone == Ended(RunStatement)
<1> HIDE DEF gone
<1>2. PICK new \in Bindings(RunStatement) :
        /\ view'[Target] = new.value
        /\ Target \in viewing' <=> new.through # {}
        /\ above'[Target] = new.through \ {Target}
        /\ view' = [l \in Locals |-> IF l = Target THEN new.value
                      ELSE IF l \in gone THEN 0 ELSE view[l]]
  BY SettleBinds DEF gone
<1>3. ASSUME FreshBinding(new), NEW h \in Locals, h # Target
      PROVE  view'[h] # view'[Target]
  <2>1. new.value = NewValue
    BY <1>3 DEF FreshBinding
  <2>2. view'[h] = 0 \/ view'[h] = view[h]
    BY <1>2, <1>3
  <2> QED  BY <1>1, <1>2, <1>3, <2>1, <2>2, NewValueWorks
<1>4. FreshBinding(new) \/ TakenBinding(new) \/ \E l \in Locals : ViewBinding(new, l)
  BY <1>1, <1>2, BindingCases
<1> QED  BY <1>2, <1>3, <1>4

LEMMA FollowingAside ==
    ASSUME Stepping
    PROVE  Aside(Following)
<1> DEFINE s == RunStatement
<1>1. /\ Proceeds /\ Aside(RunPoint) /\ RunPoint \in Points /\ Following \in Points
      /\ Now \in LocalsFunctions /\ Then \in LocalsFunctions
      /\ view \in [Locals -> Nat] /\ AtStatement /\ Filled(RunPoint)
  BY FollowingTypes, StatementHere DEF Stepping, Proceeds, AtStatement, InBlock, RunTypes
<1>2. /\ RunPoint.locals = Now /\ RunPoint.view = view /\ RunPoint.stale = stale
      /\ Following.locals = Then /\ Following.view = view'
      /\ Following.viewing = viewing' /\ Following.stale = stale'
  BY DEF RunPoint, Following
<1>3. ASSUME NEW x \in stale', x # Target
      PROVE  x \in stale \/ \E l \in Locals : l # x /\ view[l] = view[x]
  <2>1. x \in stale \/ x \in Staled(Reads(s), Writes(s))
    BY <1>1, <1>3, SettleBinds, SettleKeeps
  <2>2. ASSUME x \in Staled(Reads(s), Writes(s))
        PROVE  \E l \in Locals : l # x /\ view[l] = view[x]
    <3>1. PICK l \in Reads(s) \cup Writes(s) : Disturbs(l, Writes(s), x)
      BY <2>2 DEF Staled
    <3>2. l \in Locals
      BY <1>1, UsedNow
    <3> QED  BY <3>1, <3>2 DEF Disturbs
  <2> QED  BY <2>1, <2>2
<1>4. ASSUME Target \in Locals, NEW x \in Locals, x # Target,
             DefinitelyUninit(Now[x]), view[x] # 0
      PROVE  view'[Target] # view[x]
  <2>1. PICK new \in Bindings(s) :
          /\ view'[Target] = new.value
          /\ \/ FreshBinding(new)
             \/ TakenBinding(new)
             \/ \E l \in Locals : ViewBinding(new, l)
    BY <1>4, TargetCases
  <2>2. CASE FreshBinding(new)
    BY <1>1, <2>1, <2>2, NewValueWorks DEF FreshBinding
  <2>3. \A l \in Locals : Held(RunPoint, l) => view[l] # view[x]
    BY <1>1, <1>2, <1>4 DEF Aside, Held
  <2>4. CASE TakenBinding(new)
    BY <2>1, <2>3, <2>4 DEF TakenBinding
  <2>5. CASE \E l \in Locals : ViewBinding(new, l)
    BY <2>1, <2>3, <2>5 DEF ViewBinding
  <2> QED  BY <2>1, <2>2, <2>4, <2>5
<1>5. ASSUME Target \in Locals, DefinitelyUninit(Then[Target])
      PROVE  /\ Target \notin viewing' /\ Target \notin stale'
             /\ \A h \in Locals : h # Target => view'[h] # view'[Target]
  <2>1. Target \notin stale'
    BY <1>5, SettleBinds
  <2>2. PICK new \in Bindings(s) :
          /\ Target \in viewing' <=> new.through # {}
          /\ \/ FreshBinding(new) /\ \A h \in Locals : h # Target => view'[h] # view'[Target]
             \/ TakenBinding(new)
             \/ \E l \in Locals : ViewBinding(new, l)
    BY <1>5, TargetCases
  <2>3. ~TakenBinding(new)
    BY <1>1, <1>5, SettledParts DEF TakenBinding
  <2>4. ASSUME NEW l \in Locals, ViewBinding(new, l) PROVE FALSE
    <3>1. RootsOf(Now, l) \subseteq Then[Target].roots /\ ~DefinitelyUninit(Now[l])
      BY <1>2, <2>4 DEF ViewBinding, Held
    <3>2. RootsOf(Now, l) # {} /\ Then[Target].roots = {}
      BY <1>1, <1>5, <3>1, SettledParts
    <3> QED  BY <3>1, <3>2
  <2>5. FreshBinding(new)
    BY <2>2, <2>3, <2>4
  <2>6. Target \notin viewing'
    BY <2>2, <2>5 DEF FreshBinding
  <2> QED  BY <2>1, <2>2, <2>3, <2>4, <2>6
<1>6. /\ \A x \in Following.stale : x # Target =>
           x \in RunPoint.stale \/ \E l \in Locals : l # x /\ RunPoint.view[l] = RunPoint.view[x]
      /\ Target \in Locals =>
           \A x \in Locals : x # Target /\ DefinitelyUninit(RunPoint.locals[x]) /\ RunPoint.view[x] # 0
                               => Following.view[Target] # RunPoint.view[x]
      /\ Target \in Locals /\ DefinitelyUninit(Following.locals[Target]) =>
           /\ Target \notin Following.viewing /\ Target \notin Following.stale
           /\ \A h \in Locals : h # Target => Following.view[h] # Following.view[Target]
  BY <1>2, <1>3, <1>4, <1>5
<1>7. Carries(RunPoint, Following, Lost(s), Ended(s), Target)
  BY SettleCarries
<1> HIDE DEF s
<1> QED  BY <1>1, <1>6, <1>7, AsideStep

LEMMA FreshOwner ==
    ASSUME Stepping, Target \in Locals,
           Target \notin viewing', Slotted(Then, Target) \/ DefinitelyUninit(Then[Target]),
           \A h \in Locals : h # Target => view'[h] # view'[Target],
           NEW x \in Locals, Held(Following, x), view'[x] = view'[Target]
    PROVE  Owner(Following, Target, view'[Target])
<1>1. x = Target /\ ~DefinitelyUninit(Then[Target])
  BY DEF Held, Following
<1>2. Slotted(Then, Target) /\ Then \in LocalsFunctions
  BY <1>1, StatementHere DEF Stepping, Proceeds
<1>3. Target \in RootsOf(Then, Target)
  BY <1>2, SettledParts
<1>4. ASSUME NEW h \in Locals, view'[h] = view'[Target] PROVE HeldFrom(Following, h, Target)
  BY <1>2, <1>4 DEF HeldFrom, Following
<1> QED  BY <1>3, <1>4 DEF Owner, Following

\* A value that is taken over leaves no view of it in use.
LEMMA TakenOwner ==
    ASSUME Stepping, Target \in Locals, NEW new, TakenBinding(new), new.through = {},
           view'[Target] = new.value, Target \notin viewing'
    PROVE  Owner(Following, Target, view'[Target])
<1> DEFINE s == RunStatement
<1>1. /\ Proceeds /\ AtStatement /\ Owned(RunPoint)
      /\ RunPoint \in Points /\ Following \in Points
      /\ Now \in LocalsFunctions /\ Then \in LocalsFunctions
      /\ Carries(RunPoint, Following, Lost(s), Ended(s), Target)
  BY FollowingTypes, StatementHere, SettleCarries DEF Stepping, Proceeds
<1>2. /\ RunPoint.locals = Now /\ RunPoint.view = view
      /\ Following.locals = Then /\ Following.view = view' /\ Following.viewing = viewing'
      /\ Following.need = NeededAt(at[1], at[2] + 1)
  BY DEF RunPoint, Following
<1>3. /\ s.from \in Locals /\ Held(RunPoint, s.from)
      /\ Slotted(Then, Target) /\ RootsOf(Now, s.from) = Lost(s)
      /\ view'[Target] = view[s.from]
  BY DEF TakenBinding
<1>4. Target \in RootsOf(Then, Target)
  BY <1>1, <1>3, SettledParts
<1>5. ASSUME NEW h \in Locals, h # Target, Held(Following, h), view'[h] = view'[Target]
      PROVE  FALSE
  <2>1. Held(RunPoint, h) /\ Following.view[h] = RunPoint.view[h]
    BY <1>1, <1>5, StillHeld
  <2>2. view[s.from] = view[h] /\ RunPoint.view[s.from] = RunPoint.view[h]
    BY <1>2, <1>3, <1>5, <2>1
  <2>3. PICK r \in Locals :
          /\ HeldFrom(RunPoint, h, r)
          /\ r \in RootsOf(Now, s.from) /\ r \in RootsOf(Now, h)
          /\ r \notin Temps => view[r] = view[h]
    <3>1. \E r \in Locals :
             /\ Owner(RunPoint, r, RunPoint.view[h])
             /\ HeldFrom(RunPoint, s.from, r) /\ HeldFrom(RunPoint, h, r)
             /\ r \in RootsOf(RunPoint.locals, s.from) /\ r \in RootsOf(RunPoint.locals, h)
             /\ r \notin Temps => RunPoint.view[r] = RunPoint.view[h]
      BY <1>1, <1>3, <2>1, <2>2, SharedRoot
    <3> QED  BY <1>2, <3>1
  <2>4. h = r \/ r \in Now[h].roots
    BY <1>2, <2>3 DEF HeldFrom
  <2>5. h \in NeededAt(at[1], at[2] + 1) /\ ~DefinitelyUninit(Then[h])
    BY <1>2, <1>5 DEF Held
  <2>6. Usable(h, Lost(s))
    <3>1. Covers(Now, Lost(s), Then, h)
      BY <1>1, <1>5, ThenCovers
    <3> QED  BY <1>1, <2>5, <3>1, RunDecides DEF Covers
  <2>7. view[h] # 0
    BY <1>2, <2>1 DEF Held
  <2> QED  BY <1>1, <1>3, <1>5, <2>3, <2>4, <2>5, <2>6, <2>7, LostAlone
<1>6. ASSUME NEW h \in Locals, Held(Following, h), view'[h] = view'[Target]
      PROVE  HeldFrom(Following, h, Target)
  <2>1. h = Target
    BY <1>5, <1>6
  <2> QED  BY <1>2, <1>3, <2>1 DEF HeldFrom
<1> QED  BY <1>2, <1>4, <1>6 DEF Owner

\* A view has the root of what it views.
LEMMA ViewOwner ==
    ASSUME Stepping, Target \in Locals, NEW new, NEW l \in Locals, ViewBinding(new, l),
           view'[Target] = new.value, Target \in viewing',
           above'[Target] = new.through \ {Target}
    PROVE  \E r \in Locals : Owner(Following, r, view'[Target])
<1> DEFINE s == RunStatement
           v == view[l]
<1>1. /\ Proceeds /\ AtStatement /\ Owned(RunPoint)
      /\ RunPoint \in Points /\ Following \in Points
      /\ Now \in LocalsFunctions /\ Then \in LocalsFunctions
      /\ Carries(RunPoint, Following, Lost(s), Ended(s), Target)
      /\ above \in [Locals -> SUBSET Locals]
  BY FollowingTypes, StatementHere, SettleCarries
     DEF Stepping, Proceeds, AtStatement, InBlock, RunTypes
<1>2. /\ RunPoint.locals = Now /\ RunPoint.view = view
      /\ RunPoint.viewing = viewing /\ RunPoint.above = above
      /\ Following.locals = Then /\ Following.view = view' /\ Following.viewing = viewing'
      /\ Following.above = above'
  BY DEF RunPoint, Following
<1>3. /\ view'[Target] = v /\ above'[Target] = ({l} \cup above[l]) \ {Target}
      /\ Held(RunPoint, l) /\ v # 0
      /\ layout.last[l] > 0 /\ ~Expired(l, RunKey)
      /\ RootsOf(Now, l) \subseteq Then[Target].roots
      /\ RootsOf(Now, l) \cap Lost(s) = {}
      /\ Target \in Temps /\ l # Target => Target \notin RootsOf(Now, l)
      /\ Target \notin Temps => s.kind = "assign"
      /\ \A g \in Gives(s) : view[g] # v
  BY <1>2 DEF ViewBinding, Held
<1>4. PICK r \in Locals : Owner(RunPoint, r, v)
  BY <1>1, <1>2, <1>3 DEF Owned
<1>5. HeldFrom(RunPoint, l, r) /\ (r \notin Temps => view[r] = v /\ r \in RootsOf(Now, r))
  BY <1>2, <1>3, <1>4 DEF Owner
<1>6. /\ r \in RootsOf(Now, l) /\ r \in Then[Target].roots
      /\ r \notin Lost(s)
      /\ l = r \/ r \in Now[l].roots
  <2>1. (l = r /\ Slotted(Now, l)) \/ r \in Now[l].roots
    BY <1>2, <1>5 DEF HeldFrom
  <2>2. r \in RootsOf(Now, l)
    BY <1>1, <2>1, SettledParts
  <2> QED  BY <1>3, <2>1, <2>2
<1>7. r = Target => l = Target
  <2> SUFFICES ASSUME r = Target, l # Target PROVE FALSE
    OBVIOUS
  <2>1. r \notin Temps /\ Target \notin Temps
    BY <1>3, <1>6
  <2>2. r \in Now[l].roots
    BY <1>6
  <2>3. Lively(at[1], RunKey, l, Target)
    BY <1>3 DEF Lively
  <2> QED  BY <1>1, <1>3, <1>5, <2>1, <2>2, <2>3, RootNotBound
<1>8. view'[r] = v => view[r] = v
  <2>1. r # Target => view'[r] = 0 \/ view'[r] = view[r]
    BY <1>1, <1>2 DEF Carries
  <2>2. r = Target => view[r] = v
    BY <1>7
  <2> QED  BY <1>3, <2>1, <2>2
<1>9. ASSUME r \notin Temps PROVE view'[r] = v /\ r \in RootsOf(Then, r)
  <2>1. CASE r = Target
    <3>1. r \in RootsOf(Then, r)
      BY <1>1, <1>6, <2>1, RootIsHeld
    <3> QED  BY <1>3, <2>1, <3>1
  <2>2. CASE r # Target
    <3>1. r \in RootsOf(Then, r) /\ ~DefinitelyUninit(Without(Now, Lost(s))[r])
      BY <1>1, <1>2, <1>5, <1>6, <1>9, <2>2, RootStays
    <3>2. r \notin Ended(s)
      <4>1. Usable(r, Lost(s))
        BY <1>1, <3>1, RunDecides
      <4>2. \A g \in Gives(s) : view[r] # view[g]
        BY <1>3, <1>5, <1>9
      <4> QED  BY <4>1, <4>2 DEF Ended
    <3>3. view'[r] = view[r]
      BY <1>1, <1>2, <2>2, <3>2 DEF Carries
    <3> QED  BY <1>5, <1>9, <3>1, <3>3
  <2> QED  BY <2>1, <2>2
<1>10. HeldFrom(Following, Target, r)
  <2>1. ASSUME Target # r, view'[r] = view'[Target] PROVE r \in above'[Target]
    <3>1. view[r] = v
      BY <1>3, <1>8, <2>1
    <3>2. r = l \/ r \in above[l]
      BY <1>2, <1>5, <3>1 DEF HeldFrom
    <3> QED  BY <1>3, <2>1, <3>2
  <2> QED  BY <1>2, <1>6, <2>1 DEF HeldFrom
<1>11. Owner(Following, r, v)
  <2>1. /\ r \notin Temps => Following.view[r] = v /\ r \in RootsOf(Following.locals, r)
        /\ Target \in Locals /\ Held(Following, Target) /\ Following.view[Target] = v
             => HeldFrom(Following, Target, r)
        /\ Following.view[r] = v => RunPoint.view[r] = v
    BY <1>2, <1>8, <1>9, <1>10
  <2> HIDE DEF s, v
  <2> QED  BY <1>1, <1>3, <1>4, <1>6, <2>1, OwnerKept
<1> QED  BY <1>3, <1>11

LEMMA FollowingOwned ==
    ASSUME Stepping
    PROVE  Owned(Following)
<1> DEFINE s == RunStatement
           gone == Ended(s)
<1>1. /\ Proceeds /\ AtStatement /\ Owned(RunPoint)
      /\ RunPoint \in Points /\ Following \in Points
      /\ Now \in LocalsFunctions /\ Then \in LocalsFunctions
      /\ Carries(RunPoint, Following, Lost(s), gone, Target)
  BY FollowingTypes, StatementHere, SettleCarries DEF Stepping, Proceeds
<1>2. /\ RunPoint.locals = Now /\ RunPoint.view = view
      /\ Following.locals = Then /\ Following.view = view' /\ Following.viewing = viewing'
      /\ Following.need = NeededAt(at[1], at[2] + 1)
  BY DEF RunPoint, Following
<1>3. ASSUME NEW x \in NeededAt(at[1], at[2] + 1), NEW r \in Now[x].roots,
             x # Target, ~DefinitelyUninit(Then[x]), view[x] # 0,
             r \in Temps \/ view[r] = view[x], r \in Lost(s)
      PROVE  FALSE
  <2>1. x \in Locals /\ r \in RootsOf(Now, x)
    BY <1>1, NeededLively, RootIsHeld
  <2>2. Covers(Now, Lost(s), Then, x)
    BY <1>1, <1>3, <2>1, ThenCovers
  <2>3. Usable(x, Lost(s))
    BY <1>1, <1>3, <2>2, RunDecides DEF Covers
  <2> QED  BY <1>1, <1>3, <2>1, <2>3, LostAlone
<1>4. ASSUME NEW x \in Locals, NEW h \in Locals, x # Target, x \in gone, view[h] = view[x],
             ~DefinitelyUninit(Without(Now, Lost(s))[x])
      PROVE  h \in gone
  BY <1>1, <1>4, EndedWell
<1>5. ASSUME Target \in Locals \ Temps, Target \in RootsOf(Now, Target),
             NEW x \in NeededAt(at[1], at[2] + 1), x # Target, Target \in Now[x].roots
      PROVE  FALSE
  <2>1. x \in Locals /\ Lively(at[1], RunKey, x, Target)
    BY <1>1, <1>5, NeededLively
  <2>2. s.kind \in {"assign", "pack"}
    <3>1. Rebinds(s) /\ Target = s.to /\ WellFormed(s)
      BY <1>1, <1>5, BoundLocals, StatementHere
    <3>2. s.kind \in {"assign", "pack", "call"}
      BY <3>1 DEF Rebinds
    <3> QED  BY <1>5, <3>1, <3>2, BindingsAssumption DEF WellFormed
  <2> QED  BY <1>1, <1>5, <2>1, <2>2, RootNotBound
<1>6. ASSUME Target \in Locals, NEW x \in Locals, Held(Following, x), view'[x] = view'[Target]
      PROVE  \E r \in Locals : Owner(Following, r, view'[Target])
  <2>1. PICK new \in Bindings(s) :
          /\ view'[Target] = new.value
          /\ Target \in viewing' <=> new.through # {}
          /\ above'[Target] = new.through \ {Target}
          /\ \/ FreshBinding(new) /\ \A h \in Locals : h # Target => view'[h] # view'[Target]
             \/ TakenBinding(new)
             \/ \E l \in Locals : ViewBinding(new, l)
    BY <1>6, TargetCases
  <2>2. CASE FreshBinding(new) /\ \A h \in Locals : h # Target => view'[h] # view'[Target]
    <3>1. /\ Target \notin viewing'
          /\ Slotted(Then, Target) \/ DefinitelyUninit(Then[Target])
      BY <2>1, <2>2 DEF FreshBinding
    <3>2. Owner(Following, Target, view'[Target])
      BY <1>6, <2>2, <3>1, FreshOwner
    <3> QED  BY <1>6, <3>2
  <2>3. CASE TakenBinding(new)
    <3>1. new.through = {} /\ Target \notin viewing'
      BY <2>1, <2>3 DEF TakenBinding
    <3>2. Owner(Following, Target, view'[Target])
      BY <1>6, <2>1, <2>3, <3>1, TakenOwner
    <3> QED  BY <1>6, <3>2
  <2>4. ASSUME NEW l \in Locals, ViewBinding(new, l)
        PROVE  \E r \in Locals : Owner(Following, r, view'[Target])
    <3>1. new.through # {}
      BY <2>4 DEF ViewBinding
    <3> QED  BY <1>6, <2>1, <2>4, <3>1, ViewOwner
  <2> QED  BY <2>1, <2>2, <2>3, <2>4
<1> HIDE DEF gone, s
<1>7. /\ \A x \in Following.need : \A r \in RunPoint.locals[x].roots :
           /\ x # Target /\ ~DefinitelyUninit(Following.locals[x]) /\ RunPoint.view[x] # 0
           /\ r \in Temps \/ RunPoint.view[r] = RunPoint.view[x]
           => r \notin Lost(s)
      /\ \A x, h \in Locals :
           /\ x # Target /\ h # Target /\ x \in gone
           /\ RunPoint.view[h] = RunPoint.view[x]
           /\ ~DefinitelyUninit(Without(RunPoint.locals, Lost(s))[x])
           => h \in gone
      /\ Target \in Locals \ Temps /\ Target \in RootsOf(RunPoint.locals, Target) =>
           \A x \in Following.need : x # Target /\ ~DefinitelyUninit(Following.locals[x])
                               => Target \notin RunPoint.locals[x].roots
      /\ Target \in Locals
           /\ (\E h \in Locals : Held(Following, h) /\ Following.view[h] = Following.view[Target]) =>
           \E r \in Locals : Owner(Following, r, Following.view[Target])
  BY <1>2, <1>3, <1>4, <1>5, <1>6
<1> QED  BY <1>1, <1>7, OwnedStep

\* An access leaves no view in use stale, except one that a temporary overlooks.
LEMMA StaledAlone ==
    ASSUME Proceeds, ~Overlooks(Reads(RunStatement), Writes(RunStatement), RunKey),
           NEW x \in Staled(Reads(RunStatement), Writes(RunStatement)),
           x \in NeededAt(at[1], at[2] + 1), x # Target
    PROVE  DefinitelyUninit(Then[x])
<1> DEFINE s == RunStatement
<1> SUFFICES ASSUME ~DefinitelyUninit(Then[x]) PROVE FALSE
  OBVIOUS
<1>1. /\ AtStatement /\ WellFormed(s) /\ Now \in LocalsFunctions
      /\ StatementPassed(at[1], RunKey, s, Now, Then)
      /\ RunPoint \in Points /\ RunPoint.locals = Now /\ RunPoint.view = view
      /\ RunPoint.need = NeededAt(at[1], at[2])
      /\ Filled(RunPoint) /\ Aside(RunPoint) /\ Owned(RunPoint)
      /\ Lost(s) = LostIn(Now, at[1], RunKey, s)
      /\ Reads(s) = LoadedIn(Now, at[1], RunKey, s)
  BY StatementHere, RunDecides DEF Proceeds, RunPoint
<1>2. /\ x \in Locals /\ x \in NeededAt(at[1], at[2])
      /\ layout.last[x] > 0 /\ FutureUse(at[1], x, RunKey) # "none"
      /\ \A actor : actor \notin Temps => Lively(at[1], RunKey, x, actor)
      /\ \A actor : ~Expired(x, RunKey) => Lively(at[1], RunKey, x, actor)
  BY <1>1, NeededLively
<1>3. PICK l \in Reads(s) \cup Writes(s) : Disturbs(l, Writes(s), x)
  BY DEF Staled
<1>4. /\ l \in Locals /\ view[l] # 0 /\ layout.last[l] > 0 /\ ~Expired(l, RunKey)
      /\ Held(RunPoint, l) \/ DefinitelyUninit(Now[l])
  BY <1>1, <1>3, UsedNow
<1>5. /\ view[x] = view[l] /\ view[x] # 0 /\ x # l /\ x \notin above[l]
      /\ l \in Writes(s) \/ (x \in Mutable \ Temps /\ x \in viewing)
  BY <1>3 DEF Disturbs, Exclusive
<1>6. Held(RunPoint, l)
  BY <1>1, <1>2, <1>4, <1>5 DEF Aside
<1>7. Covers(Now, Lost(s), Then, x)
  BY <1>2, ThenCovers
<1>8. ~DefinitelyUninit(Now[x]) /\ x \notin Lost(s)
  <2>1. ~DefinitelyUninit(Without(Now, Lost(s))[x])
    BY <1>7 DEF Covers
  <2> QED  BY <1>1, <1>2, <1>7, <2>1, StillUninit, WithoutRoots
<1>9. Held(RunPoint, x)
  BY <1>1, <1>2, <1>5, <1>8 DEF Held
<1>10. PICK r \in Locals :
         /\ HeldFrom(RunPoint, l, r) /\ HeldFrom(RunPoint, x, r)
         /\ r \in RootsOf(Now, l)
  <2>1. RunPoint.view[l] = RunPoint.view[x]
    BY <1>1, <1>5
  <2>2. \E r \in Locals :
             /\ Owner(RunPoint, r, RunPoint.view[x])
             /\ HeldFrom(RunPoint, l, r) /\ HeldFrom(RunPoint, x, r)
             /\ r \in RootsOf(RunPoint.locals, l) /\ r \in RootsOf(RunPoint.locals, x)
             /\ r \notin Temps => RunPoint.view[r] = RunPoint.view[x]
    BY <1>1, <1>2, <1>4, <1>6, <1>9, <2>1, SharedRoot
  <2> QED  BY <1>1, <2>2
<1>11. x # r
  <2> SUFFICES ASSUME x = r PROVE FALSE
    OBVIOUS
  <2>1. x \in above[l]
    BY <1>5, <1>10 DEF HeldFrom, RunPoint
  <2> QED  BY <1>5, <2>1
<1>12. r \in Now[x].roots
  BY <1>10, <1>11 DEF HeldFrom, RunPoint
<1>13. Lively(at[1], RunKey, x, l)
  <2>1. CASE l \in Temps
    <3>1. ~Expired(x, RunKey)
      BY <1>2, <1>3, <2>1 DEF Overlooks
    <3> QED  BY <1>2, <3>1
  <2>2. CASE l \notin Temps
    BY <1>2, <2>2
  <2> QED  BY <2>1, <2>2
<1>14. \/ l \in BorrowedIn(Now, at[1], RunKey, s) \/ Overwritten(Now, s, l)
       \/ l \in LoadedIn(Now, at[1], RunKey, s) /\ x \in Mutable \ Temps
  <2>1. CASE l \in Writes(s)
    <3>1. \/ l \in BorrowedIn(Now, at[1], RunKey, s)
          \/ l = s.to /\ s.kind \in {"write", "assign", "pack"}
      BY <1>1, <2>1, RunWrites
    <3> QED  BY <1>1, <1>6, <3>1 DEF Overwritten, Held
  <2>2. CASE l \notin Writes(s)
    BY <1>1, <1>3, <1>5, <2>2
  <2> QED  BY <2>1, <2>2
<1>15. x \notin LostIn(Now, at[1], RunKey, s)
  BY <1>1, <1>8
<1> HIDE DEF s
<1> QED  BY <1>1, <1>2, <1>4, <1>5, <1>10, <1>11, <1>12, <1>13, <1>14, <1>15, AccessAlone

LEMMA FollowingUnstaled ==
    ASSUME Stepping, Unstaled(RunPoint),
           ~Overlooks(Reads(RunStatement), Writes(RunStatement), RunKey)
    PROVE  Unstaled(Following)
<1> DEFINE s == RunStatement
<1>1. /\ Proceeds /\ RunPoint \in Points /\ Following \in Points
      /\ Carries(RunPoint, Following, Lost(s), Ended(s), Target)
  BY FollowingTypes, StatementHere, SettleCarries DEF Stepping, Proceeds
<1>2. /\ RunPoint.stale = stale /\ Following.stale = stale' /\ Following.locals = Then
      /\ Following.need = NeededAt(at[1], at[2] + 1)
  BY DEF RunPoint, Following
<1>3. Target \in Locals => Target \notin stale'
  BY SettleBinds
<1>4. ASSUME NEW x \in stale', x # Target, x \notin stale, x \in NeededAt(at[1], at[2] + 1)
      PROVE  DefinitelyUninit(Then[x])
  <2>1. x \in Staled(Reads(s), Writes(s))
    BY <1>4, SettleBinds, SettleKeeps
  <2> QED  BY <1>1, <1>4, <2>1, StaledAlone
<1>5. /\ Target \in Locals => Target \notin Following.stale
      /\ \A x \in Following.stale :
           x # Target /\ x \notin RunPoint.stale /\ x \in Following.need
             => DefinitelyUninit(Following.locals[x])
  BY <1>2, <1>3, <1>4
<1> HIDE DEF s
<1> QED  BY <1>1, <1>5, UnstaledStep

-----------------------------------------------------------------------------
(* The end of a block *)

AtEnd == InBlock /\ at[2] = Len(Statements(at[1])) + 1

EndReads == prog.reads[at[1]]

LEMMA EndHere ==
    ASSUME AtEnd
    PROVE  /\ UsesKnown /\ prog \in Programs /\ at[2] \in Nat /\ at[2] > 0
           /\ RunKey = KeyAt(at[1], at[2])
           /\ Now \in LocalsFunctions /\ RunPoint \in Points
           /\ Exit \in SoundStates /\ Exit.locals = Now
           /\ EndReads \subseteq Locals
           /\ \A l \in EndReads : /\ Readable(Exit, at[1], RunKey, l)
                                  /\ l \in NeededAt(at[1], at[2])
                                  /\ layout.last[l] > 0 /\ ~Expired(l, RunKey)
<1>1. UsesKnown /\ prog \in Programs /\ at[1] \in Blocks /\ ins[at[1]] # {}
  BY AcceptedUses DEF AtEnd, InBlock, Accepted, AnalysisInv
<1>2. /\ Len(Statements(at[1])) \in Nat
      /\ at[2] \in Positions(prog, at[1])
  BY <1>1, PositionFacts DEF AtEnd
<1>3. Now \in LocalsFunctions /\ LocalsAt(at[1], at[2]) = {Now}
  BY <1>1, <1>2, PointWorks DEF AtEnd, InBlock, Now
<1>4. RunKey = KeyAt(at[1], at[2])
  BY DEF RunKey, KeyAt
<1>5. PICK out \in SoundStates :
        /\ outs[at[1]] = {out}
        /\ LocalsAt(at[1], Len(Statements(at[1])) + 1) = {out.locals}
        /\ TerminatorPassed(at[1], out)
  BY <1>1, ExitWorks DEF AtEnd, InBlock
<1>6. Exit = out /\ out.locals = Now
  BY <1>3, <1>5 DEF Exit, AtEnd
<1>7. EndReads \subseteq Locals
  BY <1>1, ProgramsAssumption DEF EndReads, Blocks
<1>8. ASSUME NEW l \in EndReads
      PROVE  /\ Readable(Exit, at[1], RunKey, l)
             /\ l \in NeededAt(at[1], at[2])
             /\ layout.last[l] > 0 /\ ~Expired(l, RunKey)
  <2>1. Readable(Exit, at[1], RunKey, l)
    BY <1>4, <1>5, <1>6 DEF TerminatorPassed, EndReads, AtEnd
  <2>2. l \in UsedAt(prog, at[1], at[2])
    BY <1>2 DEF UsedAt, EndReads, AtEnd, Statements
  <2> QED  BY <1>1, <1>2, <1>4, <1>7, <2>1, <2>2, UsedIsNeeded
<1>9. RunPoint \in Points
  BY <1>3 DEF RunPoint, Points, NeededAt, AtEnd, InBlock, RunTypes
<1> QED  BY <1>1, <1>2, <1>3, <1>4, <1>5, <1>6, <1>7, <1>8, <1>9 DEF AtEnd

LEMMA ReadAtEnd ==
    ASSUME AtEnd, Filled(RunPoint), NEW l \in EndReads
    PROVE  l \in Locals /\ Held(RunPoint, l) /\ view[l] # 0
<1>1. l \in Locals /\ l \in NeededAt(at[1], at[2]) /\ ~DefinitelyUninit(Now[l])
  BY EndHere DEF Readable
<1> QED  BY <1>1 DEF Held, Filled, RunPoint

\* The run enters the block next with what remains, and no local that stays
\* usable loses the root of its value.
Enters(next) ==
    /\ AtEnd /\ next \in Successors(at[1])
    /\ Filled(RunPoint) /\ Aside(RunPoint) /\ Owned(RunPoint)
    /\ view' = [l \in Locals |-> IF l \in Remaining(next) THEN view[l] ELSE 0]
    /\ viewing' = viewing \cap Remaining(next)
    /\ above' = [l \in Locals |-> IF l \in Remaining(next) THEN above[l] \cap Remaining(next)
                                  ELSE {}]
    /\ stale' = (stale \cup Staled(EndReads, {})) \cap Remaining(next)
    /\ ~\E h \in Remaining(next) : LosesRoot(Exit, h, Locals \ Visible(next))

Entering(next) ==
    [locals |-> Here(next, 1), need |-> NeededAt(next, 1),
     view |-> view', viewing |-> viewing', above |-> above', stale |-> stale']

LEMMA NextHere ==
    ASSUME AtEnd, NEW next \in Successors(at[1])
    PROVE  /\ next \in Blocks /\ ins[next] # {}
           /\ 1 \in Positions(prog, next)
           /\ Here(next, 1) \in LocalsFunctions
           /\ Remaining(next) \subseteq Visible(next) /\ Visible(next) \subseteq Locals
           /\ \A l \in Locals :
                /\ Covers(Now, Locals \ Visible(next), Here(next, 1), l)
                /\ l \in Remaining(next) <=> ~DefinitelyUninit(Here(next, 1)[l])
<1>1. Accepted /\ prog \in Programs /\ at[1] \in Blocks /\ ins[at[1]] # {}
      /\ Now \in LocalsFunctions
  BY EndHere DEF AtEnd, InBlock
<1>2. /\ next \in Blocks /\ ins[next] # {}
      /\ \A l \in Locals : Covers(Now, Locals \ Visible(next), Here(next, 1), l)
  BY <1>1, EdgeWorks DEF Now, AtEnd
<1>3. 1 \in Positions(prog, next)
  BY <1>1, <1>2, PositionFacts
<1>4. Here(next, 1) \in LocalsFunctions
  BY <1>1, <1>2, <1>3, PointWorks
<1>5. PICK in \in SoundStates : ins[next] = {in} /\ Here(next, 1) = in.locals
  BY <1>1, <1>2, EntryWorks
<1>6. Visible(next) \subseteq Locals
  <2>1. layout = FunctionLayout(prog) /\ next \in DOMAIN prog.stmts
    BY <1>1, <1>2 DEF Accepted, ChainInv, Blocks
  <2> QED  BY <2>1 DEF Visible, FunctionLayout, VisibilityMask
<1>7. ASSUME NEW l \in Locals, ~DefinitelyUninit(Here(next, 1)[l]) PROVE l \in Visible(next)
  <2>1. ~DefinitelyUninit(Without(Now, Locals \ Visible(next))[l])
    BY <1>2, <1>7 DEF Covers
  <2> QED  BY <1>1, <2>1, WithoutRoots
<1>8. ASSUME NEW l \in Locals
      PROVE  l \in Remaining(next) <=> ~DefinitelyUninit(Here(next, 1)[l])
  BY <1>5, <1>7 DEF Remaining
<1> QED  BY <1>2, <1>3, <1>4, <1>6, <1>8 DEF Remaining

LEMMA EnteringTypes ==
    ASSUME NEW next, Enters(next)
    PROVE  /\ view' \in [Locals -> Nat]
           /\ viewing' \subseteq Locals /\ stale' \subseteq Locals
           /\ above' \in [Locals -> SUBSET Locals]
           /\ Entering(next) \in Points
<1>1. /\ view' \in [Locals -> Nat]
      /\ viewing' \subseteq Locals /\ stale' \subseteq Locals
      /\ above' \in [Locals -> SUBSET Locals]
  BY DEF Enters, AtEnd, InBlock, RunTypes, Staled
<1>2. Here(next, 1) \in LocalsFunctions
  BY NextHere DEF Enters
<1> QED  BY <1>1, <1>2 DEF Entering, Points, NeededAt

LEMMA EntersCarries ==
    ASSUME NEW next, Enters(next)
    PROVE  Carries(RunPoint, Entering(next), Locals \ Visible(next), Locals \ Remaining(next), None)
<1> DEFINE q == Entering(next)
           lost == Locals \ Visible(next)
           gone == Locals \ Remaining(next)
<1>1. /\ AtEnd /\ next \in Successors(at[1]) /\ UsesKnown /\ at[1] \in Blocks /\ RunTypes
  BY EndHere DEF Enters, AtEnd, InBlock
<1>2. q.need = NeededAt(next, 1) /\ q.need \subseteq NeededAt(at[1], at[2])
  BY <1>1, NeededAcross DEF Entering
<1>3. ASSUME NEW x \in Locals
      PROVE  /\ Covers(Now, lost, q.locals, x)
             /\ x \in gone <=> DefinitelyUninit(q.locals[x])
  BY <1>1, NextHere DEF Entering
<1>4. ASSUME NEW x \in Locals
      PROVE  /\ q.view[x] = IF x \in gone THEN 0 ELSE view[x]
             /\ x \in q.viewing <=> x \in viewing /\ x \notin gone
             /\ x \in q.stale => x \notin gone
             /\ x \notin gone => q.above[x] = above[x] \cap Remaining(next)
  BY DEF Enters, Entering
<1>5. ASSUME NEW x \in Locals, x \notin gone, NEW r \in above[x], q.view[r] # 0
      PROVE  r \in q.above[x]
  <2>1. r \in Locals
    BY <1>1 DEF RunTypes
  <2>2. r \notin gone
    BY <1>4, <1>5, <2>1
  <2> QED  BY <1>4, <1>5, <2>1, <2>2
<1>6. /\ RunPoint.locals = Now /\ RunPoint.need = NeededAt(at[1], at[2]) /\ RunPoint.view = view
      /\ RunPoint.viewing = viewing /\ RunPoint.above = above
  BY DEF RunPoint
<1> HIDE DEF q, lost, gone
<1>7. Carries(RunPoint, q, lost, gone, None)
  BY <1>2, <1>3, <1>4, <1>5, <1>6 DEF Carries
<1> QED  BY <1>7 DEF q, lost, gone

\* The reads of the terminator leave no view in use stale, except one that a
\* temporary overlooks.
LEMMA StaledAtEnd ==
    ASSUME NEW next, Enters(next), ~Overlooks(EndReads, {}, RunKey),
           NEW x \in Staled(EndReads, {}), x \in NeededAt(next, 1)
    PROVE  DefinitelyUninit(Here(next, 1)[x])
<1> SUFFICES ASSUME ~DefinitelyUninit(Here(next, 1)[x]) PROVE FALSE
  OBVIOUS
<1>1. /\ AtEnd /\ next \in Successors(at[1]) /\ UsesKnown /\ at[1] \in Blocks
      /\ at[2] \in Nat /\ at[2] > 0 /\ RunKey = KeyAt(at[1], at[2])
      /\ Filled(RunPoint) /\ Owned(RunPoint) /\ RunPoint \in Points
      /\ RunPoint.locals = Now /\ RunPoint.view = view /\ RunPoint.need = NeededAt(at[1], at[2])
      /\ Now \in LocalsFunctions /\ Exit \in SoundStates /\ Exit.locals = Now
  BY EndHere DEF Enters, AtEnd, InBlock, RunPoint
<1>2. /\ x \in NeededAt(at[1], at[2]) /\ x \in Locals /\ layout.last[x] > 0
      /\ FutureUse(at[1], x, RunKey) # "none"
  <2>1. x \in NeededAt(at[1], at[2]) /\ x \in NeededAt(at[1], at[2] + 1)
    BY <1>1, NeededAcross
  <2> QED  BY <1>1, <2>1, NeededIsUsed, NeededBefore
<1>3. PICK l \in EndReads : Disturbs(l, {}, x)
  BY DEF Staled
<1>4. /\ view[x] = view[l] /\ view[x] # 0 /\ x # l /\ x \notin above[l]
      /\ x \in Mutable \ Temps
  BY <1>3 DEF Disturbs, Exclusive
<1>5. /\ l \in Locals /\ Held(RunPoint, l) /\ Readable(Exit, at[1], RunKey, l)
  BY <1>1, ReadAtEnd, EndHere
<1>6. ~DefinitelyUninit(Now[x])
  <2>1. Covers(Now, Locals \ Visible(next), Here(next, 1), x)
    BY <1>1, <1>2, NextHere
  <2> QED  BY <1>1, <1>2, <2>1, StillUninit
<1>7. Held(RunPoint, x)
  BY <1>1, <1>2, <1>4, <1>6 DEF Held
<1>8. PICK r \in Locals : /\ HeldFrom(RunPoint, l, r) /\ HeldFrom(RunPoint, x, r)
                          /\ r \in RootsOf(Now, l)
  <2>1. RunPoint.view[l] = RunPoint.view[x]
    BY <1>1, <1>4
  <2>2. \E r \in Locals :
             /\ Owner(RunPoint, r, RunPoint.view[x])
             /\ HeldFrom(RunPoint, l, r) /\ HeldFrom(RunPoint, x, r)
             /\ r \in RootsOf(RunPoint.locals, l) /\ r \in RootsOf(RunPoint.locals, x)
             /\ r \notin Temps => RunPoint.view[r] = RunPoint.view[x]
    BY <1>1, <1>2, <1>5, <1>7, <2>1, SharedRoot
  <2> QED  BY <1>1, <2>2
<1>9. x # r
  <2> SUFFICES ASSUME x = r PROVE FALSE
    OBVIOUS
  <2>1. x \in above[l]
    BY <1>4, <1>8 DEF HeldFrom, RunPoint
  <2> QED  BY <1>4, <2>1
<1>10. r \in Now[x].roots
  BY <1>8, <1>9 DEF HeldFrom, RunPoint
<1>11. Lively(at[1], RunKey, x, l)
  <2>1. CASE l \in Temps
    <3>1. ~Expired(x, RunKey)
      BY <1>2, <1>3, <2>1 DEF Overlooks
    <3> QED  BY <1>2, <3>1 DEF Lively
  <2>2. CASE l \notin Temps
    BY <1>2, <2>2 DEF Lively, UsedInLaterIteration
  <2> QED  BY <2>1, <2>2
<1> QED  BY <1>1, <1>4, <1>5, <1>8, <1>10, <1>11, ReadAlone

LEMMA EnteringWell ==
    ASSUME NEW next, Enters(next)
    PROVE  /\ Filled(Entering(next)) /\ Aside(Entering(next)) /\ Owned(Entering(next))
           /\ Unstaled(RunPoint) /\ ~Overlooks(EndReads, {}, RunKey) => Unstaled(Entering(next))
<1> DEFINE p == RunPoint
           q == Entering(next)
           lost == Locals \ Visible(next)
           gone == Locals \ Remaining(next)
<1>1. /\ Carries(p, q, lost, gone, None) /\ p \in Points /\ q \in Points /\ None \notin Locals
      /\ Filled(p) /\ Aside(p) /\ Owned(p)
  BY EntersCarries, EnteringTypes, EndHere, BindingsAssumption DEF Enters
<1>2. /\ p.locals = Now /\ p.view = view /\ p.stale = stale
      /\ q.locals = Here(next, 1) /\ q.stale = stale' /\ q.need = NeededAt(next, 1)
  BY DEF RunPoint, Entering
<1>3. /\ AtEnd /\ next \in Successors(at[1]) /\ Exit.locals = Now
      /\ stale' \subseteq stale \cup Staled(EndReads, {})
  BY EndHere DEF Enters
<1>4. ASSUME NEW x \in stale', x \notin stale
      PROVE  \E l \in Locals : l # x /\ view[l] = view[x]
  <2>1. PICK l \in EndReads : Disturbs(l, {}, x)
    BY <1>3, <1>4 DEF Staled
  <2>2. l \in Locals
    BY <1>3, EndHere
  <2> QED  BY <2>1, <2>2 DEF Disturbs
<1>5. ASSUME NEW x \in NeededAt(next, 1), NEW r \in Now[x].roots,
             ~DefinitelyUninit(Here(next, 1)[x]), view[x] # 0, r \in Temps \/ view[r] = view[x]
      PROVE  r \notin lost
  <2> SUFFICES ASSUME r \in lost PROVE FALSE
    OBVIOUS
  <2>1. x \in Locals /\ x \in Remaining(next)
    BY <1>3, <1>5, NextHere DEF NeededAt
  <2>2. r \in RootsOf(Now, x) /\ EffectiveRoots(Exit, x) = RootsOf(Exit.locals, x)
    BY <1>3, <1>5, <2>1, EndHere, RootIsHeld, SameLocals
  <2>3. LosesRoot(Exit, x, lost)
    BY <1>3, <1>5, <2>2 DEF LosesRoot
  <2> QED  BY <2>1, <2>3 DEF Enters
<1>6. ASSUME NEW x \in Locals, x \in gone
      PROVE  DefinitelyUninit(Without(Now, lost)[x])
  BY <1>3, <1>6, NextHere DEF Covers
<1>7. ASSUME Unstaled(p), ~Overlooks(EndReads, {}, RunKey),
             NEW x \in stale', x \notin stale, x \in NeededAt(next, 1)
      PROVE  DefinitelyUninit(Here(next, 1)[x])
  BY <1>3, <1>7, StaledAtEnd
<1> HIDE DEF p, q, lost, gone
<1>8. Filled(q)
  BY <1>1, FilledStep
<1>9. Aside(q)
  <2>1. \A x \in q.stale : x # None =>
             x \in p.stale \/ \E l \in Locals : l # x /\ p.view[l] = p.view[x]
    BY <1>2, <1>4
  <2> QED  BY <1>1, <2>1, AsideStep
<1>10. Owned(q)
  <2>1. /\ \A x \in q.need : \A r \in p.locals[x].roots :
             /\ x # None /\ ~DefinitelyUninit(q.locals[x]) /\ p.view[x] # 0
             /\ r \in Temps \/ p.view[r] = p.view[x]
             => r \notin lost
        /\ \A x, h \in Locals :
             /\ x # None /\ h # None /\ x \in gone
             /\ p.view[h] = p.view[x] /\ ~DefinitelyUninit(Without(p.locals, lost)[x])
             => h \in gone
    BY <1>2, <1>5, <1>6
  <2> QED  BY <1>1, <2>1, OwnedStep
<1>11. ASSUME Unstaled(p), ~Overlooks(EndReads, {}, RunKey) PROVE Unstaled(q)
  <2>1. \A x \in q.stale : x # None /\ x \notin p.stale /\ x \in q.need
                             => DefinitelyUninit(q.locals[x])
    BY <1>2, <1>7, <1>11
  <2> QED  BY <1>1, <1>11, <2>1, UnstaledStep
<1> QED  BY <1>8, <1>9, <1>10, <1>11 DEF p, q

-----------------------------------------------------------------------------
(* The start of the run *)

\* The parameters can be numbered apart.
LEMMA NumberingWorks ==
    /\ Numbering \in [Params -> 1 .. Cardinality(Params)]
    /\ \A p, q \in Params : p # q => Numbering[p] # Numbering[q]
<1> DEFINE n == Cardinality(Params)
<1>1. IsFiniteSet(Params)
  BY LocalsAssumption, BindingsAssumption, FS_Subset
<1>2. n \in Nat /\ ExistsBijection(1 .. n, Params)
  BY <1>1, FS_CardinalityType
<1>3. PICK f \in [1 .. n -> Params] : \A p \in Params : \E i \in 1 .. n : f[i] = p
  BY <1>2 DEF ExistsBijection, Bijection, Injection, Surjection
<1> DEFINE g == [p \in Params |-> CHOOSE i \in 1 .. n : f[i] = p]
<1>4. \A p \in Params : g[p] \in 1 .. n /\ f[g[p]] = p
  <2> SUFFICES ASSUME NEW p \in Params PROVE g[p] \in 1 .. n /\ f[g[p]] = p
    OBVIOUS
  <2>1. \E i \in 1 .. n : f[i] = p
    BY <1>3
  <2> HIDE DEF n
  <2> QED  BY <2>1
<1>5. g \in [Params -> 1 .. n]
  <2> HIDE DEF n
  <2> QED  BY <1>4
<1>6. \A p, q \in Params : p # q => g[p] # g[q]
  <2> HIDE DEF g
  <2> QED  BY <1>4
<1>7. \E m \in [Params -> 1 .. n] : \A p, q \in Params : p # q => m[p] # m[q]
  <2> HIDE DEF g, n
  <2> QED  BY <1>5, <1>6
<1> QED  BY <1>7 DEF Numbering

Starts == Accepted /\ RunInit /\ StartRun

Beginning ==
    [locals |-> Here(1, 1), need |-> NeededAt(1, 1),
     view |-> view', viewing |-> viewing', above |-> above', stale |-> stale']

LEMMA StartHere ==
    ASSUME Starts
    PROVE  /\ 1 \in Blocks /\ ins[1] # {} /\ 1 \in Positions(prog, 1)
           /\ Here(1, 1) \in LocalsFunctions
           /\ \A l \in Locals : \/ l \in Params /\ Slotted(Here(1, 1), l)
                                \/ DefinitelyUninit(Here(1, 1)[l])
           /\ \A l \in Params : Slotted(Here(1, 1), l) \/ DefinitelyUninit(Here(1, 1)[l])
           /\ \A l \in Locals \ Params : DefinitelyUninit(Here(1, 1)[l])
<1>1. prog \in Programs /\ 1 \in Blocks /\ ins[1] # {}
  BY ProgramFacts DEF Starts, Accepted, AnalysisInv, WorklistInv, OneEntry
<1>2. 1 \in Positions(prog, 1)
  BY <1>1, PositionFacts
<1>3. Here(1, 1) \in LocalsFunctions
  BY <1>1, <1>2, PointWorks DEF Starts
<1>4. PICK in \in SoundStates : ins[1] = {in} /\ Here(1, 1) = in.locals
  BY <1>1, EntryWorks DEF Starts
<1>5. \A l \in Locals : IF l \in Params \cap Visible(1) THEN Slotted(Here(1, 1), l)
                        ELSE DefinitelyUninit(Here(1, 1)[l])
  BY <1>4 DEF Starts, Accepted, ChainInv, Begins
<1> QED  BY <1>1, <1>2, <1>3, <1>5, BindingsAssumption

LEMMA StartWell ==
    ASSUME Starts
    PROVE  /\ view' \in [Locals -> Nat] /\ viewing' = {} /\ stale' = {}
           /\ Filled(Beginning) /\ Aside(Beginning) /\ Owned(Beginning) /\ Unstaled(Beginning)
<1> DEFINE p == Beginning
           locals == Here(1, 1)
<1>1. /\ p.locals = locals /\ p.need = NeededAt(1, 1) /\ p.view = view'
      /\ p.viewing = {} /\ p.stale = {}
      /\ viewing' = {} /\ stale' = {}
  BY DEF Beginning, Starts, StartRun, RunInit
<1>2. ASSUME NEW l \in Locals
      PROVE  /\ view'[l] \in Nat
             /\ l \in Params => view'[l] = Numbering[l] /\ view'[l] # 0
             /\ l \notin Params => view'[l] = 0
  BY NumberingWorks DEF Starts, StartRun
<1>3. view' \in [Locals -> Nat]
  BY <1>2 DEF Starts, StartRun
<1>4. NeededAt(1, 1) \subseteq Locals
  BY DEF NeededAt
<1>5. \A l \in Locals : \/ l \in Params /\ Slotted(locals, l)
                        \/ DefinitelyUninit(locals[l])
  BY StartHere
<1>6. \A l \in Locals \ Params : DefinitelyUninit(locals[l])
  BY StartHere
<1>7. ASSUME NEW l \in Locals, NEW h \in Locals, h # l, view'[l] # 0
      PROVE  view'[h] # view'[l]
  BY <1>2, <1>7, NumberingWorks
<1> HIDE DEF p, locals
<1>8. Filled(p)
  BY <1>1, <1>2, <1>4, <1>6 DEF Filled
<1>9. Aside(p)
  BY <1>1, <1>7 DEF Aside
<1>10. Owned(p)
  <2> SUFFICES ASSUME NEW h \in Locals, Held(p, h) PROVE Owner(p, h, p.view[h])
    BY DEF Owned
  <2>1. Slotted(locals, h) /\ view'[h] # 0
    BY <1>1, <1>5 DEF Held
  <2>2. h \in RootsOf(locals, h)
    BY <2>1, StartHere, SettledParts DEF locals
  <2>3. HeldFrom(p, h, h)
    BY <1>1, <2>1 DEF HeldFrom
  <2> QED  BY <1>1, <1>7, <2>1, <2>2, <2>3 DEF Owner
<1>11. Unstaled(p)
  BY <1>1 DEF Unstaled
<1> QED  BY <1>1, <1>3, <1>8, <1>9, <1>10, <1>11 DEF p

-----------------------------------------------------------------------------
(* The run of an accepted function *)

\* What the run holds agrees with what the checker saw at this point.
Agrees == /\ Filled(RunPoint) /\ Aside(RunPoint) /\ Owned(RunPoint)
          /\ scratch \/ Unstaled(RunPoint)

OnPath ==
    /\ hops # 0 /\ phase = "accepted"
    /\ at[1] \in Blocks /\ ins[at[1]] # {} /\ at[2] \in Positions(prog, at[1])

RunSound ==
    /\ RunTypes /\ at \in Nat \X Nat
    /\ hops = 0 => RunInit
    /\ \A l \in given : view[l] = 0
    /\ at[1] # 0 => OnPath
    /\ at[1] # 0 /\ fault = "none" => Agrees
    /\ fault = "none" \/ (fault = "stale" /\ scratch)

RunInv == partial \/ RunSound

LEMMA InitialRun == RunInit => RunInv
<1> SUFFICES ASSUME RunInit PROVE RunSound
  BY DEF RunInv
<1>1. RunTypes
  BY DEF RunInit, RunTypes
<1>2. at = << 0, 0 >> /\ given = {} /\ fault = "none"
  BY DEF RunInit
<1> QED  BY <1>1, <1>2 DEF RunSound

\* A point that the run moves to.
LEMMA AgreesAt ==
    ASSUME NEW q, RunPoint' = q, Filled(q), Aside(q), Owned(q), scratch' \/ Unstaled(q)
    PROVE  Agrees'
<1>1. Filled(RunPoint)'
  BY DEF Filled
<1>2. Aside(RunPoint)'
  BY DEF Aside
<1>3. Owned(RunPoint)'
  BY DEF Owned, Owner, HeldFrom, Held
<1>4. scratch' \/ Unstaled(RunPoint)'
  BY DEF Unstaled
<1> QED  BY <1>1, <1>2, <1>3, <1>4 DEF Agrees

LEMMA SameAnalysis ==
    ASSUME UNCHANGED checkVars
    PROVE  /\ Blocks' = Blocks /\ \A b : Successors(b)' = Successors(b)
           /\ \A b, i : /\ Here(b, i)' = Here(b, i)
                        /\ NeededAt(b, i)' = NeededAt(b, i)
                        /\ Positions(prog, b)' = Positions(prog, b)
           /\ phase' = phase /\ ins' = ins /\ prog' = prog
<1>1. UNCHANGED << prog, layout, may, must, phase, ins, outs, entries >>
  BY DEF checkVars, facts
<1>2. /\ Blocks' = Blocks /\ \A b : Successors(b)' = Successors(b)
  BY <1>1 DEF Blocks, Successors
<1>3. \A b : Statements(b)' = Statements(b)
  BY <1>1 DEF Statements
<1>4. \A b, i : LocalsAt(b, i)' = LocalsAt(b, i)
  BY <1>1, <1>3 DEF LocalsAt
<1>5. \A b, i : Here(b, i)' = Here(b, i)
  BY <1>4 DEF Here
<1>6. \A b, i : NeededAt(b, i)' = NeededAt(b, i)
  BY <1>1, <1>2 DEF NeededAt, FutureUse, KeyAt
<1>7. \A b : Positions(prog, b)' = Positions(prog, b)
  BY <1>1 DEF Positions
<1> QED  BY <1>1, <1>2, <1>5, <1>6, <1>7

LEMMA StartRunSound ==
    ASSUME Accepted, RunSound, ~partial, StartRun
    PROVE  RunInv'
<1>1. Starts
  BY DEF Starts, RunSound, StartRun
<1>2. /\ UNCHANGED checkVars /\ at' = << 1, 1 >> /\ hops' = 1 /\ given' = {} /\ fault' = "none"
      /\ phase = "accepted" /\ above' \in [Locals -> SUBSET Locals]
  BY <1>1 DEF StartRun, Starts, RunInit
<1>3. RunTypes'
  BY <1>1, <1>2, StartWell DEF RunTypes
<1>4. at'[1] = 1 /\ at'[2] = 1
  BY <1>2
<1>5. OnPath'
  BY <1>1, <1>2, <1>4, StartHere, SameAnalysis DEF OnPath
<1>6. RunPoint' = Beginning
  BY <1>2, <1>4, SameAnalysis DEF RunPoint, Now, Beginning
<1>7. Agrees'
  BY <1>1, <1>6, StartWell, AgreesAt
<1> QED  BY <1>2, <1>3, <1>5, <1>7 DEF RunInv, RunSound

LEMMA SettleGiven ==
    ASSUME Stepping, \A l \in given : view[l] = 0
    PROVE  given' \subseteq Locals /\ \A l \in given' : view'[l] = 0
<1> DEFINE s == RunStatement
           gone == Ended(s)
<1>1. gone \subseteq Locals /\ given \subseteq Locals
  BY DEF Ended, Stepping, Proceeds, AtStatement, InBlock, RunTypes
<1>2. Settle(s, gone)
  BY DEF Stepping
<1> HIDE DEF s, gone
<1>3. CASE ~Rebinds(s)
  <2>1. /\ view' = [l \in Locals |-> IF l \in gone THEN 0 ELSE view[l]]
        /\ given' = given \cup gone
    BY <1>2, <1>3 DEF Settle
  <2> QED  BY <1>1, <2>1
<1>4. CASE Rebinds(s)
  <2>1. PICK new \in Bindings(s) :
          /\ view' = [l \in Locals |-> IF l = s.to THEN new.value
                                       ELSE IF l \in gone THEN 0 ELSE view[l]]
          /\ given' = (given \cup gone) \ {s.to}
    BY <1>2, <1>4 DEF Settle
  <2> QED  BY <1>1, <2>1
<1> QED  BY <1>3, <1>4

LEMMA RunOneStatementSound ==
    ASSUME Accepted, RunSound, ~partial, RunOneStatement
    PROVE  RunInv'
<1> DEFINE s == RunStatement
<1>1. /\ at[1] # 0 /\ fault = "none" /\ at[2] \in DOMAIN Statements(at[1])
      /\ fault' = FaultOf(s) /\ UNCHANGED << checkVars, hops >>
  BY DEF RunOneStatement
<1>2. /\ AtStatement /\ OnPath /\ Agrees /\ RunTypes /\ at \in Nat \X Nat
      /\ \A l \in given : view[l] = 0
  BY <1>1 DEF RunSound, AtStatement, InBlock, OnPath
<1>3. /\ FaultOf(s) \notin {"given", "empty"}
      /\ scratch \/ FaultOf(s) = "none"
  BY <1>2, NoFault DEF Agrees
<1>4. FaultOf(s) \in {"given", "empty", "stale", "none"}
  BY DEF FaultOf
<1>5. ASSUME FaultOf(s) # "none" PROVE RunInv'
  <2>1. UNCHANGED << at, view, viewing, above, given, stale, partial, scratch >>
    BY <1>5 DEF RunOneStatement
  <2>2. fault' = "stale" /\ scratch'
    BY <1>1, <1>3, <1>4, <1>5, <2>1
  <2>3. RunTypes' /\ at' \in Nat \X Nat /\ \A l \in given' : view'[l] = 0
    BY <1>1, <1>2, <2>1 DEF RunTypes
  <2>4. OnPath'
    BY <1>1, <1>2, <2>1, SameAnalysis DEF OnPath
  <2> QED  BY <1>1, <1>2, <2>2, <2>3, <2>4 DEF RunInv, RunSound, OnPath
<1>6. ASSUME FaultOf(s) = "none" PROVE RunInv'
  <2>1. /\ Settle(s, Ended(s))
        /\ partial' = (partial \/ LeavesView(s) \/ RootsItself(s))
        /\ scratch' = (scratch \/ Overlooks(Reads(s), Writes(s), RunKey))
        /\ at' = [at EXCEPT ![2] = @ + 1]
    BY <1>6 DEF RunOneStatement
  <2>2. CASE LeavesView(s) \/ RootsItself(s)
    BY <2>1, <2>2 DEF RunInv
  <2>3. CASE ~LeavesView(s) /\ ~RootsItself(s)
    <3>1. Stepping
      BY <1>2, <1>6, <2>1, <2>3 DEF Stepping, Proceeds, Agrees
    <3>2. at'[1] = at[1] /\ at'[2] = at[2] + 1 /\ at' \in Nat \X Nat
      BY <1>2, <2>1
    <3>3. given' \subseteq Locals /\ \A l \in given' : view'[l] = 0
      BY <1>2, <3>1, SettleGiven
    <3>4. RunTypes'
      BY <1>1, <1>2, <3>1, <3>3, FollowingTypes DEF RunTypes
    <3>5. at[2] + 1 \in Positions(prog, at[1])
      BY <1>1, <1>2, StatementHere, PositionFacts DEF OnPath
    <3>6. OnPath'
      BY <1>1, <1>2, <3>2, <3>5, SameAnalysis DEF OnPath
    <3>7. RunPoint' = Following
      BY <1>1, <3>2, SameAnalysis DEF RunPoint, Now, Then, Following
    <3>8. scratch' \/ Unstaled(Following)
      BY <1>2, <2>1, <3>1, FollowingUnstaled DEF Agrees
    <3>9. Agrees'
      BY <3>1, <3>7, <3>8, FollowingFilled, FollowingAside, FollowingOwned, AgreesAt
    <3> QED  BY <1>1, <1>2, <1>6, <3>2, <3>3, <3>4, <3>6, <3>9 DEF RunInv, RunSound, OnPath
  <2> QED  BY <2>2, <2>3
<1> QED  BY <1>5, <1>6

LEMMA NoFaultAtEnd ==
    ASSUME AtEnd, Filled(RunPoint), Aside(RunPoint), \A l \in given : view[l] = 0
    PROVE  /\ EndReads \cap given = {} /\ \A l \in EndReads : view[l] # 0
           /\ Unstaled(RunPoint) => EndReads \cap stale = {}
<1>1. \A l \in EndReads : l \in Locals /\ Held(RunPoint, l) /\ view[l] # 0
  BY ReadAtEnd
<1>2. ASSUME Unstaled(RunPoint), NEW l \in EndReads, l \in stale PROVE FALSE
  <2>1. DefinitelyUninit(Now[l])
    BY <1>1, <1>2 DEF Unstaled, Held, RunPoint
  <2> QED  BY <1>1, <2>1 DEF Held, RunPoint
<1> QED  BY <1>1, <1>2

LEMMA RunTerminatorSound ==
    ASSUME Accepted, RunSound, ~partial, RunTerminator
    PROVE  RunInv'
<1>1. /\ at[1] # 0 /\ fault = "none" /\ at[2] = Len(Statements(at[1])) + 1
      /\ fault' = (IF EndReads \cap given # {} THEN "given"
                   ELSE IF \E l \in EndReads : view[l] = 0 THEN "empty"
                   ELSE IF EndReads \cap stale # {} THEN "stale" ELSE "none")
      /\ scratch' = (scratch \/ Overlooks(EndReads, {}, RunKey))
      /\ hops' = (IF hops = MaxHops THEN hops ELSE hops + 1)
      /\ UNCHANGED checkVars
  BY DEF RunTerminator, EndReads
<1>2. PICK next \in IF Successors(at[1]) = {} \/ hops = MaxHops
                    THEN {0} ELSE Successors(at[1]) :
        LET seen == IF next = 0 THEN {} ELSE Remaining(next)
        IN  /\ at' = << next, 1 >>
            /\ view' = [l \in Locals |-> IF l \in seen THEN view[l] ELSE 0]
            /\ viewing' = viewing \cap seen
            /\ above' = [l \in Locals |-> IF l \in seen THEN above[l] \cap seen ELSE {}]
            /\ given' = given \cap seen
            /\ stale' = (stale \cup Staled(EndReads, {})) \cap seen
            /\ partial' = (partial \/ \E h \in seen :
                               LosesRoot(Exit, h, Locals \ Visible(next)))
  BY DEF RunTerminator, EndReads
<1> DEFINE seen == IF next = 0 THEN {} ELSE Remaining(next)
<1>3. /\ at' = << next, 1 >>
      /\ view' = [l \in Locals |-> IF l \in seen THEN view[l] ELSE 0]
      /\ viewing' = viewing \cap seen
      /\ above' = [l \in Locals |-> IF l \in seen THEN above[l] \cap seen ELSE {}]
      /\ given' = given \cap seen
      /\ stale' = (stale \cup Staled(EndReads, {})) \cap seen
      /\ partial' = (partial \/ \E h \in seen : LosesRoot(Exit, h, Locals \ Visible(next)))
  BY <1>2
<1>4. /\ AtEnd /\ OnPath /\ Agrees /\ RunTypes
      /\ \A l \in given : view[l] = 0
  BY <1>1 DEF RunSound, AtEnd, InBlock, OnPath
<1>5. /\ EndReads \cap given = {} /\ \A l \in EndReads : view[l] # 0
      /\ scratch \/ EndReads \cap stale = {}
  BY <1>4, NoFaultAtEnd DEF Agrees
<1>6. fault' = "none" \/ (fault' = "stale" /\ scratch')
  BY <1>1, <1>5
<1>7. \A l \in given' : view'[l] = 0
  BY <1>3, <1>4 DEF RunTypes
<1>8. hops' \in Nat /\ hops' # 0
  BY <1>1, <1>4 DEF OnPath, RunTypes
<1>9. Staled(EndReads, {}) \subseteq Locals
  BY DEF Staled
<1>10. RunTypes'
  <2> HIDE DEF seen
  <2> QED  BY <1>3, <1>4, <1>8, <1>9 DEF RunTypes
<1>11. at'[1] = next /\ at'[2] = 1
  BY <1>3
<1>12. next = 0 \/ next \in Successors(at[1])
  BY <1>2
<1>13. CASE next = 0
  <2>1. at' \in Nat \X Nat
    BY <1>3, <1>13
  <2> QED  BY <1>6, <1>7, <1>8, <1>10, <1>11, <1>13, <2>1 DEF RunInv, RunSound
<1>14. CASE next # 0 /\ partial'
  BY <1>14 DEF RunInv
<1>15. CASE next # 0 /\ ~partial'
  <2>1. next \in Successors(at[1]) /\ seen = Remaining(next)
    BY <1>12, <1>15
  <2>2. Enters(next)
    BY <1>3, <1>4, <1>15, <2>1 DEF Enters, Agrees
  <2>3. next \in Blocks /\ ins[next] # {} /\ 1 \in Positions(prog, next)
    BY <1>4, <2>1, NextHere
  <2>4. next \in Nat
    BY <1>4, <2>3, EndHere, BlockFacts
  <2>5. at' \in Nat \X Nat
    BY <1>3, <2>4
  <2>6. OnPath'
    BY <1>1, <1>4, <1>8, <1>11, <2>3, SameAnalysis DEF OnPath
  <2>7. RunPoint' = Entering(next)
    BY <1>1, <1>11, SameAnalysis DEF RunPoint, Now, Entering
  <2>8. scratch' \/ Unstaled(Entering(next))
    BY <1>1, <1>4, <2>2, EnteringWell DEF Agrees
  <2>9. Agrees'
    BY <2>2, <2>7, <2>8, EnteringWell, AgreesAt
  <2> QED  BY <1>6, <1>7, <1>8, <1>10, <2>5, <2>6, <2>9 DEF RunInv, RunSound
<1> QED  BY <1>13, <1>14, <1>15

\* While the checker works there is no run yet.
LEMMA CheckerSound ==
    ASSUME RunSound, Next, UNCHANGED runVars
    PROVE  RunInv'
<1>1. phase # "accepted"
  BY DEF Next, ComputeMayUse, ComputeMustUse, TakeBlock, TransferStatement, ReadArguments,
         TransferArgument, TransferResult, TransferTerminator, PropagateEdge, FinishBlock, Accept,
         InStatements, AtTerminator
<1>2. at[1] = 0
  BY <1>1 DEF RunSound, OnPath
<1>3. /\ UNCHANGED << at, view, viewing, above, given, stale, fault, partial, scratch, hops >>
  BY DEF runVars
<1>4. RunTypes'
  BY <1>3 DEF RunSound, RunTypes
<1>5. (hops = 0 => RunInit)'
  BY <1>3 DEF RunSound, RunInit
<1> QED  BY <1>2, <1>3, <1>4, <1>5 DEF RunInv, RunSound

LEMMA QuietRun ==
    ASSUME RunSound, UNCHANGED vars
    PROVE  RunInv'
<1>1. /\ UNCHANGED << at, view, viewing, above, given, stale, fault, partial, scratch, hops >>
      /\ UNCHANGED checkVars
  BY DEF vars, runVars
<1>2. RunTypes'
  BY <1>1 DEF RunSound, RunTypes
<1>3. (hops = 0 => RunInit)'
  BY <1>1 DEF RunSound, RunInit
<1>4. OnPath' <=> OnPath
  BY <1>1, SameAnalysis DEF OnPath
<1>5. RunPoint' = RunPoint
  BY <1>1, SameAnalysis DEF RunPoint, Now
<1>6. Agrees => Agrees'
  BY <1>1, <1>5, AgreesAt DEF Agrees
<1> QED  BY <1>1, <1>2, <1>3, <1>4, <1>6 DEF RunInv, RunSound

LEMMA RunInvStep ==
    AnalysisInv /\ WorklistInv /\ ChainInv /\ FutureUseInv /\ RunInv /\ [FullNext]_vars => RunInv'
<1> SUFFICES ASSUME AnalysisInv, WorklistInv, ChainInv, FutureUseInv, RunInv, [FullNext]_vars
             PROVE  RunInv'
  OBVIOUS
<1>1. CASE partial
  <2>1. partial'
    BY <1>1 DEF FullNext, RunStep, StartRun, RunOneStatement, RunTerminator, Over, vars, runVars
  <2> QED  BY <2>1 DEF RunInv
<1>2. CASE ~partial
  <2>1. RunSound
    BY <1>2 DEF RunInv
  <2>2. CASE Next /\ UNCHANGED runVars
    BY <2>1, <2>2, CheckerSound
  <2>3. CASE RunStep
    <3>1. phase = "accepted"
      BY <2>1, <2>3 DEF RunStep, StartRun, RunOneStatement, RunTerminator, RunSound, OnPath
    <3>2. Accepted
      BY <3>1 DEF Accepted
    <3> QED
      BY <1>2, <2>1, <2>3, <3>2, StartRunSound, RunOneStatementSound, RunTerminatorSound DEF RunStep
  <2>4. CASE UNCHANGED vars
    BY <2>1, <2>4, QuietRun
  <2> QED  BY <2>2, <2>3, <2>4 DEF FullNext, Over
<1> QED  BY <1>1, <1>2

\* The inductive invariant of the run, for every function, every set of locals
\* and paths of any length: unless a view lost the root of its value, what
\* the run holds agrees with what the checker saw at this point.
THEOREM RunInvariant == FullSpec => []RunInv
<1>1. FullInit => RunInv
  BY InitialRun DEF FullInit
<1>2. FullSpec => [](AnalysisInv /\ WorklistInv /\ ChainInv /\ FutureUseInv)
  BY RunKeepsTheAnalysis, InitialInv, StepInv, InitialWorklist, WorklistStep, InitialChain, ChainStep,
     InitFutureUse, FutureUseStep, PTL DEF Spec
<1> QED  BY <1>1, <1>2, RunInvStep, PTL DEF FullSpec

\* A run of an accepted function uses no local whose value was given away, nor
\* one that never had a value: the exclusivity checks of transfer.rs leave no
\* such use, unless a transfer left a view usable without its root.
THEOREM NoUseAfterTransferHolds == FullSpec => []NoUseAfterTransfer
<1>1. RunInv => NoUseAfterTransfer
  BY DEF RunInv, RunSound, NoUseAfterTransfer
<1> QED  BY <1>1, RunInvariant, PTL

\* A run of an accepted function uses no view whose value another holder wrote
\* to, nor a value beside a mutable view in use, unless a transfer left a view
\* usable or a temporary overlooked a use in a later iteration.
THEOREM AliasesStayExclusiveHolds == FullSpec => []AliasesStayExclusive
<1>1. RunInv => AliasesStayExclusive
  BY DEF RunInv, RunSound, AliasesStayExclusive
<1> QED  BY <1>1, RunInvariant, PTL
================================================================================
