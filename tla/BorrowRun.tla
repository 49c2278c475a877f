------------------------------- MODULE BorrowRun -------------------------------
(***************************************************************************)
(* What an accepted function may do: one path through its blocks, with the *)
(* values its locals hold.  A local holds a value of its own or a view of  *)
(* what another local holds; the transfers of the run are those the        *)
(* checker decided, read from the state it saw at each statement.          *)
(*                                                                         *)
(* The rules of the language that the checker is there to enforce are in   *)
(* fault: a value that was given away is not used again, and while a view  *)
(* is in use nobody else writes to what it views.                          *)
(***************************************************************************)
EXTENDS BorrowCheck

CONSTANT MaxHops    \* bound: edges of the path

VARIABLES
    at,         \* the block and the statement of the run, block 0 for none
    view,       \* the value that each local holds, 0 for none
    viewing,    \* the locals that are bound as views
    above,      \* the locals through which each view was made
    given,      \* locals whose value was given away
    stale,      \* views whose value another holder wrote to since
    fault,      \* "none", or how the run broke a rule
    partial,    \* a view lost the root of its value and stayed usable
    scratch,    \* a temporary's access overlooked a use in a later iteration
    hops        \* edges taken

runVars == << at, view, viewing, above, given, stale, fault, partial, scratch, hops >>

vars == << checkVars, runVars >>

RunInit ==
    /\ at = << 0, 0 >>
    /\ view = [l \in Locals |-> 0]
    /\ viewing = {}
    /\ above = [l \in Locals |-> {}]
    /\ given = {} /\ stale = {}
    /\ fault = "none"
    /\ partial = FALSE /\ scratch = FALSE
    /\ hops = 0

Holding(v) == {l \in Locals : view[l] = v}

NewValue == CHOOSE v \in 1 .. Cardinality(Locals) + 1 : Holding(v) = {}

Exclusive(l) == l \in Mutable \ Temps /\ l \in viewing

Numbering == CHOOSE n \in [Params -> 1 .. Cardinality(Params)] :
                \A p, q \in Params : p # q => n[p] # n[q]

\* The parameters hold values of their own.
StartRun ==
    /\ phase = "accepted" /\ hops = 0
    /\ at' = << 1, 1 >>
    /\ view' = [l \in Locals |-> IF l \in Params THEN Numbering[l] ELSE 0]
    /\ hops' = 1
    /\ UNCHANGED << checkVars, viewing, above, given, stale, fault, partial, scratch >>

-----------------------------------------------------------------------------
(* One statement *)

\* The state that the checker saw here last; it decides without the counts.
Entry == [locals |-> CHOOSE locals \in entries[at[1]][at[2]] : TRUE]

RunKey == layout.start[at[1]] + at[2]

RunStatement == Statements(at[1])[at[2]]

EntryRoots(s) == [i \in DOMAIN s.args |-> ArgumentRoots(Entry, s, i)]

AccessOf(s, i) == ArgumentAccess(Entry, at[1], RunKey, s, EntryRoots(s), i)

ArgumentsWith(s, accesses) ==
    {s.args[i].local : i \in {j \in DOMAIN s.args : AccessOf(s, j) \in accesses}}

Reads(s) == ({s.from} \ {None}) \cup ArgumentsWith(s, {"SharedBorrow"})

\* A target that holds a value is written to, whether the write goes through a
\* view or replaces what a slot holds.
Writes(s) ==
    ArgumentsWith(s, {"MutableBorrow"})
        \cup (IF s.kind = "write" \/ (s.kind \in {"assign", "pack"} /\ view[s.to] # 0)
                THEN {s.to} ELSE {})

\* An aggregate takes the place stored in it, a call the arguments it consumes.
Gives(s) ==
    ArgumentsWith(s, {"move"}) \cup (IF s.kind = "pack" THEN {s.from} ELSE {})

Takes(s) == s.kind = "assign" /\ AssignMoves(Entry, at[1], RunKey, s)

\* Two arguments of one call that overlap must both be reads.
ArgumentsClash(s) ==
    \E i, j \in DOMAIN s.args :
      /\ i # j
      /\ view[s.args[i].local] = view[s.args[j].local]
      /\ AccessOf(s, i) # "SharedBorrow"

FaultOf(s) ==
    LET used == Reads(s) \cup Writes(s) \cup Gives(s)
    IN  IF used \cap given # {} THEN "given"
        ELSE IF \E l \in used : view[l] = 0 THEN "empty"
        ELSE IF used \cap stale # {} \/ ArgumentsClash(s) THEN "stale"
        ELSE "none"

\* An access to what l holds disturbs another view of it: any, if the access
\* is a write, an exclusive one, if it is a read.
Disturbs(l, writes, h) ==
    /\ view[h] = view[l] /\ view[h] # 0
    /\ h # l /\ h \notin above[l]
    /\ l \in writes \/ Exclusive(h)

Staled(reads, writes) ==
    {h \in Locals : \E l \in reads \cup writes : Disturbs(l, writes, h)}

\* The checker looks no further than the block order when a temporary acts.
Overlooks(reads, writes, key) ==
    \E l \in (reads \cup writes) \cap Temps, h \in Locals :
        /\ Disturbs(l, writes, h)
        /\ Expired(h, key) /\ FutureUse(at[1], h, key) # "none"

\* The roots whose values the statement transfers.
Lost(s) ==
    UNION {EffectiveRoots(Entry, l) : l \in IF Takes(s) THEN {s.from} ELSE Gives(s)}

Usable(l, lost) == ~DefinitelyUninit(Invalidate(Entry, lost).locals[l])

\* The locals that end with this statement: those that hold a value given to
\* a call or an aggregate, and those that the checker ended.
Ended(s) ==
    {h \in Locals : \E l \in Gives(s) : view[h] = view[l]}
        \cup (IF Lost(s) = {} THEN {} ELSE {h \in Locals : ~Usable(h, Lost(s))})

\* What s.to holds afterwards: a value, and the locals it is viewed through.  A
\* temporary that is no view is loaded by value.
Bindings(s) ==
    LET fresh == [value |-> NewValue, through |-> {}]
        ViewOf(l) == [value |-> view[l], through |-> {l} \cup above[l]]
    IN  IF s.kind = "call"
          THEN IF s.ret = {} THEN {fresh} ELSE {ViewOf(s.args[i].local) : i \in s.ret}
        ELSE IF s.kind = "pack" \/ ViewedBy(Entry, s.from) = {} THEN {fresh}
        ELSE IF Takes(s) THEN {[value |-> view[s.from], through |-> {}]}
        ELSE {ViewOf(s.from)}

Rebinds(s) ==
    \/ s.kind = "call" /\ s.to # None
    \/ s.kind \in {"assign", "pack"} /\ (view[s.to] = 0 \/ s.to \notin viewing)

\* One of the roots that h has at this point is lost, and may be the one whose
\* value it holds.
LosesRoot(before, h, lost) ==
    /\ view[h] # 0
    /\ \E r \in EffectiveRoots(before, h) \cap lost : r \in Temps \/ view[r] = view[h]

\* A transfer by assignment or into an aggregate asks nobody else to be done
\* with the value: a view of it that has other roots too outlives it.
LeavesView(s) ==
    /\ Takes(s) \/ s.kind = "pack"
    /\ \E h \in Locals : /\ ~(Rebinds(s) /\ h = s.to)
                         /\ ~EffectiveRoots(Entry, h) \subseteq Lost(s)
                         /\ LosesRoot(Entry, h, Lost(s))

\* A temporary becomes a view of a value that it is a root of.
RootsItself(s) ==
    /\ Rebinds(s) /\ s.to \in Temps
    /\ \E l \in IF s.kind = "call" THEN {s.args[i].local : i \in s.ret}
             ELSE IF s.kind = "assign" THEN {s.from} \ {None} ELSE {} :
          l # s.to /\ s.to \in EffectiveRoots(Entry, l)

Settle(s, gone) ==
    IF ~Rebinds(s)
      THEN /\ view' = [l \in Locals |-> IF l \in gone THEN 0 ELSE view[l]]
           /\ viewing' = viewing \ gone
           /\ above' = [l \in Locals |-> IF l \in gone THEN {} ELSE above[l] \ gone]
           /\ given' = given \cup gone
           /\ stale' = (stale \cup Staled(Reads(s), Writes(s))) \ gone
      ELSE \E new \in Bindings(s) :
             LET others == gone \ {s.to}
                 rebound == IF new.value = view[s.to] THEN {} ELSE {s.to}
             IN  /\ view' = [l \in Locals |-> IF l = s.to THEN new.value
                                              ELSE IF l \in gone THEN 0 ELSE view[l]]
                 /\ viewing' = (viewing \ (gone \cup {s.to}))
                                  \cup (IF new.through = {} THEN {} ELSE {s.to})
                 /\ above' = [l \in Locals |->
                                IF l = s.to THEN new.through \ {s.to}
                                ELSE IF l \in gone THEN {} ELSE above[l] \ (others \cup rebound)]
                 /\ given' = (given \cup gone) \ {s.to}
                 /\ stale' = (stale \cup Staled(Reads(s), Writes(s))) \ (gone \cup {s.to})

RunOneStatement ==
    /\ at[1] # 0 /\ fault = "none"
    /\ at[2] \in DOMAIN Statements(at[1])
    /\ LET s == RunStatement
       IN  /\ fault' = FaultOf(s)
           /\ IF FaultOf(s) = "none"
                THEN /\ Settle(s, Ended(s))
                     /\ partial' = (partial \/ LeavesView(s) \/ RootsItself(s))
                     /\ scratch' = (scratch \/ Overlooks(Reads(s), Writes(s), RunKey))
                     /\ at' = [at EXCEPT ![2] = @ + 1]
                ELSE UNCHANGED << at, view, viewing, above, given, stale, partial, scratch >>
    /\ UNCHANGED << checkVars, hops >>

Exit == CHOOSE out \in outs[at[1]] : TRUE

\* The locals that have a value in the block that follows.
Remaining(next) ==
    {l \in Visible(next) : \A in \in ins[next] : ~DefinitelyUninit(in.locals[l])}

\* The terminator reads its operands and the run goes on in a successor, where
\* the locals of the regions it leaves are gone, and so are the views of them.
RunTerminator ==
    /\ at[1] # 0 /\ fault = "none"
    /\ at[2] = Len(Statements(at[1])) + 1
    /\ LET reads == prog.reads[at[1]]
       IN  /\ fault' = IF reads \cap given # {} THEN "given"
                       ELSE IF \E l \in reads : view[l] = 0 THEN "empty"
                       ELSE IF reads \cap stale # {} THEN "stale" ELSE "none"
           /\ scratch' = (scratch \/ Overlooks(reads, {}, RunKey))
           /\ \E next \in IF Successors(at[1]) = {} \/ hops = MaxHops
                            THEN {0} ELSE Successors(at[1]) :
                LET seen == IF next = 0 THEN {} ELSE Remaining(next)
                IN  /\ at' = << next, 1 >>
                    /\ view' = [l \in Locals |-> IF l \in seen THEN view[l] ELSE 0]
                    /\ viewing' = viewing \cap seen
                    /\ above' = [l \in Locals |-> IF l \in seen THEN above[l] \cap seen ELSE {}]
                    /\ given' = given \cap seen
                    /\ stale' = (stale \cup Staled(reads, {})) \cap seen
                    /\ partial' = (partial \/ \E h \in seen :
                                       LosesRoot(Exit, h, Locals \ Visible(next)))
    /\ hops' = IF hops = MaxHops THEN hops ELSE hops + 1
    /\ UNCHANGED checkVars

\* The function was rejected, or the run came to its end or broke a rule.
Over ==
    /\ phase = "rejected" \/ (hops > 0 /\ at[1] = 0) \/ fault # "none"
    /\ UNCHANGED vars

RunStep == StartRun \/ RunOneStatement \/ RunTerminator

FullInit == Init /\ RunInit

FullNext == (Next /\ UNCHANGED runVars) \/ RunStep \/ Over

FullSpec == FullInit /\ [][FullNext]_vars

-----------------------------------------------------------------------------
(* Properties *)

\* The blocks that a path from b reaches through blocks of S, b included.
ReachedThrough(b, S) ==
    LET reached[n \in 0 .. Len(prog.stmts)] ==
            IF n = 0 THEN {b}
            ELSE LET before == reached[n - 1]
                 IN  before \cup UNION {Successors(d) : d \in before \cap S}
    IN  reached[Len(prog.stmts)]

Unused(l) == {b \in Blocks : l \notin UsesOf(b)}

\* compute_future_use_sets agrees with the paths of the function: a local may
\* be used from b if some path meets a use of it, and must be if no path that
\* avoids all its uses comes to an end.
FutureUseMatchesPaths ==
    phase \notin {"may", "must"} /\ work = << 1 >> =>
        \A b \in Blocks, l \in Locals :
          /\ l \in may[b] <=> ~ReachedThrough(b, Blocks) \subseteq Unused(l)
          /\ l \in must[b] <=>
                \A d \in ReachedThrough(b, Unused(l)) \cap Unused(l) : Successors(d) # {}

\* A function that is accepted never uses a local whose value it gave away to
\* a call, an aggregate or another binding, nor one that never had a value,
\* except through a view that a transfer left usable (partial).
NoUseAfterTransfer == fault \in {"given", "empty"} => partial

\* A function that is accepted never uses a view after another holder of the
\* value wrote to it, and never writes through a binding while another mutable
\* view of the value is in use, except through a view that a transfer left
\* usable (partial) or one read in a later iteration than a temporary's access
\* looked ahead to (scratch).
AliasesStayExclusive == fault = "stale" => partial \/ scratch

\* "Exclusive access conflicts with overlapping active shared access": what
\* borrow-validation.bd says of every accepted function, without exception.
ViewsStayExclusive == fault # "stale"
=============================================================================
