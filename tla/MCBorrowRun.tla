------------------------------ MODULE MCBorrowRun ------------------------------
(***************************************************************************)
(* Small functions over two mutable parameters x and y, a view c, a mutable *)
(* binding m and a compiler temporary t, in the three shapes that the       *)
(* lowering of straight code, "if" and "while" produces.                    *)
(***************************************************************************)
EXTENDS BorrowRun

CONSTANTS x, y, c, m, t

MCLocals == {x, y, c, m, t}
MCParams == {x, y}
MCMutable == {x, y, m, t}
MCTemps == {t}

Stmt(kind, to, from) ==
    [kind |-> kind, to |-> to, from |-> from, args |-> << >>, ret |-> {}]
Eval(l) == Stmt("eval", None, l)
Assign(to, from) == Stmt("assign", to, from)
Fresh(to) == Stmt("assign", to, None)
Write(to) == Stmt("write", to, None)
Pack(to, from) == Stmt("pack", to, from)
Call(locals, effects, to, ret) ==
    [kind |-> "call", to |-> to, from |-> None, ret |-> ret,
     args |-> [i \in DOMAIN locals |-> [local |-> locals[i], effect |-> effects[i]]]]
Consume(l) == Call(<< l >>, << "MayConsumeMutable" >>, None, {})
Borrow(l) == Call(<< l >>, << "MutableBorrow" >>, None, {})
Skip == Stmt("skip", None, None)

Kept(stmts) == SelectSeq(stmts, LAMBDA s : s # Skip)

Targets(stmts, b) == {stmts[b][i].to : i \in DOMAIN stmts[b]}

\* A binding belongs to the region of its first assignment, a temporary to the
\* region that all its assignments share.
Declared(stmts, region) ==
    [l \in Locals |->
        LET regions == {region[b] : b \in {d \in DOMAIN stmts : l \in Targets(stmts, d)}}
        IN  IF l \in Params \/ regions = {} THEN 0
            ELSE IF l \in Temps /\ Cardinality(regions) > 1 THEN 0
            ELSE region[CHOOSE b \in DOMAIN stmts :
                          /\ l \in Targets(stmts, b)
                          /\ \A d \in 1 .. b - 1 : l \notin Targets(stmts, d)]]

Function(stmts, succ, region) ==
    [stmts |-> stmts, succ |-> succ, region |-> region,
     parent |-> [r \in 0 .. 2 |-> 0],
     declared |-> Declared(stmts, region),
     reads |-> [b \in DOMAIN stmts |-> {}]]

Line(stmts) == Function(<< Kept(stmts) >>, << << >> >>, << 0 >>)

\* The entry, the two branches, the merge block.
Diamond(entry, then, else, merge) ==
    Function(<< Kept(entry), Kept(then), Kept(else), Kept(merge) >>,
             << << 2, 3 >>, << 4 >>, << 4 >>, << >> >>, << 0, 1, 2, 0 >>)

\* The entry, the header, which reads its condition, the body, the exit, the
\* back edge.
Loop(entry, header, body, exit, condition) ==
    [Function(<< Kept(entry), Kept(header), Kept(body), Kept(exit), << >> >>,
              << << 2 >>, << 3, 4 >>, << 5 >>, << >>, << 2 >> >>, << 0, 0, 1, 0, 0 >>)
        EXCEPT !.reads[2] = condition]

\* Views of one parameter or the other, given to a binding and written to.
Diamonds ==
    {Diamond(<< a >>, << b >>, << d >>, << e, f, g, h, i >>) :
        a \in {Skip, Fresh(m)},
        b \in {Assign(t, x), Assign(m, x), Consume(x), Write(x)},
        d \in {Assign(t, y), Assign(m, y), Eval(y)},
        e \in {Assign(c, t), Assign(c, x), Skip},
        f \in {Assign(m, x), Assign(m, t), Skip},
        g \in {Write(m), Write(x), Pack(m, x), Borrow(x)},
        h \in {Eval(c), Eval(m)},
        i \in {Eval(x), Eval(y)}}

\* Views made before or inside a loop, used in a later iteration.
Loops ==
    {Loop(<< a >>, << b >>, << d, e, f >>, << g >>, condition) :
        a \in {Fresh(m), Assign(c, x), Assign(t, x), Assign(m, x)},
        b \in {Skip, Eval(c), Eval(t), Assign(t, x)},
        d \in {Assign(m, x), Assign(c, x), Assign(c, t), Assign(t, x), Consume(x)},
        e \in {Write(x), Write(m), Write(t), Pack(m, y), Assign(m, y)},
        f \in {Skip, Eval(m), Eval(c), Fresh(x)},
        g \in {Skip, Eval(x)},
        condition \in {{}, {y}}}

\* Calls with two arguments and results that view them.
Lines ==
    {Line(<< a, b, d, e >>) :
        a \in {Assign(c, x), Assign(m, x), Fresh(c)},
        b \in {Call(<< u, v >>, << eu, ev >>, to, ret) :
                  u \in {x}, v \in {c, y, m},
                  eu \in {"SharedBorrow", "MutableBorrow", "MayConsumeMutable"},
                  ev \in {"SharedBorrow", "MayConsumeShared"},
                  to \in {None, t}, ret \in {{}, {1}, {2}}},
        d \in {Assign(m, t), Assign(c, t), Consume(c), Skip},
        e \in {Eval(c), Write(m), Write(x), Eval(y)}}

AssignedOnce(p, l) ==
    \A b, d \in DOMAIN p.stmts : \A i \in DOMAIN p.stmts[b], j \in DOMAIN p.stmts[d] :
        p.stmts[b][i].to = l /\ p.stmts[d][j].to = l => b = d /\ i = j

MCPrograms ==
    {p \in Diamonds \cup Loops \cup Lines : AssignedOnce(p, c)}
=============================================================================
