------------------------------- MODULE Precode -------------------------------
(***************************************************************************)
(* The inversion of the constraint matrix of a block and its application   *)
(* to the block's symbols (precode.c with sched.c, spmat.c and wrkmat.c).  *)
(* precode_matrix_invert turns the matrix A into a schedule S: a list of   *)
(* row operations and two permutations, which precode_matrix_intermediate  *)
(* applies to the symbols D.  Each action is one iteration of the code's   *)
(* outer loops.                                                            *)
(*                                                                         *)
(* Rows and columns are counted from 0, as in the code; a row of the       *)
(* sparse matrix is the sequence of the columns of its ones.               *)
(***************************************************************************)
EXTENDS OctField, Params

VARIABLES
    pc,    \* where the inversion stands
    step,     \* the row the loop of that place has reached
    P,     \* params of the object
    A,     \* the sparse matrix: A[row], without the HDPC rows
    S,     \* schedule
    NZT,   \* NZT[b]: the stack of rows that have had b ones in V
    U,     \* wrkmat: what is left of the matrix, on the columns from S.i on
    D      \* octmat: the symbols

precodeVars == <<pc, step, P, A, S, NZT, U, D>>

NoMark == -1   \* kv_size(S->ops) - 1 of no operations: UINT_MAX

Upto(n) == 0 .. n - 1
Exchange(f, m, n) == [f EXCEPT ![m] = f[n], ![n] = f[m]]
HasCol(row, col) == \E n \in DOMAIN row : row[n] = col

-----------------------------------------------------------------------------
(***************************************************************************)
(* The matrix.                                                             *)
(***************************************************************************)

\* precode_matrix_make_LDPC1 with the identity beside it, and _LDPC2: row r
Ldpc(p, r) ==
    LET inLdpc1 == {col \in Upto(p.B) :
                      \E n \in 0 .. 2 : r = (col + n * (col \div p.S + 1)) % p.S}
    IN  Sorted(inLdpc1)
        \o <<p.B + r, p.W + (r % p.P), p.W + ((r + 1) % p.P)>>

\* precode_matrix_gen, with what nanorq_repair_block patches into it: isis[n]
\* is the encoding symbol of row S + H + n.
PrecodeMatrix(p, isis) ==
    [r \in Upto(p.S + p.H + Cardinality(DOMAIN isis)) |->
        IF r < p.S THEN Ldpc(p, r)
        ELSE IF r < p.S + p.H THEN << >> ELSE Idxs(isis[r - p.S - p.H], p)]

\* precode_matrix_make_HDPC: each column, from the last one down, is twice the
\* one before with two of its bits changed.
Toggled(p, col) ==
    LET b1 == Rnd(col + 1, 6, p.H)
    IN  {b1, (b1 + Rnd(col + 1, 7, p.H - 1) + 1) % p.H}
NextPower == [o \in Octet |-> IF o = 0 THEN 0 ELSE OCT_EXP[OCT_LOG[o] + 1]]
HdpcColumn(p, col) ==
    LET n == p.Kprime + p.S
        Entry(row) ==
            LET from[m \in 0 .. n - 1 - col] ==   \* that of column n - 1 - m
                    IF m = 0 THEN OCT_EXP[row]
                    ELSE Xor[NextPower[from[m - 1]]]
                            [IF row \in Toggled(p, n - 1 - m) THEN 1 ELSE 0]
            IN  from[n - 1 - col]
    IN  [row \in Upto(p.H) |-> Entry(row)]

NumRows == Cardinality(DOMAIN A)
NumSparse == NumRows - P.H       \* Srows: the HDPC rows are at the bottom

\* spmat_transpose: the rows that have a one in col
RowsOf(col) == {r \in Upto(NumRows) : HasCol(A[r], col)}

-----------------------------------------------------------------------------
(***************************************************************************)
(* precode_matrix_sort and precode_matrix_precond: rows and columns are    *)
(* permuted so that the first S.i of both make a lower triangle X.         *)
(***************************************************************************)

\* spmat_nnz, where a row without ones counts as full
InitialNnz(p, row) ==
    LET n == Cardinality({m \in DOMAIN row : row[m] < p.L - p.P})
    IN  IF n = 0 THEN p.L ELSE n

\* sched_new and precode_matrix_sort
NewSchedule(p, a) ==
    LET rows == Cardinality(DOMAIN a)
        d == [r \in Upto(rows) |-> (r + p.S + p.H) % rows]
    IN  [d |-> d,
         di |-> [r \in Upto(rows) |-> CHOOSE m \in Upto(rows) : d[m] = r],
         c |-> [m \in Upto(p.L) |-> m], ci |-> [m \in Upto(p.L) |-> m],
         nz |-> [r \in Upto(rows) |-> InitialNnz(p, a[r])],
         ops |-> << >>, i |-> 0, u |-> p.P, marks |-> <<0, 0>>]

\* precode_matrix_invert up to the first loop
BeginInvert(p, a, symbols) ==
    LET s == NewSchedule(p, a)
        sparse == SubSeq([n \in 1 .. Cardinality(DOMAIN a) |-> s.d[n - 1]],
                         1, Cardinality(DOMAIN a) - p.H)
    IN  /\ pc' = "precond"
        /\ step' = 0
        /\ P' = p /\ A' = a /\ S' = s /\ D' = symbols
        /\ NZT' = [b \in 1 .. 2 |-> Kept(sparse, {r \in DOMAIN a : s.nz[r] = b})]
        /\ U' = << >>

\* precode_matrix_choose: of the stacks only the entries that are still true
Fresh(b) == {n \in DOMAIN NZT[b] : /\ S.di[NZT[b][n]] >= S.i
                                   /\ S.nz[NZT[b][n]] = b}

InLoop == S.i + S.u < P.L

\* The rows at the places m and n change places.
RowsSwapped(m, n) == [S EXCEPT !.d = Exchange(@, m, n),
                               !.di = Exchange(@, S.d[m], S.d[n])]

\* precode_row_nz_at: the places in V of the ones of row, at most nz of them
OnesAt(row) ==
    LET places == [n \in DOMAIN A[row] |-> S.ci[A[row][n]]]
        inV == Kept(places, S.i .. P.L - S.u - 1)
    IN  {inV[n] : n \in 1 .. Min({Len(inV), S.nz[row]})}

\* precode_matrix_swap_cols: the first one comes to the start of V, the second
\* to its end.
ColsSwapped(s, ones) ==
    LET first == Exchange(s.c, S.i, Min(ones))
        last == IF Cardinality(ones) = 2
                THEN Exchange(first, P.L - S.u - 1, Max(ones)) ELSE first
    IN  [s EXCEPT !.c = last,
                  !.ci = [col \in Upto(P.L) |->
                             CHOOSE m \in Upto(P.L) : last[m] = col]]

\* A slip of Leaving: the ones of the column put aside are still counted.
LeavingFirst(s, r) == <<s.c[S.i]>>

\* precode_matrix_update_nnz: the columns that leave V
Leaving(s, r) == IF r = 2 THEN <<s.c[S.i], s.c[P.L - S.u - 1]>> ELSE <<s.c[S.i]>>

\* The counters before column n of the leaving ones, and what is pushed
NnzBefore(cols, n) ==
    [row \in Upto(NumRows) |->
        S.nz[row] - Cardinality({m \in 1 .. n - 1 : HasCol(A[row], cols[m])})]
PushedFor(cols, b) ==
    LET pushed(n) == Sorted({row \in RowsOf(cols[n]) : NnzBefore(cols, n + 1)[row] = b})
    IN  IF Len(cols) = 2 THEN pushed(1) \o pushed(2) ELSE pushed(1)

\* The schedule s, one row of the triangle and r columns further
Advanced(s, r) ==
    LET cols == Leaving(s, r)
    IN  [s EXCEPT !.nz = NnzBefore(cols, Len(cols) + 1), !.i = @ + 1, !.u = @ + r - 1]

\* The stacks without the entries that have been looked at, the last of them
\* at top of stack b
Restacked(b, top, cols) ==
    LET left == [NZT EXCEPT ![b] = SubSeq(@, 1, top - 1)]
        popped == IF b = 2 THEN [left EXCEPT ![1] = << >>] ELSE left
    IN  [m \in 1 .. 2 |-> popped[m] \o PushedFor(cols, m)]

PrecondStep(b) ==
    /\ pc = "precond" /\ InLoop
    /\ b = 2 => Fresh(1) = {}
    /\ Fresh(b) # {}
    /\ LET top == Max(Fresh(b))
           row == NZT[b][top]
           ones == OnesAt(row)
           s == ColsSwapped(RowsSwapped(S.i, S.di[row]), ones)
           r == Cardinality(ones)
       IN  /\ S' = Advanced(s, r)
           /\ NZT' = Restacked(b, top, Leaving(s, r))
    /\ UNCHANGED <<pc, step, P, A, U, D>>

\* The loop ends; precode_matrix_fill_U.
PrecondEnd ==
    /\ pc = "precond"
    /\ InLoop => Fresh(1) = {} /\ Fresh(2) = {}
    /\ pc' = "forward"
    /\ step' = 0
    /\ S' = [S EXCEPT !.u = P.L - S.i]
    /\ NZT' = [b \in 1 .. 2 |-> << >>]
    /\ U' = [row |-> [r \in Upto(NumRows) |->
                         [q \in Upto(P.L - S.i) |->
                             IF HasCol(A[r], S.c[S.i + q]) THEN 1 ELSE 0]],
             type |-> {}, spare |-> 0, hdpc |-> << >>]
    /\ UNCHANGED <<P, A, D>>

-----------------------------------------------------------------------------
(***************************************************************************)
(* The work matrix.  Its rows hold bits until the HDPC rows come in; those *)
(* hold octets, and so does a row that an octet row is added to, as long   *)
(* as there are spare rows in wrkmat.GF256.                                *)
(***************************************************************************)

At(place, col) == U.row[S.d[place]][col]

\* sched_push, of a sequence of operations
Pushed(s, ops) == [s EXCEPT !.ops = @ \o ops]

\* wrkmat_axpy of the row source, times beta[row], into each row of targets;
\* bits are only ever added.
Converted(targets, source) ==
    IF source \in U.type THEN {row \in targets : row \notin U.type} ELSE {}
\* A slip of SpareLeft: there are no rows but those of the HDPC block.
SpareLeftNone(targets, source) ==
    U.spare + Cardinality(Converted(targets, source)) <= P.H
SpareLeft(targets, source) ==
    U.spare + Cardinality(Converted(targets, source)) <= 2 * P.H
Axpy(w, targets, source, beta) ==
    [w EXCEPT !.row = [row \in Upto(NumRows) |->
                          IF row \in targets
                          THEN AddRow(@[row], @[source], beta[row])
                          ELSE @[row]],
              !.type = @ \union Converted(targets, source),
              !.spare = @ + Cardinality(Converted(targets, source))]
AxpyOps(rows, source, beta) ==
    [n \in DOMAIN rows |-> [i |-> rows[n], j |-> source, beta |-> beta[rows[n]]]]
One == [row \in Upto(NumRows) |-> 1]

(***************************************************************************)
(* precode_matrix_make_U: the triangle X is eliminated, first within its   *)
(* own rows, then from the rows below.                                     *)
(***************************************************************************)

\* precode_matrix_fwd_GE(s, e), one row
FwdTargets(s, e) ==
    Sorted({row \in RowsOf(S.c[step]) : S.di[row] > Max({s, step}) /\ S.di[row] < e})
FwdStep(s, e) ==
    LET rows == FwdTargets(s, e)
    IN  /\ U' = Axpy(U, ToSet(rows), S.d[step], One)
        /\ S' = Pushed(S, AxpyOps(rows, S.d[step], One))
        /\ step' = step + 1
        /\ UNCHANGED <<pc, P, A, NZT, D>>

Forward == pc = "forward" /\ step < S.i /\ FwdStep(0, S.i)

\* S->marks[0] = kv_size(S->ops) - 1, in unsigned arithmetic
LastOp == IF S.ops = << >> THEN NoMark ELSE Len(S.ops) - 1

ForwardEnd ==
    /\ pc = "forward" /\ step = S.i
    /\ S' = [S EXCEPT !.marks[1] = LastOp]
    /\ pc' = "below" /\ step' = 0
    /\ UNCHANGED <<P, A, NZT, U, D>>

Below == pc = "below" /\ step < S.i /\ FwdStep(S.i - 1, NumSparse)

\* With H symbols more than needed the bits may be enough.
BelowEnd ==
    /\ pc = "below" /\ step = S.i
    /\ IF NumSparse >= P.L THEN pc' = "gf2" /\ step' = S.i
       ELSE pc' = "hdpc" /\ step' = -1
    /\ UNCHANGED <<P, A, S, NZT, U, D>>

(***************************************************************************)
(* The elimination of what is left, with pivots found among the places     *)
(* from step on, below last.                                                  *)
(***************************************************************************)

\* A slip of Pivots: the row itself is left out.
PivotsBelow(last) == {m \in step + 1 .. last - 1 : At(m, step - S.i) # 0}

Pivots(last) == {m \in step .. last - 1 : At(m, step - S.i) # 0}
RowsBelow(s, last) ==
    Kept([n \in 1 .. last - 1 - step |-> s.d[step + n]],
         {row \in Upto(NumRows) : U.row[row][step - S.i] # 0})

Solved == step = P.L

Gf2Step ==
    /\ pc = "gf2" /\ ~Solved /\ Pivots(NumSparse) # {}
    /\ LET s == RowsSwapped(step, Min(Pivots(NumSparse)))
           rows == RowsBelow(s, NumSparse)
       IN  /\ S' = Pushed(s, AxpyOps(rows, s.d[step], One))
           /\ U' = Axpy(U, ToSet(rows), s.d[step], One)
    /\ step' = step + 1
    /\ UNCHANGED <<pc, P, A, NZT, D>>

Gf2Fails ==
    /\ pc = "gf2" /\ ~Solved /\ Pivots(NumSparse) = {}
    /\ pc' = "hdpc" /\ step' = -1
    /\ UNCHANGED <<P, A, S, NZT, U, D>>

\* precode_matrix_fill_HDPC, the block U_lower and its overlay
HdpcBegin ==
    /\ pc = "hdpc" /\ step = -1
    /\ U' = [row |-> [r \in Upto(NumRows) |->
                         IF r \in P.S .. P.S + P.H - 1
                         THEN [q \in Upto(S.u) |->
                                 IF q < S.u - P.H
                                 THEN HdpcColumn(P, S.c[S.i + q])[r - P.S]
                                 ELSE IF q - (S.u - P.H) = r - P.S
                                      THEN 1 ELSE 0]
                         ELSE U.row[r]],
             type |-> P.S .. P.S + P.H - 1, spare |-> P.H,
             hdpc |-> [col \in Upto(P.Kprime + P.S) |-> HdpcColumn(P, col)]]
    /\ step' = 0
    /\ UNCHANGED <<pc, P, A, S, NZT, D>>

\* Its loop: the rows of X are taken out of the HDPC rows.
HdpcStep ==
    /\ pc = "hdpc" /\ step >= 0 /\ step < S.i
    /\ LET column == U.hdpc[S.c[step]]
           beta == [r \in Upto(NumRows) |->
                       IF S.di[r] >= NumSparse THEN column[S.di[r] - NumSparse]
                       ELSE 0]
           rows == Kept([h \in 1 .. P.H |-> S.d[NumSparse + h - 1]],
                        {r \in Upto(NumRows) : beta[r] # 0})
       IN  /\ U' = Axpy(U, ToSet(rows), S.d[step], beta)
           /\ S' = Pushed(S, AxpyOps(rows, S.d[step], beta))
    /\ step' = step + 1
    /\ UNCHANGED <<pc, P, A, NZT, D>>

HdpcEnd ==
    /\ pc = "hdpc" /\ step = S.i
    /\ pc' = "gf256"
    /\ UNCHANGED <<step, P, A, S, NZT, U, D>>

\* precode_matrix_solve_gf256: the pivot is scaled to 1 first.
Scaled(row, u) ==
    IF u > 1 THEN [U EXCEPT !.row[row] = ScaleRow(@, OCT_INV[u])] ELSE U
ScaleOps(row, u) ==
    IF u > 1 THEN <<[i |-> row, j |-> OCT_INV[u], beta |-> 0]>> ELSE << >>

Gf256Step ==
    /\ pc = "gf256" /\ ~Solved /\ Pivots(NumRows) # {}
    /\ LET m == Min(Pivots(NumRows))
           u == At(m, step - S.i)
           s == RowsSwapped(step, m)
           rows == RowsBelow(s, NumRows)
           beta == [r \in Upto(NumRows) |-> U.row[r][step - S.i]]
       IN  IF SpareLeft(ToSet(rows), s.d[step])
           THEN /\ S' = Pushed(s, ScaleOps(s.d[step], u) \o AxpyOps(rows, s.d[step], beta))
                /\ U' = Axpy(Scaled(s.d[step], u), ToSet(rows), s.d[step], beta)
                /\ step' = step + 1
                /\ UNCHANGED pc
           ELSE \* "unhandled axpy into gf2 row"
                pc' = "aborted" /\ UNCHANGED <<step, S, U>>
    /\ UNCHANGED <<P, A, NZT, D>>

\* The rank is too small: precode_matrix_invert returns NULL.
Gf256Fails ==
    /\ pc = "gf256" /\ ~Solved /\ Pivots(NumRows) = {}
    /\ pc' = "singular"
    /\ UNCHANGED <<step, P, A, S, NZT, U, D>>

\* S->marks[1] = kv_size(S->ops) - 1
Triangular ==
    /\ pc \in {"gf2", "gf256"} /\ Solved
    /\ S' = [S EXCEPT !.marks[2] = LastOp]
    /\ pc' = "back" /\ step' = P.L - 1
    /\ UNCHANGED <<P, A, NZT, U, D>>

\* precode_matrix_backsolve, one row
Backsolve ==
    /\ pc = "back" /\ step >= S.i
    /\ LET above == Sorted({r \in RowsOf(S.c[step]) : S.di[r] < S.i})
           beta == [r \in Upto(NumRows) |-> U.row[r][step - S.i]]
           inU == Kept([n \in 1 .. step - S.i |-> S.d[S.i + n - 1]],
                       {r \in Upto(NumRows) : beta[r] # 0})
       IN  S' = Pushed(S, AxpyOps(above, S.d[step], One) \o AxpyOps(inU, S.d[step], beta))
    /\ step' = step - 1
    /\ UNCHANGED <<pc, P, A, NZT, U, D>>

\* precode_matrix_invert returns; precode_matrix_intermediate begins.
BacksolveEnd ==
    /\ pc = "back" /\ step < S.i
    /\ pc' = "apply1" /\ step' = 0
    /\ U' = << >>
    /\ UNCHANGED <<P, A, S, NZT, D>>

-----------------------------------------------------------------------------
(***************************************************************************)
(* precode_matrix_intermediate.                                            *)
(***************************************************************************)

\* precode_matrix_apply_op
AppliedOp(symbols, op) ==
    [symbols EXCEPT ![op.i] = IF op.beta # 0
                              THEN AddRow(@, symbols[op.j], op.beta)
                              ELSE ScaleRow(@, op.j)]

\* The mark is unsigned: no index is behind one of no operations.
Behind(i, mark) == mark # NoMark /\ i > mark

\* One round of a loop over the operations; behind the end of the list there is
\* nothing that could be applied.
Apply(advance) ==
    IF step < Len(S.ops)
    THEN D' = AppliedOp(D, S.ops[step + 1]) /\ step' = step + advance /\ UNCHANGED pc
    ELSE pc' = "overrun" /\ UNCHANGED <<D, step>>
EndLoop(next, first) == pc' = next /\ step' = first /\ UNCHANGED D

\* precode_matrix_apply_sched: its four loops
ApplySched ==
    /\ \/ pc = "apply1" /\ ~Behind(step + 1, S.marks[2]) /\ Apply(1)
       \/ pc = "apply1" /\ Behind(step + 1, S.marks[2]) /\ EndLoop("apply2", S.marks[1])
       \/ pc = "apply2" /\ step >= 0 /\ Apply(-1)
       \/ pc = "apply2" /\ step < 0 /\ EndLoop("apply3", S.marks[2])
       \/ pc = "apply3" /\ step < Len(S.ops) /\ Apply(1)
       \/ pc = "apply3" /\ step >= Len(S.ops) /\ EndLoop("apply4", 0)
       \/ pc = "apply4" /\ ~Behind(step, S.marks[1]) /\ Apply(1)
       \/ pc = "apply4" /\ Behind(step, S.marks[1]) /\ EndLoop("permute", 0)
    /\ UNCHANGED <<P, A, S, NZT, U>>

\* precode_matrix_permute: row m goes to place to[m].
Permuted(symbols, to) ==
    [r \in DOMAIN symbols |->
        LET from == {m \in DOMAIN to : to[m] = r}
        IN  IF from = {} THEN symbols[r] ELSE symbols[CHOOSE m \in from : TRUE]]

Permute ==
    /\ pc = "permute"
    /\ D' = Permuted(Permuted(D, S.di), S.c)
    /\ pc' = "inverted"
    /\ UNCHANGED <<step, P, A, S, NZT, U>>

Invert ==
    \/ \E b \in 1 .. 2 : PrecondStep(b)
    \/ PrecondEnd
    \/ Forward \/ ForwardEnd \/ Below \/ BelowEnd
    \/ Gf2Step \/ Gf2Fails \/ HdpcBegin \/ HdpcStep \/ HdpcEnd
    \/ Gf256Step \/ Gf256Fails \/ Triangular \/ Backsolve \/ BacksolveEnd
    \/ ApplySched \/ Permute
=============================================================================
