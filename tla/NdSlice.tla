------------------------------ MODULE NdSlice -------------------------------
(***************************************************************************)
(* math::NdSlice and NdArray (src/sfc/math/): views of an array of some    *)
(* rank, made by indexing the last axis and by slicing every axis, with a  *)
(* span or with one index.  A view is an address, dimensions and steps;    *)
(* what it should show is followed beside it, without steps.               *)
(***************************************************************************)
EXTENDS Integers, Sequences, FiniteSets

CONSTANTS
  ArrayDims,  \* the dimensions of the arrays, as sequences
  Longest,    \* the longest of them
  Ends        \* indices and ends of spans; those above Longest are cut

\* An array has a rank, and dimensions that Longest bounds.
ArrayAssumption ==
  /\ Longest \in Nat /\ Ends \subseteq Nat
  /\ \A ds \in ArrayDims : Len(ds) \in Nat \ {0} /\ ds \in [1 .. Len(ds) -> 0 .. Longest]

VARIABLES
  dims,       \* the dimensions of the array
  view,       \* the view: data, dims and step
  shows       \* ghost: the cell of the array that each index of the view means

viewVars == <<dims, view, shows>>

Least(a, b) == IF a < b THEN a ELSE b

\* fold_mul of the first n
Product(s, n) == LET f[i \in 0 .. n] == IF i = 0 THEN 1 ELSE f[i - 1] * s[i] IN f[n]

\* All indices below dimensions
Box(ds) == {i \in [DOMAIN ds -> 0 .. Longest - 1] : \A k \in DOMAIN ds : i[k] < ds[k]}

(***************************************************************************)
(* Dims, Step, Idxs                                                        *)
(***************************************************************************)

\* Faulty form of FromDims: the last axis is the dense one.
FromDimsReversed(ds) == [k \in DOMAIN ds |-> Product(ds, Len(ds)) \div Product(ds, k)]

\* Step::from_dims: the first axis is the dense one.
FromDims(ds) == [k \in DOMAIN ds |-> Product(ds, k - 1)]

IsArray(v) == v.step = FromDims(v.dims)

\* Idxs::operator^
At(idxs, step) ==
  LET f[k \in 0 .. Len(idxs)] == IF k = 0 THEN 0 ELSE f[k - 1] + idxs[k] * step[k] IN f[Len(idxs)]

\* Idxs::operator% and operator-
Clamped(idxs, ds) == [k \in DOMAIN idxs |-> Least(idxs[k], ds[k])]
Minus(end, start) == [k \in DOMAIN end |-> IF end[k] > start[k] THEN end[k] - start[k] ELSE 0]

\* The entries of the axes that a slice keeps: those with a span.
Kept(s, spans) ==
  LET at(n) == CHOOSE k \in DOMAIN s : Len(spans[k]) = 2
                 /\ Cardinality({j \in 1 .. k : Len(spans[j]) = 2}) = n
  IN [n \in 1 .. Cardinality({k \in DOMAIN s : Len(spans[k]) = 2}) |-> s[at(n)]]

(***************************************************************************)
(* The operations                                                          *)
(***************************************************************************)

\* NdArray::with_dims
Init ==
  /\ dims \in ArrayDims
  /\ view = [data |-> 0, dims |-> dims, step |-> FromDims(dims)]
  /\ shows = [i \in Box(dims) |-> i]

\* operator[](usize): the last axis goes.
Index(idx) ==
  LET n == Len(view.dims) IN
  /\ n > 1 /\ idx < view.dims[n]
  /\ view' = [data |-> view.data + idx * view.step[n], dims |-> SubSeq(view.dims, 1, n - 1),
              step |-> SubSeq(view.step, 1, n - 1)]
  /\ shows' = [i \in Box(view'.dims) |-> shows[Append(i, idx)]]
  /\ UNCHANGED dims

\* slice: the view of spans, each with one end or with two
Sliced(v, spans) ==
  LET idx0 == Clamped([k \in DOMAIN spans |-> spans[k][1]], v.dims)
      idx1 == Clamped([k \in DOMAIN spans |-> spans[k][Len(spans[k])]], v.dims)
  IN [data |-> v.data + At(idx0, v.step), dims |-> Kept(Minus(idx1, idx0), spans),
      step |-> Kept(v.step, spans)]

\* One index has to be in range: slice would cut it to the length of its axis,
\* which is past the axis.
SliceBy(spans) ==
  /\ DOMAIN spans = DOMAIN view.dims
  /\ \E k \in DOMAIN spans : Len(spans[k]) = 2
  /\ \A k \in DOMAIN spans : Len(spans[k]) = 1 => spans[k][1] < view.dims[k]
  /\ view' = Sliced(view, spans)
  /\ LET axes == {k \in DOMAIN spans : Len(spans[k]) = 2}
         whole(i) == [k \in DOMAIN spans |->
           IF k \in axes THEN spans[k][1] + i[Cardinality({j \in axes : j <= k})] ELSE spans[k][1]]
         lengths == [k \in DOMAIN spans |->
           Cardinality({x \in 0 .. view.dims[k] - 1 : spans[k][1] <= x /\ x < spans[k][Len(spans[k])]})]
     IN shows' = [i \in Box(Kept(lengths, spans)) |-> shows[whole(i)]]
  /\ UNCHANGED dims

Span == {<<a>> : a \in Ends} \cup {<<a, b>> : a, b \in Ends}
Slice == \E spans \in [DOMAIN view.dims -> Span] : SliceBy(spans)

\* assign: the addresses that are written, the last axis in the outer loop
Assigned(v) ==
  LET f[n \in 1 .. Len(v.dims)] ==
        {i * v.step[n] + x : i \in 0 .. v.dims[n] - 1, x \in IF n = 1 THEN {0} ELSE f[n - 1]}
  IN {v.data + x : x \in f[Len(v.dims)]}

Next == (\E idx \in Ends : Index(idx)) \/ Slice
-----------------------------------------------------------------------------
\* Where a cell of the array is: behind those that come before it when the
\* first axis runs fastest
Home(c) ==
  LET f[k \in 1 .. Len(dims)] == IF k = Len(dims) THEN c[k] ELSE c[k] + dims[k] * f[k + 1] IN f[1]

\* A view of a view of an array, however it was cut, has the elements it
\* should have, each at the address of the cell it means, inside the array;
\* an assignment writes to those and to no other; and is_array is true of a
\* view only if its elements lie side by side.
ViewsShow ==
  /\ DOMAIN shows = Box(view.dims)
  /\ \A i \in DOMAIN shows :
       /\ view.data + At(i, view.step) = Home(shows[i])
       /\ \A k \in DOMAIN dims : shows[i][k] < dims[k]
  /\ Assigned(view) = {Home(shows[i]) : i \in DOMAIN shows}
  /\ IsArray(view) =>
       {Home(shows[i]) : i \in DOMAIN shows}
         = view.data .. view.data + Product(view.dims, Len(view.dims)) - 1
=============================================================================
