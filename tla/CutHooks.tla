------------------------------ MODULE CutHooks ------------------------------
(***************************************************************************)
(* What crosses a cut (sl/hooks.py): the built-in hooks, a chain of them,  *)
(* and the bytes a payload is packed into.                                 *)
(*                                                                         *)
(* A tensor has a shape, a type and its elements in row-major order, as    *)
(* integers over a common denominator `den'.  A payload is one tensor or a *)
(* list of them.  A hook is the sequence of built-in hooks it chains; no   *)
(* hook is the empty one.                                                  *)
(***************************************************************************)
EXTENDS Integers, Sequences, FiniteSets, SequencesExt

Floats == {"float32", "float16"}

(* element_size(), in bytes. *)
Width == [float32 |-> 4, float16 |-> 2, int64 |-> 8, int32 |-> 4, uint8 |-> 1]

(* s itself: concatenating makes TLC evaluate its elements once. *)
Now(s) == s \o <<>>

Tensor(shape, type, data) == [shape |-> Now(shape), type |-> type, data |-> Now(data), den |-> 1]

One(t) == [is_list |-> FALSE, tensors |-> <<t>>]
Many(ts) == [is_list |-> TRUE, tensors |-> ts]
Whole(payload) == payload.tensors[1]

numel(shape) == FoldLeft(LAMBDA n, d : n * d, 1, shape)

(* t.reshape(t.shape[0], -1), a row for each sample. *)
Rows(t) ==
  LET n == numel(Tail(t.shape))
  IN Now([r \in 1 .. Head(t.shape) |-> SubSeq(t.data, (r - 1) * n + 1, r * n)])

ShapeOf(t) == Tensor(<<Len(t.shape)>>, "int64", t.shape)

(* a / b to the nearest integer, halves to the even one: Python's and      *)
(* torch's round. *)
Rounded(a, b) ==
  LET q == a \div b
      twice == 2 * (a % b)
  IN IF twice > b \/ (twice = b /\ q % 2 = 1) THEN q + 1 ELSE q

(***************************************************************************)
(* The payload on the wire.                                                *)
(***************************************************************************)
(* The header names each tensor's type and shape; the buffers follow, an   *)
(* element as Width bytes. *)
pack_payload(payload) ==
  LET bytes(t) == FlattenSeq([i \in DOMAIN t.data |-> [b \in 1 .. Width[t.type] |-> t.data[i]]])
      ts == payload.tensors
  IN [is_list |-> payload.is_list,
      head |-> Now([i \in DOMAIN ts |-> [type |-> ts[i].type, shape |-> ts[i].shape, den |-> ts[i].den]]),
      buffers |-> FlattenSeq([i \in DOMAIN ts |-> bytes(ts[i])])]

unpack_payload(packed) ==
  LET nb(h) == numel(h.shape) * Width[h.type]
      from(i) == FoldLeft(LAMBDA off, h : off + nb(h), 0, SubSeq(packed.head, 1, i - 1))
      tensor(i) ==
        LET h == packed.head[i]
            data == [k \in 1 .. numel(h.shape) |-> packed.buffers[from(i) + (k - 1) * Width[h.type] + 1]]
        IN [Tensor(h.shape, h.type, data) EXCEPT !.den = h.den]
  IN [is_list |-> packed.is_list, tensors |-> Now([i \in DOMAIN packed.head |-> tensor(i)])]

(* _flat and _unflat: a payload as a list whose first tensor is the flag. *)
_flat(payload) ==
  <<Tensor(<<1>>, "int64", <<IF payload.is_list THEN 1 ELSE 0>>)>> \o payload.tensors

_unflat(tensors) == [is_list |-> Head(tensors).data[1] = 1, tensors |-> Tail(tensors)]

(***************************************************************************)
(* The built-in hooks.                                                     *)
(***************************************************************************)
(* q's values, 8 \div bits of them to a byte, the last byte padded with    *)
(* zeros. *)
_pack_bits(q, bits) ==
  LET per == 8 \div bits
      at(k) == IF k \in DOMAIN q THEN q[k] ELSE 0
      byte(j) == FoldLeft(LAMBDA b, i : b + at((j - 1) * per + i) * 2 ^ (bits * (i - 1)), 0,
                          [i \in 1 .. per |-> i])
  IN Now([j \in 1 .. (Len(q) + per - 1) \div per |-> byte(j)])

_unpack_bits(packed, bits, n) ==
  LET per == 8 \div bits
  IN Now([k \in 1 .. n |-> (packed[((k - 1) \div per) + 1] \div 2 ^ (bits * ((k - 1) % per))) % 2 ^ bits])

(* Quantize._enc: the levels, packed, with [min, scale] and the shape. *)
Quantized(t, bits) ==
  LET levels == 2 ^ bits - 1
      values == {t.data[i] : i \in DOMAIN t.data}
      lo == CHOOSE v \in values : \A w \in values : v <= w
      hi == CHOOSE v \in values : \A w \in values : v >= w
      scale == IF hi > lo THEN hi - lo ELSE t.den * levels
      q == Now([i \in DOMAIN t.data |-> Rounded((t.data[i] - lo) * levels, scale)])
      bytes == _pack_bits(q, bits)
      meta == [Tensor(<<2>>, "float32", <<lo * levels, scale>>) EXCEPT !.den = t.den * levels]
      packed == Tensor(IF bits = 8 THEN t.shape ELSE <<Len(bytes)>>, "uint8", bytes)
  IN Many(<<packed, meta, ShapeOf(t)>>)

Dequantized(payload, bits) ==
  LET packed == payload.tensors[1]
      meta == payload.tensors[2]
      shape == payload.tensors[3].data
      q == _unpack_bits(packed.data, bits, numel(shape))
  IN One([Tensor(shape, "float32", [i \in DOMAIN q |-> q[i] * meta.data[2] + meta.data[1]])
            EXCEPT !.den = meta.den])

Magnitude(v) == IF v < 0 THEN -v ELSE v

(* topk(k, dim=1) of a row's magnitudes; of equal ones the first. *)
LargestAt(row, k) ==
  LET before(i, j) == \/ Magnitude(row[i]) > Magnitude(row[j])
                      \/ Magnitude(row[i]) = Magnitude(row[j]) /\ i <= j
  IN SetToSortSeq({i \in DOMAIN row : Cardinality({j \in DOMAIN row : before(j, i)}) <= k}, before)

(* max(1, round(ratio * n)) *)
Kept(ratio, n) == LET k == Rounded(ratio[1] * n, ratio[2]) IN IF k > 1 THEN k ELSE 1

(* TopK._enc: each row's largest entries, where they were, and the shape. *)
Sparse(t, ratio) ==
  LET rows == Rows(t)
      k == Kept(ratio, numel(Tail(t.shape)))
      idx == Now([r \in DOMAIN rows |-> LargestAt(rows[r], k)])
      vals == Now([r \in DOMAIN rows |-> [i \in DOMAIN idx[r] |-> rows[r][idx[r][i]]]])
      shape == <<Len(rows), k>>
  IN Many(<<Tensor(shape, t.type, FlattenSeq(vals)), Tensor(shape, "int32", FlattenSeq(idx)), ShapeOf(t)>>)

Dense(payload) ==
  LET vals == payload.tensors[1]
      shape == payload.tensors[3].data
      v == Rows(vals)
      at == Rows(payload.tensors[2])
      row(r) == [i \in 1 .. numel(Tail(shape)) |->
                   IF \E j \in DOMAIN at[r] : at[r][j] = i
                   THEN v[r][CHOOSE j \in DOMAIN at[r] : at[r][j] = i] ELSE 0]
  IN One([Tensor(shape, vals.type, FlattenSeq([r \in 1 .. Head(shape) |-> row(r)])) EXCEPT !.den = vals.den])

(* CircularConv._fkeys: some unit vectors, over KeyDen, that are neither   *)
(* spikes nor orthogonal. *)
KeyDen == 5
Key(k, d) ==
  [m \in 0 .. d - 1 |->
     CASE d = 1 -> IF k % 2 = 1 THEN 5 ELSE -5
       [] d > 1 /\ m = k % d -> 3
       [] d > 1 /\ m = (k + 1) % d -> IF k % 3 = 1 THEN -4 ELSE 4
       [] OTHER -> 0]

(* rfft, a product (with the conjugate), irfft: circular convolution and   *)
(* correlation of a row with a key. *)
Convolved(key, row) ==
  [m \in DOMAIN row |->
     MapThenSumSet(LAMBDA j : row[j] * key[(m - j) % Len(row)], DOMAIN row)]

\* Mutant: the product is not with the conjugate.
ConvolvedAgain(key, row) ==
  [m \in DOMAIN row |->
     MapThenSumSet(LAMBDA j : row[j] * key[(m - j) % Len(row)], DOMAIN row)]
Correlated(key, row) ==
  [m \in DOMAIN row |->
     MapThenSumSet(LAMBDA j : row[j] * key[(j - m) % Len(row)], DOMAIN row)]

(* CircularConv._bind: `ratio' rows, padded with zero rows, become the sum *)
(* of their convolutions with the keys. *)
Bound(t, ratio) ==
  LET rows == Rows(t)
      d == numel(Tail(t.shape))
      groups == (Len(rows) + ratio - 1) \div ratio
      padded(r) == IF r \in DOMAIN rows THEN rows[r] ELSE [i \in 1 .. d |-> 0]
      bound(g) == Now([k \in 1 .. ratio |-> Convolved(Key(k, d), padded((g - 1) * ratio + k))])
      sum(g) == LET b == bound(g) IN [i \in 1 .. d |-> MapThenSumSet(LAMBDA k : b[k][i], 1 .. ratio)]
      v == Tensor(<<groups, d>>, t.type, FlattenSeq([g \in 1 .. groups |-> sum(g)]))
  IN Many(<<[v EXCEPT !.den = t.den * KeyDen], ShapeOf(t)>>)

(* CircularConv._unbind: a row is the correlation of the sum with its key, *)
(* so the other rows of the group are in it too. *)
Unbound(payload, ratio) ==
  LET v == payload.tensors[1]
      sums == Rows(v)
      shape == payload.tensors[2].data
      row(r) == Correlated(Key(((r - 1) % ratio) + 1, numel(Tail(shape))), sums[((r - 1) \div ratio) + 1])
      z == Tensor(shape, v.type, FlattenSeq([r \in 1 .. Head(shape) |-> row(r)]))
  IN One([z EXCEPT !.den = v.den * KeyDen])

(* The seed of the noise on one cut, batch and direction. *)
Seed(h, ctx) ==
  (h.seed * 1000003 + ctx.cut * 7919 + ctx.batch_id * 2 + (IF ctx.direction = "backward" THEN 1 ELSE 0))

(* torch.randn with a generator of its own: some function of the seed. *)
Randn(seed, i) == ((seed * 7 + i * 3) % 5) - 2

Noisy(t, h, ctx) ==
  [t EXCEPT !.data = Now([i \in DOMAIN t.data |-> t.data[i] + t.den * h.std * Randn(Seed(h, ctx), i)])]

(* encode of one built-in hook; a tensor that is not floating passes. *)
Encoded(h, t, ctx) ==
  CASE t.type \notin Floats -> One(t)
    [] h.kind = "cast" -> One([t EXCEPT !.type = "float16"])
    [] h.kind = "quantize" -> Quantized(t, h.bits)
    [] h.kind = "topk" -> Sparse(t, h.ratio)
    [] h.kind = "conv" -> Bound(t, h.ratio)
    [] h.kind = "noise" -> One(Noisy(t, h, ctx))

(* decode of one built-in hook; a payload that is one tensor was not       *)
(* compressed. *)
Decoded(h, payload) ==
  CASE h.kind = "cast" -> IF Whole(payload).type \in Floats
                          THEN One([Whole(payload) EXCEPT !.type = "float32"]) ELSE payload
    [] h.kind = "quantize" /\ payload.is_list -> Dequantized(payload, h.bits)
    [] h.kind = "topk" /\ payload.is_list -> Dense(payload)
    [] h.kind = "conv" /\ payload.is_list -> Unbound(payload, h.ratio)
    [] OTHER -> payload

(* Chain: the encoders in order, the decoders in reverse. *)
encode(hook, t, ctx) == FoldLeft(LAMBDA p, h : Encoded(h, Whole(p), ctx), One(t), hook)

encode_grad(hook, g, ctx) ==
  FoldLeft(LAMBDA p, h : IF h.grad THEN Encoded(h, Whole(p), ctx) ELSE p, One(g), hook)

\* Mutant: the decoders run in the order of the encoders.
DecodeInOrder(hook, payload) == FoldLeft(LAMBDA p, h : Decoded(h, p), payload, hook)

decode(hook, payload) == FoldLeft(LAMBDA p, h : Decoded(h, p), payload, Reverse(hook))

(* Chain._check: every hook but the last must leave one tensor, and these  *)
(* make a list of a floating one. *)
_check(hook, t) ==
  t.type \in Floats => \A n \in 1 .. Len(hook) - 1 : hook[n].kind \notin {"quantize", "topk", "conv"}
=============================================================================
