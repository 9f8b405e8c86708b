-------------------------------- MODULE Kernels --------------------------------
(* The kernels of kernels.cu behind the launchers of cuda.rs, as functions *)
(* from the memory they read to the cells they write.                      *)
(*                                                                         *)
(* A buffer holds cells: at its elements [at, at + len) lies a value.  A   *)
(* value is a term that says how it was computed; Junk is what a kernel    *)
(* finds where nothing whole was written.  A kernel takes the parameters   *)
(* of its launcher (m: the memory before it) and yields the extents it     *)
(* reads and the cells it writes.                                          *)
EXTENDS Integers, Sequences, SequencesExt, FiniteSetsExt, FiniteSets

CONSTANTS
  BLOCK,       \* threads of a block of an elementwise kernel
  TILE,        \* side of a tile of gemm_f16
  LANES,       \* lanes of a warp
  WARPS,       \* rows of a block of attn_prefill_tiled
  SHARED_ELEMS, TILE_MIN, TILE_MAX   \* of prefill_tile_keys

ASSUME KernelsAssumption ==
  /\ {BLOCK, TILE, LANES, WARPS, SHARED_ELEMS, TILE_MIN, TILE_MAX} \subseteq Nat \ {0}
  /\ TILE_MIN <= TILE_MAX

Junk == <<"junk">>
Null == [buf |-> <<0, 0, "null">>, at |-> 0]
At(p, n) == [p EXCEPT !.at = @ + n]
Extent(p, n) == [buf |-> p.buf, at |-> p.at, len |-> n]
Cell(p, len, val) == [buf |-> p.buf, at |-> p.at, len |-> len, val |-> val]
Effect(in, out) == [in |-> in, out |-> out]

Overlap(s, t) == s.at < t.at + t.len /\ t.at < s.at + s.len
(* A write takes the place of whatever it touches.                         *)
Store(m, out) ==
  LET at(b) == {c \in out : c.buf = b} IN
  [b \in DOMAIN m |-> IF at(b) = {} THEN m[b]
                      ELSE {s \in m[b] : \A c \in at(b) : ~Overlap(s, c)} \cup at(b)]
(* Every element of an extent was written by someone.                      *)
Whole(m, r) ==
  LET over == {s \in m[r.buf] : Overlap(s, r)} IN
  r.len = 0 \/ /\ \E s \in over : s.at <= r.at
               /\ \A s \in over : s.at + s.len >= r.at + r.len
                                  \/ \E t \in over : t.at = s.at + s.len

Span(m, p, n) == {s \in m[p.buf] : s.at >= p.at /\ s.at + s.len <= p.at + n}
ValueAt(m, p, n) ==
  LET here == {s \in m[p.buf] : s.at = p.at /\ s.len = n} IN
  IF here = {} THEN Junk ELSE (CHOOSE s \in here : TRUE).val
(* A value or a part of a value that was written as a whole.               *)
PartAt(m, p, n) ==
  LET round == {s \in m[p.buf] : s.at <= p.at /\ p.at + n <= s.at + s.len} IN
  IF round = {} THEN Junk
  ELSE LET s == CHOOSE s \in round : TRUE IN
       IF s.len = n THEN s.val ELSE <<"part", p.at - s.at, n, s.val>>

Blocks(n, per) == (n + per - 1) \div per
(* What a grid of one thread per item, in blocks of per, reaches.          *)
Reach(n, per) == Min({n, Blocks(n, per) * per})

(* f(cell, offset) of the cells at p .. p + n, at q.                       *)
EachCell(m, p, n, q, f(_, _)) ==
  {Cell(At(q, s.at - p.at), s.len, f(s, s.at - p.at)) : s \in Span(m, p, n)}
(* One thread per element.                                                 *)
Elementwise(m, p, n, q, f(_, _)) == EachCell(m, p, Reach(n, BLOCK), q, f)
--------------------------------------------------------------------------------
(* Rows and elements.                                                      *)

WeightOf(m, w, n) == IF w = Null THEN <<"one">> ELSE ValueAt(m, w, n)
normed(n, w, v) == <<"rms", n, w, v>>
layer_normed(n, w, b, v) == <<"ln", n, w, b, v>>
sum(a, b) == <<"add", a, b>>
biased(b, v) == <<"bias", b, v>>
scaled(tag, v) == <<"scale", tag, v>>
gate_up(act, g, u) == <<act, g, u>>

gather(m, table, ids, out, rows, hidden) ==
  Effect({Extent(ids, rows)},
         {Cell(At(out, r * hidden), hidden,
               <<"row", table.buf, table.at \div hidden, ValueAt(m, At(ids, r), 1)>>)
            : r \in 0 .. rows - 1})
gguf_gather(m, table, ids, out, rows, hidden) == gather(m, table, ids, out, rows, hidden)

rmsnorm(m, x, w, y, rows, n) ==
  Effect({Extent(x, rows * n)},
         EachCell(m, x, rows * n, y, LAMBDA s, o : normed(n, WeightOf(m, w, n), s.val)))

layernorm(m, x, w, b, y, rows, n) ==
  Effect({Extent(x, rows * n)},
         EachCell(m, x, rows * n, y,
                  LAMBDA s, o : layer_normed(n, ValueAt(m, w, n), ValueAt(m, b, n), s.val)))

add(m, a, b, n) ==
  Effect({Extent(a, n), Extent(b, n)},
         Elementwise(m, a, n, a, LAMBDA s, o : sum(s.val, PartAt(m, At(b, o), s.len))))
bias(m, x, b, rows, n) ==
  Effect({Extent(x, rows * n), Extent(b, n)},
         Elementwise(m, x, rows * n, x,
                     LAMBDA s, o : biased(PartAt(m, At(b, o % n), n), s.val)))

gated(m, act, g, u, n) ==
  Effect({Extent(g, n), Extent(u, n)},
         Elementwise(m, g, n, g,
                     LAMBDA s, o : gate_up(act, s.val, PartAt(m, At(u, o), s.len))))
swiglu(m, g, u, n) == gated(m, "swiglu", g, u, n)
geglu(m, g, u, n) == gated(m, "geglu", g, u, n)

inplace(m, x, n, f(_)) ==
  Effect({Extent(x, n)}, Elementwise(m, x, n, x, LAMBDA s, o : f(s.val)))
gelu(m, x, n) == inplace(m, x, n, LAMBDA v : <<"gelu", v>>)
silu(m, x, n) == inplace(m, x, n, LAMBDA v : <<"silu", v>>)
clampk(m, x, n) == inplace(m, x, n, LAMBDA v : <<"clamp", v>>)
scalemul(m, x, tag, n) == inplace(m, x, n, LAMBDA v : scaled(tag, v))

mulvec(m, x, w, rows, n) ==
  Effect({Extent(x, rows * n), Extent(w, n)},
         Elementwise(m, x, rows * n, x,
                     LAMBDA s, o : <<"mulvec", ValueAt(m, At(w, o % n), n), s.val>>))
mul_strided(m, a, b, rows, n, stride, off) ==
  Effect({Extent(a, rows * n)} \cup {Extent(At(b, r * stride + off), n) : r \in 0 .. rows - 1},
         Elementwise(m, a, rows * n, a,
                     LAMBDA s, o : <<"mul", s.val,
                                     PartAt(m, At(b, (o \div n) * stride + off), n)>>))
glu(m, x, y, rows, n) ==
  Effect({Extent(x, rows * 2 * n)},
         {Cell(At(y, r * n), n, <<"glu", ValueAt(m, At(x, r * 2 * n), 2 * n)>>)
            : r \in 0 .. (Reach(rows * n, BLOCK) \div n) - 1})
dtod(m, dst, src, n) ==
  Effect({Extent(src, n)},
         {Cell(At(dst, s.at - src.at), s.len, s.val) : s \in Span(m, src, n)})
htod(m, dst, vals, len) ==
  Effect({}, {Cell(At(dst, (i - 1) * len), len, vals[i]) : i \in DOMAIN vals})

(* The K - 1 rows before a row and the row itself.                         *)
convolved(w, near) == <<"conv", w, near>>
Taps(r, k) == Max({0, r - k + 1}) .. r
dwconv1d(m, x, w, y, seq, c, k) ==
  Effect({Extent(x, seq * c)},
         {Cell(At(y, r * c), c,
               convolved(ValueAt(m, w, c * k),
                         {<<r - s, ValueAt(m, At(x, s * c), c)>> : s \in Taps(r, k)}))
            : r \in 0 .. (Reach(seq * c, BLOCK) \div c) - 1})

averaged(rows) == <<"mean", rows>>
meanpool(m, x, out, rows, hidden) ==
  Effect({Extent(x, rows * hidden)},
         {Cell(out, hidden,
               averaged([r \in 1 .. rows |-> ValueAt(m, At(x, (r - 1) * hidden), hidden)]))})
--------------------------------------------------------------------------------
(* Matrices.  A weight buffer holds one matrix or several, one below the   *)
(* other; rows lo .. hi of a matrix are the value <<"w", matrix, lo, hi>>. *)

product(w, x) == <<"lin", w, x>>

(* Columns written slab by slab grow together.                             *)
Continues(s, c) ==
  /\ s.at + s.len = c.at /\ s.val[1] = "lin" /\ c.val[1] = "lin"
  /\ s.val[3] = c.val[3] /\ s.val[2][2] = c.val[2][2] /\ s.val[2][4] = c.val[2][3]
Joined(m, c) ==
  LET left == {s \in m[c.buf] : Continues(s, c)} IN
  IF left = {} THEN c
  ELSE LET s == CHOOSE s \in left : TRUE IN
       [c EXCEPT !.at = s.at, !.len = s.len + c.len,
                 !.val = product(<<"w", c.val[2][2], s.val[2][3], c.val[2][4]>>, c.val[3])]

(* C[rows, n] = A[rows, k] W^T, its rows ldc elements apart.               *)
gemm_strided_out(m, a, w, c, rows, n, k, ldc) ==
  Effect({Extent(a, rows * k), Extent(w, n * k)},
         {Joined(m, Cell(At(c, r * ldc + (s.at - w.at) \div k), s.len \div k,
                         product(s.val, ValueAt(m, At(a, r * k), k))))
            : r \in 0 .. Reach(rows, TILE) - 1, s \in Span(m, w, Reach(n, TILE) * k)})
gemm_f16(m, a, w, c, rows, n, k) == gemm_strided_out(m, a, w, c, rows, n, k, n)

(* y = W x + b, y + W x, or silu(gate x) * (up x) with gate above up.      *)
gemv(m, w, x, y, b, n, k, mode, per) ==
  LET xv == ValueAt(m, x, k)
      out(s) == At(y, (s.at - w.at) \div k)
      cols(s) == s.len \div k
      dot(s) == product(s.val, xv)
      below(s) == PartAt(m, At(w, s.at - w.at + n * k), s.len)
      val(s) ==
        CASE mode = 0 -> IF b = Null THEN dot(s)
                         ELSE biased(PartAt(m, At(b, out(s).at - y.at), cols(s)), dot(s))
          [] mode = 1 -> sum(ValueAt(m, out(s), cols(s)), dot(s))
          [] mode = 2 -> gate_up("swiglu", dot(s), product(below(s), xv))
  IN Effect({Extent(x, k), Extent(w, (IF mode = 2 THEN 2 * n ELSE n) * k)}
              \cup (IF mode = 1 THEN {Extent(y, n)} ELSE {}),
            {Cell(out(s), cols(s), val(s)) : s \in Span(m, w, Reach(n, per) * k)})
gemv_f16(m, w, x, y, b, n, k, mode) == gemv(m, w, x, y, b, n, k, mode, WARPS)
(* x goes through the q8 scratch first.                                    *)
gguf_gemv(m, w, x, y, b, n, k, mode) == gemv(m, w, x, y, b, n, k, mode, 2 * WARPS)
nf4_gemv(m, w, x, y, n, k) == gemv(m, w, x, y, Null, n, k, 0, WARPS)

(* n elements of a packed matrix with rows of k, spread out as f16.        *)
gguf_dequant(m, src, out, n, k) ==
  LET packed == {s \in m[src.buf] : s.at <= src.at /\ src.at + n <= s.at + s.len}
      row(s, e) == s.val[3] + (src.at + e - s.at) \div k IN
  Effect({Extent(src, n)},
         {Cell(out, n, <<"w", s.val[2], row(s, 0), row(s, n)>>) : s \in packed})
--------------------------------------------------------------------------------
(* Positions.  pos_dev, unless null, is the counter on the device.  freq:  *)
(* what the angles are computed from.                                      *)

Counter(m, pos_dev, pos0) == IF pos_dev = Null THEN pos0 ELSE ValueAt(m, pos_dev, 1)[2]

rotated(freq, p, v) == <<"rope", p, freq, v>>
rope(m, x, rows, heads, dim, pos0, freq, pos_dev) ==
  LET n == heads * dim IN
  Effect({Extent(x, rows * n)},
         EachCell(m, x, rows * n, x,
                  LAMBDA s, o : rotated(freq, Counter(m, pos_dev, pos0) + o \div n, s.val)))

rotated2d(px, py, v) == <<"rope2d", px, py, v>>
rope2d(m, x, posx, posy, rows, heads, dim) ==
  LET at(pos, o) == ValueAt(m, At(pos, o \div (heads * dim)), 1) IN
  Effect({Extent(x, rows * heads * dim), Extent(posx, rows), Extent(posy, rows)},
         EachCell(m, x, rows * heads * dim, x,
                  LAMBDA s, o : rotated2d(at(posx, o), at(posy, o), s.val)))

(* The cache is laid out [kv_heads, max_seq, dim].                         *)
Slot(cache, h, max_seq, pos, dim) == At(cache, (h * max_seq + pos) * dim)
head(h, v) == <<"head", h, v>>
kv_append(m, k, v, kc, vc, rows, kv_heads, dim, pos, max_seq, pos_dev) ==
  LET n == kv_heads * dim
      cells(src, dst) ==
        {Cell(Slot(dst, h, max_seq, Counter(m, pos_dev, pos) + r, dim), dim,
              head(h, ValueAt(m, At(src, r * n), n)))
           : r \in 0 .. rows - 1, h \in 0 .. kv_heads - 1}
  IN Effect({Extent(k, rows * n), Extent(v, rows * n)}, cells(k, kc) \cup cells(v, vc))
pos_bump(m, pos_dev) ==
  Effect({Extent(pos_dev, 1)}, {Cell(pos_dev, 1, <<"n", ValueAt(m, pos_dev, 1)[2] + 1>>)})
--------------------------------------------------------------------------------
(* Attention.  g: the geometry every launcher is given (q_heads, kv_heads, *)
(* dim, max_seq).  A row of the output is its query and, per head, the     *)
(* keys and values that entered the softmax.                               *)

KvHead(g, h) == h \div (g.q_heads \div g.kv_heads)
attended(q, seen) == <<"att", q, seen>>
Width(g) == g.q_heads * g.dim
Pairs(m, kc, vc, g, h, S) ==
  LET at(cache, s) == ValueAt(m, Slot(cache, KvHead(g, h), g.max_seq, s, g.dim), g.dim) IN
  {<<s, at(kc, s), at(vc, s)>> : s \in S}
Seen(m, kc, vc, g, S) == [h \in 1 .. g.q_heads |-> Pairs(m, kc, vc, g, h - 1, S)]
KeyReads(kc, vc, g, S) ==
  {Extent(Slot(cache, h, g.max_seq, s, g.dim), g.dim)
     : cache \in {kc, vc}, h \in 0 .. g.kv_heads - 1, s \in S}

WindowLow(window, seq) == IF window > 0 /\ seq > window THEN seq - window ELSE 0

attn_decode(m, q, kc, vc, out, g, seq0, window, pos_dev) ==
  LET seq == Counter(m, pos_dev, seq0 - 1) + 1
      S == WindowLow(window, seq) .. seq - 1 IN
  Effect({Extent(q, Width(g))} \cup KeyReads(kc, vc, g, S),
         {Cell(out, Width(g), attended(ValueAt(m, q, Width(g)), Seen(m, kc, vc, g, S)))})

(* One block per head and chunk of csz positions; a block without a        *)
(* position writes nothing.                                                *)
PartSlot(part, g, nc, h, ci) == At(part, (h * nc + ci) * (g.dim + 2))
attn_decode_split(m, q, kc, vc, part, g, seq0, csz, nc, window, pos_dev) ==
  LET seq == Counter(m, pos_dev, seq0 - 1) + 1
      S(ci) == Max({ci * csz, WindowLow(window, seq)}) .. Min({ci * csz + csz, seq}) - 1
      live == {ci \in 0 .. nc - 1 : S(ci) # {}} IN
  Effect({Extent(q, Width(g))} \cup KeyReads(kc, vc, g, UNION {S(ci) : ci \in live}),
         {Cell(PartSlot(part, g, nc, h, ci), g.dim + 2,
               <<"partial", h, ValueAt(m, q, Width(g)), Pairs(m, kc, vc, g, h, S(ci))>>)
            : h \in 0 .. g.q_heads - 1, ci \in live})
(* Per head the chunks from the first that meets the window to the last    *)
(* live one.                                                               *)
attn_reduce(m, part, out, g, csz, nc, seq0, window, pos_dev) ==
  LET seq == Counter(m, pos_dev, seq0 - 1) + 1
      chunks == WindowLow(window, seq) \div csz .. Blocks(seq, csz) - 1
      heads == 0 .. g.q_heads - 1
      got(h) == {ValueAt(m, PartSlot(part, g, nc, h, ci), g.dim + 2) : ci \in chunks}
      sound == \A h \in heads : \A v \in got(h) : v[1] = "partial" /\ v[2] = h
      queries == UNION {{v[3] : v \in got(h)} : h \in heads} IN
  Effect({Extent(PartSlot(part, g, nc, h, ci), g.dim + 2) : h \in heads, ci \in chunks},
         {Cell(out, Width(g),
               IF sound /\ Cardinality(queries) = 1
               THEN attended(CHOOSE v \in queries : TRUE,
                             [h \in 1 .. g.q_heads |-> UNION {v[4] : v \in got(h - 1)}])
               ELSE Junk)})

(* The media block of a position, -1 for text.                             *)
BlockOf(m, blkid, p) == IF blkid = Null THEN -1 ELSE ValueAt(m, At(blkid, p), 1)[2]
BlkReads(blkid, n) == IF blkid = Null THEN {} ELSE {Extent(blkid, n)}

(* How far a query looks, and what it takes of that.                       *)
Horizon(m, blkid, causal, qpos, end) ==
  IF ~causal \/ BlockOf(m, blkid, qpos) >= 0 THEN end ELSE qpos + 1
Takes(m, blkid, causal, window, qpos, s) ==
  LET own == BlockOf(m, blkid, qpos)
      same_block == own >= 0 /\ BlockOf(m, blkid, s) = own IN
  \/ ~causal
  \/ s > qpos /\ same_block
  \/ s <= qpos /\ (window <= 0 \/ qpos - s < window \/ same_block)

attn_prefill_ref(m, q, kc, vc, out, rows, g, pos0, causal, window, blkid) ==
  LET S(r) == {s \in 0 .. Horizon(m, blkid, causal, pos0 + r, pos0 + rows) - 1 :
                 Takes(m, blkid, causal, window, pos0 + r, s)}
      row(p, r) == At(p, r * Width(g)) IN
  Effect({Extent(q, rows * Width(g))} \cup BlkReads(blkid, pos0 + rows)
           \cup KeyReads(kc, vc, g, UNION {S(r) : r \in 0 .. rows - 1}),
         {Cell(row(out, r), Width(g),
               attended(ValueAt(m, row(q, r), Width(g)), Seen(m, kc, vc, g, S(r))))
            : r \in 0 .. rows - 1})

prefill_tile_keys(dim) == Max({TILE_MIN, Min({TILE_MAX, SHARED_ELEMS \div dim})})
prefill_tiled_ok(dim) == dim % LANES = 0 /\ dim <= 16 * LANES

(* Tiles of bk keys are loaded for all rows of a block; a row takes from a *)
(* tile what lies under its own horizon.                                   *)
attn_prefill_tiled(m, q, kc, vc, out, rows, g, pos0, causal, window, blkid) ==
  LET bk == prefill_tile_keys(g.dim)
      block(r) == r \div WARPS
      seq_blk(b) == IF ~causal \/ blkid # Null THEN pos0 + rows
                    ELSE pos0 + Min({b * WARPS + WARPS, rows})
      tiles(b) == 0 .. Blocks(seq_blk(b), bk) - 1
      loaded(b) == UNION {t * bk .. t * bk + Min({seq_blk(b) - t * bk, bk}) - 1 : t \in tiles(b)}
      live == 0 .. Reach(rows, WARPS) - 1
      S(r) == {s \in loaded(block(r)) :
                 /\ s < Horizon(m, blkid, causal, pos0 + r, pos0 + rows)
                 /\ Takes(m, blkid, causal, window, pos0 + r, s)}
      row(p, r) == At(p, r * Width(g)) IN
  Effect({Extent(q, rows * Width(g))} \cup BlkReads(blkid, pos0 + rows)
           \cup KeyReads(kc, vc, g, UNION {loaded(block(r)) : r \in live}),
         {Cell(row(out, r), Width(g),
               attended(ValueAt(m, row(q, r), Width(g)), Seen(m, kc, vc, g, S(r))))
            : r \in live})

attn_prefill(m, q, kc, vc, out, rows, g, pos0, causal, window, blkid) ==
  IF prefill_tiled_ok(g.dim)
  THEN attn_prefill_tiled(m, q, kc, vc, out, rows, g, pos0, causal, window, blkid)
  ELSE attn_prefill_ref(m, q, kc, vc, out, rows, g, pos0, causal, window, blkid)

(* The context of a clip's chunk is the chunk and past positions before    *)
(* it; what lies outside the clip or a query's own window only dilutes.    *)
Context(p, chunk, past) == {(p \div chunk) * chunk - past + kj : kj \in 0 .. chunk + past - 1}
RelKey(p, j, chunk, past) == j - (p \div chunk) * chunk + past - (p % chunk)
Heard(p, seq, chunk, past) ==
  {j \in Context(p, chunk, past) :
     j >= 0 /\ j < seq /\ RelKey(p, j, chunk, past) \in 0 .. past}
listened(q, heard, dilution) == <<"audio", q, heard, dilution>>
audio_attn(m, q, k, v, relk, out, seq, n, chunk, past) ==
  LET row(b, r) == ValueAt(m, At(b, r * n), n)
      heard(p) == Heard(p, seq, chunk, past) IN
  Effect({Extent(b, seq * n) : b \in {q, k, v}} \cup {Extent(relk, (past + 1) * n)},
         {Cell(At(out, p * n), n,
               listened(row(q, p),
                        {<<j, row(k, j), row(v, j), row(relk, RelKey(p, j, chunk, past))>>
                           : j \in heard(p)},
                        Cardinality(Context(p, chunk, past) \ heard(p)))) : p \in 0 .. seq - 1})
--------------------------------------------------------------------------------
(* The tail of a step.                                                     *)

widened(v) == <<"f32", v>>
winner(v) == <<"argmax", v>>
penalized(rp, counts, v) == <<"penalty", rp, counts, v>>
masked(v) == <<"masked", v>>
h2f(m, x, y, n) ==
  Effect({Extent(x, n)}, Elementwise(m, x, n, y, LAMBDA s, o : widened(s.val)))
argmax_softcap_enqueue(m, x, slot, n) ==
  Effect({Extent(x, n)}, {Cell(slot, 1, winner(ValueAt(m, x, n)))})
argmax_to_ids(m, slot, ids) == Effect({Extent(slot, 1)}, {Cell(ids, 1, ValueAt(m, slot, 1))})
apply_penalty(m, x, counts, rp, n) ==
  Effect({Extent(x, n), Extent(counts, n)},
         Elementwise(m, x, n, x, LAMBDA s, o : penalized(rp, ValueAt(m, counts, n), s.val)))
(* k_slot_take: the best goes to the list and is out of the next round.    *)
slot_take(m, slot, out, x, n) ==
  Effect({Extent(slot, 1)},
         {Cell(out, 1, ValueAt(m, slot, 1)), Cell(x, n, masked(ValueAt(m, x, n)))})

(* The zeroes of a memset, in cells of unit elements.                      *)
zero == <<"zero">>
memset(m, p, n, unit) ==
  Effect({}, {Cell(At(p, i * unit), unit, zero) : i \in 0 .. n \div unit - 1})

(* k_hist_push: evict what the ring slot held, admit ids[0].  The counts   *)
(* are one cell: the tokens they count, by ring slot.  An empty slot reads *)
(* as token 0, whose count it takes one from unless that is nothing yet:   *)
(* no token of these runs is token 0, so nothing is taken here.            *)
counted(tokens) == IF tokens = {} THEN zero ELSE <<"counts", tokens>>
hist_push(m, ring, counts, ids, pos, pos_dev, window, vocab) ==
  LET slot == Counter(m, pos_dev, pos) % window
      at(i) == ValueAt(m, At(ring, i), 1)
      held == {i \in 0 .. window - 1 : at(i) # zero}
      before == {<<i, at(i)>> : i \in held}
      after == {<<i, at(i)>> : i \in held \ {slot}} \cup {<<slot, ValueAt(m, ids, 1)>>} IN
  Effect({Extent(ids, 1), Extent(At(ring, slot), 1), Extent(counts, vocab)},
         {Cell(At(ring, slot), 1, ValueAt(m, ids, 1)),
          Cell(counts, vocab, IF ValueAt(m, counts, vocab) = counted(before)
                              THEN counted(after) ELSE Junk)})
================================================================================
