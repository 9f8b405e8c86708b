----------------------------- MODULE LogRingProofs -----------------------------
(***************************************************************************)
(* The log ring, for any number of slots, writers and records, with a      *)
(* reader and with processes that create the ring anew.                    *)
(*                                                                         *)
(* The records of live writers lie apart within the last Slots slots       *)
(* reserved, and slots that close together have different places in the    *)
(* ring.  So a write disturbs no record but its own and the dead ones.     *)
(***************************************************************************)
EXTENDS LogRing, Integers, TLAPS

(* The condition of NeverMisread: no writer is lapped while it writes, and *)
(* no last chunk is too short to clear the seq of the slot it lands on.    *)
Orderly == ~ MayLap /\ ~ ShortTails

Begun == {"invalid", "meta", "sum", "body"}

Contents == [seq : {0} \cup Names, meta : {0} \cup Names, sum : {0} \cup Names,
             text : {0} \cup Names, chunk : Int \X Int]

Typed ==
  /\ cursor \in 0 .. MaxSlots
  /\ slot \in [0 .. Slots - 1 -> Contents]
  /\ size \in [Names -> {0} \cup Sizes]
  /\ w \in [Writers -> [pc : {"idle", "reserved", "dead"} \cup Begun,
                        name : {0} \cup Names, k : Nat]]
  /\ r \in [pc : {"idle", "load", "meta", "sum", "copy", "sort"}, p : 0 .. Slots - 1,
            seq : {0} \cup Names, meta : {0} \cup Names, sum : {0} \cup Names,
            k : Nat, intact : BOOLEAN, since : {r.since}]

(* Records reserved since the ring was created, and where they lie.        *)
Records == {n \in Names : size[n] > 0}

Within == \A n \in Records : n - 1 + size[n] <= cursor

Apart == \A m, n \in Records : m < n => m - 1 + size[m] <= n - 1

(* A record has one writer, dead or alive, which nobody laps as it writes. *)
Pending ==
  \A t \in Writers :
    /\ Unfinished(t) => w[t].name \in Records
    /\ Writing(t) => /\ Live(w[t].name)
                     /\ w[t].k < size[w[t].name]
                     /\ w[t].pc # "body" => w[t].k = 0

OwnRecord ==
  \A t, u \in Writers : Unfinished(t) /\ Unfinished(u) /\ t # u => w[t].name # w[u].name

Layout == Typed /\ Within /\ Apart /\ Pending /\ OwnRecord

(* A seq vouches for the header it stands in.                              *)
Headed ==
  \A p \in 0 .. Slots - 1 :
    slot[p].seq # 0 =>
      /\ slot[p].seq \in Records /\ Phys(slot[p].seq - 1) = p
      /\ slot[p].meta = slot[p].seq /\ slot[p].sum = slot[p].seq

Unpublished ==
  \A t \in Writers : Unfinished(t) => \A p \in 0 .. Slots - 1 : slot[p].seq # w[t].name

(* What a writer has put down so far is still there.                       *)
Chunks(n, last) == \A k \in 1 .. last : slot[Phys(n - 1 + k)].chunk = <<n, k>>

PutDown(t) ==
  /\ w[t].pc \in Begun => slot[Head(t)].seq = 0
  /\ w[t].pc \in {"meta", "sum", "body"} => slot[Head(t)].meta = w[t].name
  /\ w[t].pc \in {"sum", "body"} => slot[Head(t)].sum = w[t].name
  /\ w[t].pc = "body" => /\ slot[Head(t)].text = w[t].name
                         /\ Chunks(w[t].name, w[t].k)

(* A live record that nobody is writing, or died writing, is whole.        *)
Whole(n) ==
  /\ slot[Phys(n - 1)].seq = n /\ slot[Phys(n - 1)].text = n
  /\ Chunks(n, size[n] - 1)

Written(n) == \A t \in Writers : Unfinished(t) => w[t].name # n

Complete == \A n \in Records : Live(n) /\ Written(n) => Whole(n)

(* What the reader has seen of a record that it still sees published.      *)
Seen ==
  r.pc \in {"meta", "sum", "copy"} =>
    /\ r.seq \in Records /\ Phys(r.seq - 1) = r.p /\ Written(r.seq)
    /\ slot[r.p].seq = r.seq =>
         /\ r.pc \in {"sum", "copy"} => r.meta = r.seq
         /\ r.pc = "copy" => r.sum = r.seq

(* An undisturbed scan has accepted the live records of the slots behind   *)
(* it, and will accept the one it is looking at.                           *)
Behind(n) == r.pc = "sort" \/ Phys(n - 1) < r.p

Undisturbed ==
  still /\ r.pc # "idle" =>
    /\ \A t \in Writers : ~ Writing(t)
    /\ {rec.seq : rec \in out} = {n \in LiveRecords : n > r.since /\ Behind(n)}
    /\ r.pc \in {"meta", "sum", "copy"} =>
         slot[r.p].seq = r.seq /\ Live(r.seq) /\ r.seq > r.since
    /\ r.pc = "copy" => r.intact

MemoryInv ==
  Layout /\ Headed /\ Unpublished /\ (\A t \in Writers : PutDown(t)) /\ Complete

IInv == MemoryInv /\ Seen /\ NeverMisread /\ Undisturbed

--------------------------------------------------------------------------------
(* Places in the ring.                                                     *)

LEMMA PhysRange ==
  ASSUME NEW a \in Nat
  PROVE  Phys(a) \in 0 .. Slots - 1
BY SlotsAssumption DEF Phys

LEMMA Quotient ==
  ASSUME NEW a \in Nat
  PROVE  a \div Slots \in Int /\ a = Slots * (a \div Slots) + Phys(a)
BY SlotsAssumption DEF Phys

LEMMA ProductGrows ==
  ASSUME NEW q \in Int
  PROVE  /\ q >= 1 => Slots * q >= Slots
         /\ q <= 0 => Slots * q <= 0
BY SlotsAssumption

(* Two slots less than a ring apart are in different places.               *)
LEMMA CloseSlotsDiffer ==
  ASSUME NEW a \in Nat, NEW b \in Nat, a < b, b - a < Slots
  PROVE  Phys(a) # Phys(b)
<1> SUFFICES ASSUME Phys(a) = Phys(b) PROVE FALSE
  OBVIOUS
<1> DEFINE q == a \div Slots
           s == b \div Slots
<1>1. Phys(a) \in Int /\ Phys(b) \in Int /\ Slots \in Int
  BY PhysRange, SlotsAssumption
<1>2. q \in Int /\ s \in Int /\ a = Slots * q + Phys(a) /\ b = Slots * s + Phys(b)
  BY Quotient
<1> HIDE DEF q, s
<1>3. b - a = Slots * s - Slots * q
  BY <1>1, <1>2
<1>4. Slots * s - Slots * q = Slots * (s - q)
  BY <1>1, <1>2
<1>5. 0 < Slots * (s - q) /\ Slots * (s - q) < Slots
  BY <1>3, <1>4
<1>6. s - q \in Int /\ Slots * (s - q) \in Int
  BY <1>1, <1>2
<1>7. ~ (s - q >= 1) /\ ~ (s - q <= 0)
  BY <1>1, <1>5, <1>6, ProductGrows
<1> QED
  BY <1>6, <1>7

LEMMA RecordFacts ==
  ASSUME Layout, NEW n \in Records
  PROVE  /\ n \in Nat /\ n >= 1 /\ n \in Names /\ size[n] \in Nat /\ size[n] >= 1
         /\ size[n] <= Slots /\ n - 1 + size[n] <= cursor
         /\ cursor \in Nat /\ cursor <= MaxSlots /\ Slots \in Nat /\ MaxSlots \in Nat
         /\ \A i \in 0 .. size[n] - 1 : n - 1 + i \in Nat /\ n - 1 + i < cursor
<1>1. n \in Nat /\ n >= 1 /\ n \in Names /\ size[n] > 0 /\ size[n] \in {0} \cup Sizes
  BY MaxSlotsAssumption DEF Records, Names, Layout, Typed
<1>2. size[n] \in Nat /\ size[n] >= 1 /\ size[n] <= Slots /\ Slots \in Nat
  <2>1. size[n] # 0 /\ Slots \in Nat /\ Sizes \subseteq 1 .. Slots
    BY <1>1, SizesAssumption, SlotsAssumption
  <2>2. size[n] \in 1 .. Slots
    BY <1>1, <2>1
  <2> QED
    BY <2>1, <2>2
<1>3. n - 1 + size[n] <= cursor
  BY DEF Layout, Within
<1>4. cursor \in Nat /\ cursor <= MaxSlots /\ MaxSlots \in Nat
  BY MaxSlotsAssumption DEF Layout, Typed
<1> QED
  BY <1>1, <1>2, <1>3, <1>4

(* Live records do not share a place in the ring.                          *)
LEMMA LiveRecordsApart ==
  ASSUME Layout, NEW m \in Records, NEW n \in Records, Live(m), Live(n), m # n,
         NEW i \in 0 .. size[m] - 1, NEW j \in 0 .. size[n] - 1
  PROVE  Phys(m - 1 + i) # Phys(n - 1 + j)
<1> DEFINE a == m - 1 + i
           b == n - 1 + j
<1>1. /\ a \in Nat /\ b \in Nat /\ a < cursor /\ b < cursor
      /\ cursor \in Nat /\ Slots \in Nat
  BY RecordFacts
<1>2. /\ m \in Nat /\ n \in Nat /\ size[m] \in Nat /\ size[n] \in Nat
  BY RecordFacts
<1>3. cursor - a <= Slots /\ cursor - b <= Slots
  BY <1>1, <1>2 DEF Live
<1>4. a # b
  <2>1. CASE m < n
    <3>1. m - 1 + size[m] <= n - 1
      BY <2>1 DEF Layout, Apart
    <3> QED
      BY <1>2, <3>1
  <2>2. CASE n < m
    <3>1. n - 1 + size[n] <= m - 1
      BY <2>2 DEF Layout, Apart
    <3> QED
      BY <1>2, <3>1
  <2> QED
    BY <1>2, <2>1, <2>2
<1> HIDE DEF a, b
<1>5. (a < b /\ b - a < Slots) \/ (b < a /\ a - b < Slots)
  BY <1>1, <1>3, <1>4
<1>6. Phys(a) # Phys(b)
  BY <1>1, <1>5, CloseSlotsDiffer
<1> QED
  BY <1>6 DEF a, b

(* The slots of a record are in different places.                          *)
LEMMA OwnSlotsApart ==
  ASSUME Layout, NEW n \in Records,
         NEW i \in 0 .. size[n] - 1, NEW j \in 0 .. size[n] - 1, i # j
  PROVE  Phys(n - 1 + i) # Phys(n - 1 + j)
<1> DEFINE a == n - 1 + i
           b == n - 1 + j
<1>1. /\ n \in Nat /\ n >= 1 /\ size[n] \in Nat /\ size[n] <= Slots
      /\ a \in Nat /\ b \in Nat /\ Slots \in Nat
  BY RecordFacts
<1>2. a # b /\ a - b < Slots /\ b - a < Slots
  BY <1>1
<1> HIDE DEF a, b
<1>3. a < b \/ b < a
  BY <1>1, <1>2
<1>4. Phys(a) # Phys(b)
  BY <1>1, <1>2, <1>3, CloseSlotsDiffer
<1> QED
  BY <1>4 DEF a, b

LEMMA PendingFacts ==
  ASSUME Layout, NEW t \in Writers, Writing(t)
  PROVE  /\ w[t].name \in Records /\ Live(w[t].name) /\ w[t].name \in Nat
         /\ w[t].k \in Nat /\ w[t].k < size[w[t].name] /\ size[w[t].name] \in Nat
         /\ w[t].pc # "body" => w[t].k = 0
         /\ 0 \in 0 .. size[w[t].name] - 1 /\ Head(t) = Phys(w[t].name - 1 + 0)
         /\ Head(t) \in 0 .. Slots - 1
         /\ w[t].pc \in {"reserved"} \cup Begun
<1>1. /\ w[t].name \in Records /\ Live(w[t].name) /\ w[t].k < size[w[t].name]
      /\ w[t].pc # "body" => w[t].k = 0
  BY DEF Layout, Pending, Writing, Unfinished
<1>2. w[t] \in [pc : {"idle", "reserved", "dead"} \cup Begun, name : {0} \cup Names, k : Nat]
  BY DEF Layout, Typed
<1>3. w[t].name \in Nat /\ w[t].name >= 1 /\ size[w[t].name] \in Nat /\ size[w[t].name] >= 1
  BY <1>1, RecordFacts
<1>4. w[t].name - 1 \in Nat /\ w[t].name - 1 + 0 = w[t].name - 1
  BY <1>3
<1>5. Head(t) = Phys(w[t].name - 1 + 0) /\ Head(t) \in 0 .. Slots - 1
  BY <1>4, PhysRange DEF Head
<1> QED
  BY <1>1, <1>2, <1>3, <1>5 DEF Writing

(* A write of a writer touches no live record but its own.                 *)
LEMMA WritesElsewhere ==
  ASSUME Layout, NEW t \in Writers, Writing(t), NEW j \in 0 .. size[w[t].name] - 1,
         NEW n \in Records, Live(n), n # w[t].name
  PROVE  /\ Phys(n - 1) # Phys(w[t].name - 1 + j)
         /\ \A k \in 1 .. size[n] - 1 : Phys(n - 1 + k) # Phys(w[t].name - 1 + j)
<1>1. w[t].name \in Records /\ Live(w[t].name)
  BY PendingFacts
<1>2. n \in Nat /\ size[n] \in Nat /\ size[n] >= 1
  BY RecordFacts
<1>3. 0 \in 0 .. size[n] - 1 /\ n - 1 + 0 = n - 1
  BY <1>2
<1>4. \A i \in 0 .. size[n] - 1 : Phys(n - 1 + i) # Phys(w[t].name - 1 + j)
  BY <1>1, LiveRecordsApart
<1>5. Phys(n - 1 + 0) # Phys(w[t].name - 1 + j)
  BY <1>3, <1>4
<1>6. 1 .. size[n] - 1 \subseteq 0 .. size[n] - 1
  BY <1>2
<1> QED
  BY <1>3, <1>4, <1>5, <1>6

--------------------------------------------------------------------------------
(* Writes.                                                                 *)

WriterStates ==
  [pc : {"idle", "reserved", "dead"} \cup Begun, name : {0} \cup Names, k : Nat]

(* What a write at one place leaves alone.                                 *)
LEMMA WriteFrame ==
  ASSUME MemoryInv, NEW t \in Writers, Writing(t),
         NEW j \in 0 .. size[w[t].name] - 1, NEW c \in Contents, NEW new \in WriterStates,
         slot' = [slot EXCEPT ![Phys(w[t].name - 1 + j)] = c],
         w' = [w EXCEPT ![t] = new], UNCHANGED <<cursor, size, r>>
  PROVE  /\ Typed' /\ Within' /\ Apart'
         /\ Records' = Records /\ \A n : Live(n)' <=> Live(n)
         /\ \A u \in Writers \ {t} : w'[u] = w[u] /\ (Writing(u)' <=> Writing(u))
                                      /\ (Unfinished(u)' <=> Unfinished(u))
         /\ w'[t] = new
         /\ \A u \in Writers \ {t} : PutDown(u)'
         /\ \A n \in Records : n # w[t].name /\ Live(n) /\ Whole(n) => Whole(n)'
<1> DEFINE p == Phys(w[t].name - 1 + j)
<1>1. Layout /\ (\A u \in Writers : PutDown(u)) /\ Typed /\ Within /\ Apart
  BY DEF MemoryInv, Layout
<1>2. w'[t] = new /\ \A u \in Writers \ {t} : w'[u] = w[u]
  BY <1>1 DEF Typed
<1>3. \A u \in Writers \ {t} : (Writing(u)' <=> Writing(u)) /\ (Unfinished(u)' <=> Unfinished(u))
  BY <1>2 DEF Writing, Unfinished
<1>4. \A q \in 0 .. Slots - 1 : q # p => slot'[q] = slot[q]
  BY <1>1 DEF Typed
<1>5. Typed'
  <2>1. slot' \in [0 .. Slots - 1 -> Contents]
    BY <1>1 DEF Typed
  <2>2. w' \in [Writers -> WriterStates]
    BY <1>1 DEF Typed, WriterStates
  <2> QED
    BY <1>1, <2>1, <2>2 DEF Typed, WriterStates
<1>6. Within' /\ Apart' /\ Records' = Records /\ \A n : Live(n)' <=> Live(n)
  BY <1>1 DEF Within, Apart, Records, Live
<1>7. ASSUME NEW n \in Records, n # w[t].name, Live(n)
      PROVE  /\ slot'[Phys(n - 1)] = slot[Phys(n - 1)]
             /\ \A k \in 1 .. size[n] - 1 : slot'[Phys(n - 1 + k)] = slot[Phys(n - 1 + k)]
  <2>1. /\ Phys(n - 1) # p
        /\ \A k \in 1 .. size[n] - 1 : Phys(n - 1 + k) # p
    BY <1>1, <1>7, WritesElsewhere
  <2>2. n - 1 \in Nat /\ \A k \in 1 .. size[n] - 1 : n - 1 + k \in Nat
    BY <1>1, RecordFacts
  <2>3. /\ Phys(n - 1) \in 0 .. Slots - 1
        /\ \A k \in 1 .. size[n] - 1 : Phys(n - 1 + k) \in 0 .. Slots - 1
    BY <2>2, PhysRange
  <2> HIDE DEF p
  <2> QED
    BY <1>4, <2>1, <2>3
<1>8. ASSUME NEW u \in Writers \ {t} PROVE PutDown(u)'
  <2>1. CASE Writing(u)
    <3>1. /\ w[u].name \in Records /\ Live(w[u].name)
          /\ w[u].k \in Nat /\ w[u].k < size[w[u].name] /\ size[w[u].name] \in Nat
      BY <1>1, <2>1, PendingFacts
    <3>2. w[u].name # w[t].name
      BY <1>1, <2>1 DEF Layout, OwnRecord, Writing, Unfinished
    <3>3. /\ slot'[Phys(w[u].name - 1)] = slot[Phys(w[u].name - 1)]
          /\ \A k \in 1 .. size[w[u].name] - 1 :
               slot'[Phys(w[u].name - 1 + k)] = slot[Phys(w[u].name - 1 + k)]
      BY <1>7, <3>1, <3>2
    <3>4. 1 .. w[u].k \subseteq 1 .. size[w[u].name] - 1
      BY <3>1
    <3>5. PutDown(u) /\ w'[u] = w[u]
      BY <1>1, <1>2
    <3> QED
      BY <3>3, <3>4, <3>5 DEF PutDown, Head, Chunks
  <2>2. CASE ~ Writing(u)
    BY <1>2, <2>2 DEF PutDown, Writing, Begun
  <2> QED
    BY <2>1, <2>2
<1>9. ASSUME NEW n \in Records, n # w[t].name, Live(n), Whole(n) PROVE Whole(n)'
  BY <1>7, <1>9 DEF Whole, Chunks
<1> QED
  BY <1>2, <1>3, <1>5, <1>6, <1>8, <1>9

(* A write that leaves no seq behind.                                      *)
LEMMA MuteWrite ==
  ASSUME IInv, NEW t \in Writers, Writing(t),
         NEW j \in 0 .. size[w[t].name] - 1, NEW c \in Contents, c.seq = 0,
         NEW new \in WriterStates, new.name = w[t].name, new.pc \in Begun,
         new.k < size[w[t].name], new.pc # "body" => new.k = 0,
         slot' = [slot EXCEPT ![Phys(w[t].name - 1 + j)] = c],
         w' = [w EXCEPT ![t] = new], UNCHANGED <<cursor, size, r, out>>, ~ still',
         PutDown(t)'
  PROVE  IInv'
<1> DEFINE p == Phys(w[t].name - 1 + j)
<1>1. MemoryInv /\ Layout /\ Seen
  BY DEF IInv, MemoryInv
<1>2. /\ Typed' /\ Within' /\ Apart'
      /\ Records' = Records /\ \A n : Live(n)' <=> Live(n)
      /\ \A u \in Writers \ {t} : w'[u] = w[u] /\ (Writing(u)' <=> Writing(u))
                                   /\ (Unfinished(u)' <=> Unfinished(u))
      /\ w'[t] = new
      /\ \A u \in Writers \ {t} : PutDown(u)'
      /\ \A n \in Records : n # w[t].name /\ Live(n) /\ Whole(n) => Whole(n)'
  BY <1>1, WriteFrame
<1>3. w[t].name \in Records /\ Live(w[t].name) /\ w[t].name \in Nat /\ w[t].name >= 1
  BY <1>1, PendingFacts, RecordFacts
<1>4. p \in 0 .. Slots - 1 /\ slot'[p] = c /\ \A q \in 0 .. Slots - 1 : q # p => slot'[q] = slot[q]
  <2>1. w[t].name - 1 + j \in Nat
    BY <1>1, <1>3, RecordFacts
  <2> QED
    BY <1>1, <2>1, PhysRange DEF Layout, Typed
<1>5. \A u \in Writers : /\ Writing(u)' <=> Writing(u)
                         /\ Unfinished(u)' <=> Unfinished(u)
                         /\ w'[u].name = w[u].name
  BY <1>2 DEF Writing, Unfinished, Begun
<1>6. \A n : Written(n)' <=> Written(n)
  BY <1>5 DEF Written
<1>7. Pending'
  <2> SUFFICES ASSUME NEW u \in Writers
               PROVE  (/\ Unfinished(u) => w[u].name \in Records
                       /\ Writing(u) => /\ Live(w[u].name)
                                        /\ w[u].k < size[w[u].name]
                                        /\ w[u].pc # "body" => w[u].k = 0)'
    BY DEF Pending
  <2>1. (Unfinished(u) => w[u].name \in Records) /\ (Writing(u) => Live(w[u].name))
    BY <1>1 DEF Layout, Pending
  <2>2. (Unfinished(u) => w[u].name \in Records)' /\ (Writing(u) => Live(w[u].name))'
    BY <1>2, <1>5, <2>1 DEF Live
  <2>3. CASE u = t
    BY <1>2, <2>2, <2>3
  <2>4. CASE u # t
    BY <1>1, <1>2, <2>2, <2>4 DEF Layout, Pending
  <2> QED
    BY <2>3, <2>4
<1>8. OwnRecord'
  BY <1>1, <1>5 DEF Layout, OwnRecord
<1>9. Headed'
  BY <1>1, <1>2, <1>4 DEF MemoryInv, Headed
<1>10. Unpublished'
  <2> SUFFICES ASSUME NEW u \in Writers, Unfinished(u)', NEW q \in 0 .. Slots - 1
               PROVE  slot'[q].seq # w'[u].name
    BY DEF Unpublished
  <2>1. Unfinished(u) /\ w'[u].name = w[u].name /\ w[u].name >= 1
    BY <1>1, <1>5, RecordFacts DEF Layout, Pending
  <2>2. slot[q].seq # w[u].name
    BY <1>1, <2>1 DEF MemoryInv, Unpublished
  <2> HIDE DEF p
  <2> QED
    BY <1>4, <2>1, <2>2
<1>11. Complete'
  <2> SUFFICES ASSUME NEW n \in Records', Live(n)', Written(n)' PROVE Whole(n)'
    BY DEF Complete
  <2>1. n \in Records /\ Live(n) /\ Written(n)
    BY <1>2, <1>6
  <2>2. n # w[t].name
    BY <2>1 DEF Written, Writing, Unfinished
  <2>3. Whole(n)
    BY <1>1, <2>1 DEF MemoryInv, Complete
  <2> QED
    BY <1>2, <2>1, <2>2, <2>3
<1>12. MemoryInv'
  BY <1>2, <1>7, <1>8, <1>9, <1>10, <1>11 DEF MemoryInv, Layout
<1>13. Seen'
  <2> SUFFICES ASSUME r.pc \in {"meta", "sum", "copy"}
               PROVE  /\ r.seq \in Records' /\ Phys(r.seq - 1) = r.p /\ Written(r.seq)'
                      /\ slot'[r.p].seq = r.seq =>
                           /\ r.pc \in {"sum", "copy"} => r.meta = r.seq
                           /\ r.pc = "copy" => r.sum = r.seq
    BY DEF Seen
  <2>1. /\ r.seq \in Records /\ Phys(r.seq - 1) = r.p /\ Written(r.seq)
        /\ slot[r.p].seq = r.seq =>
             /\ r.pc \in {"sum", "copy"} => r.meta = r.seq
             /\ r.pc = "copy" => r.sum = r.seq
    BY <1>1 DEF Seen
  <2>2. r.seq # 0 /\ r.p \in 0 .. Slots - 1
    BY <1>1, <2>1, RecordFacts DEF Layout, Typed
  <2> HIDE DEF p
  <2>3. slot'[r.p].seq = r.seq => slot[r.p].seq = r.seq
    BY <1>4, <2>2
  <2> QED
    BY <1>2, <1>6, <2>1, <2>3
<1>14. NeverMisread' /\ Undisturbed'
  BY DEF IInv, NeverMisread, Undisturbed
<1> QED
  BY <1>12, <1>13, <1>14 DEF IInv

(* A write to the head slot before any continuation.                       *)
LEMMA HeadWrite ==
  ASSUME IInv, NEW t \in Writers, Writing(t), w[t].k = 0,
         NEW stage \in Begun, NEW c \in Contents, Store(t, stage, Head(t), c),
         c.seq = 0,
         stage \in {"meta", "sum", "body"} => c.meta = w[t].name,
         stage \in {"sum", "body"} => c.sum = w[t].name,
         stage = "body" => c.text = w[t].name
  PROVE  IInv'
<1> DEFINE new == [w[t] EXCEPT !.pc = stage]
<1>1. Layout /\ Typed
  BY DEF IInv, MemoryInv, Layout
<1>2. /\ w[t].name \in Records /\ w[t].k < size[w[t].name]
      /\ 0 \in 0 .. size[w[t].name] - 1 /\ Head(t) = Phys(w[t].name - 1 + 0)
      /\ Head(t) \in 0 .. Slots - 1
  BY <1>1, PendingFacts
<1>3. w[t] \in WriterStates
  BY <1>1 DEF Typed, WriterStates
<1>4. /\ new \in WriterStates /\ new.name = w[t].name /\ new.pc = stage /\ new.k = w[t].k
  BY <1>3 DEF WriterStates
<1>5. /\ slot' = [slot EXCEPT ![Head(t)] = c] /\ w' = [w EXCEPT ![t] = new]
      /\ UNCHANGED <<cursor, size, r, out>> /\ ~ still'
  BY <1>1 DEF Store, Typed
<1> HIDE DEF new
<1>6. w'[t] = new /\ slot'[Head(t)] = c
  BY <1>1, <1>2, <1>5 DEF Typed
<1>7. Head(t)' = Head(t)
  BY <1>4, <1>6 DEF Head
<1>8. PutDown(t)'
  BY <1>4, <1>6, <1>7 DEF PutDown, Chunks
<1>9. slot' = [slot EXCEPT ![Phys(w[t].name - 1 + 0)] = c]
  BY <1>2, <1>5
<1> QED
  BY <1>2, <1>4, <1>5, <1>8, <1>9, MuteWrite

LEMMA HeaderIInv ==
  ASSUME IInv, NEW t \in Writers,
         Invalidate(t) \/ PutMeta(t) \/ PutSum(t) \/ PutHeadPayload(t)
  PROVE  IInv'
<1> DEFINE old == slot[Head(t)]
<1>1. Layout /\ Typed /\ PutDown(t)
  BY DEF IInv, MemoryInv, Layout
<1>2. Writing(t) /\ w[t].pc # "body"
  BY DEF Writing, Invalidate, PutMeta, PutSum, PutHeadPayload
<1>3. /\ w[t].k = 0 /\ Head(t) \in 0 .. Slots - 1 /\ w[t].name \in Records
      /\ w[t].name \in {0} \cup Names
  BY <1>1, <1>2, PendingFacts DEF Records
<1>4. old \in Contents /\ NoChunk \in Int \X Int
  BY <1>1, <1>3 DEF Typed, NoChunk
<1> HIDE DEF old
<1>5. CASE Invalidate(t)
  <2> DEFINE c == [old EXCEPT !.seq = 0, !.chunk = NoChunk]
  <2>1. Store(t, "invalid", Head(t), c)
    BY <1>5 DEF Invalidate, old
  <2>2. c \in Contents /\ c.seq = 0
    BY <1>4 DEF Contents
  <2> HIDE DEF c
  <2> QED
    BY <1>2, <1>3, <2>1, <2>2, HeadWrite DEF Begun
<1>6. CASE PutMeta(t)
  <2> DEFINE c == [old EXCEPT !.meta = w[t].name, !.chunk = NoChunk]
  <2>1. Store(t, "meta", Head(t), c) /\ old.seq = 0
    BY <1>1, <1>6 DEF PutMeta, PutDown, Begun, old
  <2>2. c \in Contents /\ c.seq = 0 /\ c.meta = w[t].name
    BY <1>3, <1>4, <2>1 DEF Contents
  <2> HIDE DEF c
  <2> QED
    BY <1>2, <1>3, <2>1, <2>2, HeadWrite DEF Begun
<1>7. CASE PutSum(t)
  <2> DEFINE c == [old EXCEPT !.sum = w[t].name, !.chunk = NoChunk]
  <2>1. Store(t, "sum", Head(t), c) /\ old.seq = 0 /\ old.meta = w[t].name
    BY <1>1, <1>7 DEF PutSum, PutDown, Begun, old
  <2>2. c \in Contents /\ c.seq = 0 /\ c.meta = w[t].name /\ c.sum = w[t].name
    BY <1>3, <1>4, <2>1 DEF Contents
  <2> HIDE DEF c
  <2> QED
    BY <1>2, <1>3, <2>1, <2>2, HeadWrite DEF Begun
<1>8. CASE PutHeadPayload(t)
  <2> DEFINE c == [old EXCEPT !.text = w[t].name, !.chunk = NoChunk]
  <2>1. /\ Store(t, "body", Head(t), c)
        /\ old.seq = 0 /\ old.meta = w[t].name /\ old.sum = w[t].name
    BY <1>1, <1>8 DEF PutHeadPayload, PutDown, Begun, old
  <2>2. /\ c \in Contents /\ c.seq = 0
        /\ c.meta = w[t].name /\ c.sum = w[t].name /\ c.text = w[t].name
    BY <1>3, <1>4, <2>1 DEF Contents
  <2> HIDE DEF c
  <2> QED
    BY <1>2, <1>3, <2>1, <2>2, HeadWrite DEF Begun
<1> QED
  BY <1>5, <1>6, <1>7, <1>8

LEMMA ContinuationIInv ==
  ASSUME ~ ShortTails, IInv, NEW t \in Writers, PutContinuation(t)
  PROVE  IInv'
<1> DEFINE n == w[t].name
           k == w[t].k + 1
           p == Phys(n - 1 + k)
           c == Overlaid(<<n, k>>)
           new == [w[t] EXCEPT !.k = @ + 1]
<1>1. Layout /\ Typed /\ PutDown(t)
  BY DEF IInv, MemoryInv, Layout
<1>2. Writing(t) /\ w[t].pc = "body" /\ k < size[n]
  BY DEF Writing, PutContinuation
<1>3. /\ n \in Records /\ w[t].k \in Nat /\ size[n] \in Nat /\ 0 \in 0 .. size[n] - 1
      /\ Head(t) = Phys(n - 1 + 0) /\ Head(t) \in 0 .. Slots - 1 /\ n \in Names
  BY <1>1, <1>2, PendingFacts DEF Records
<1>4. k \in Nat /\ k >= 1 /\ k \in 0 .. size[n] - 1 /\ n \in Nat
  BY <1>1, <1>2, <1>3, RecordFacts
<1>5. /\ slot' = [slot EXCEPT ![p] = c]
      /\ w' = [w EXCEPT ![t] = new]
      /\ UNCHANGED <<cursor, size, r, out>> /\ ~ still'
  BY <1>1 DEF PutContinuation, Typed
<1>6. c \in Contents /\ c.seq = 0 /\ c.chunk = <<n, k>>
  BY <1>4 DEF Overlaid, EmptySlot, Contents
<1>7. w[t] \in WriterStates
  BY <1>1 DEF Typed, WriterStates
<1>8. new \in WriterStates /\ new.name = n /\ new.pc = "body" /\ new.k = k
  BY <1>2, <1>3, <1>7 DEF WriterStates
<1>9. p \in 0 .. Slots - 1
  <2>1. n - 1 + k \in Nat
    BY <1>1, <1>3, <1>4, RecordFacts
  <2> QED
    BY <2>1, PhysRange
<1>10. p # Head(t)
  BY <1>1, <1>3, <1>4, OwnSlotsApart
<1>11. ASSUME NEW i \in 1 .. w[t].k PROVE Phys(n - 1 + i) # p
  <2>1. i \in 0 .. size[n] - 1 /\ i # k
    BY <1>3, <1>4
  <2> QED
    BY <1>1, <1>3, <1>4, <2>1, OwnSlotsApart
<1>12. \A i \in 1 .. w[t].k : Phys(n - 1 + i) \in 0 .. Slots - 1
  <2> SUFFICES ASSUME NEW i \in 1 .. w[t].k PROVE Phys(n - 1 + i) \in 0 .. Slots - 1
    OBVIOUS
  <2>1. i \in 0 .. size[n] - 1
    BY <1>3, <1>4
  <2>2. n - 1 + i \in Nat
    BY <1>1, <1>3, <2>1, RecordFacts
  <2> QED
    BY <2>2, PhysRange
<1> HIDE DEF p, c, new
<1>13. /\ slot'[p] = c /\ slot'[Head(t)] = slot[Head(t)]
       /\ \A i \in 1 .. w[t].k : slot'[Phys(n - 1 + i)] = slot[Phys(n - 1 + i)]
  BY <1>1, <1>3, <1>5, <1>9, <1>10, <1>11, <1>12 DEF Typed
<1>14. w'[t] = new /\ Head(t)' = Head(t)
  BY <1>1, <1>5, <1>8 DEF Typed, Head
<1>15. \A i \in 1 .. k : slot'[Phys(n - 1 + i)].chunk = <<n, i>>
  <2> SUFFICES ASSUME NEW i \in 1 .. k PROVE slot'[Phys(n - 1 + i)].chunk = <<n, i>>
    OBVIOUS
  <2>1. CASE i = k
    BY <1>6, <1>13, <2>1 DEF p
  <2>2. CASE i # k
    <3>1. i \in 1 .. w[t].k
      BY <1>3, <2>2
    <3>2. slot[Phys(n - 1 + i)].chunk = <<n, i>>
      BY <1>1, <1>2, <3>1 DEF PutDown, Chunks
    <3> QED
      BY <1>13, <3>1, <3>2
  <2> QED
    BY <2>1, <2>2
<1>16. PutDown(t)'
  <2>1. /\ slot[Head(t)].seq = 0 /\ slot[Head(t)].meta = n /\ slot[Head(t)].sum = n
        /\ slot[Head(t)].text = n
    BY <1>1, <1>2 DEF PutDown, Begun
  <2> HIDE DEF n, k
  <2>2. w'[t].pc = "body" /\ w'[t].name = n /\ w'[t].k = k
    BY <1>8, <1>14
  <2> QED
    BY <1>13, <1>14, <1>15, <2>1, <2>2 DEF PutDown, Chunks
<1>17. slot' = [slot EXCEPT ![Phys(n - 1 + k)] = c]
  BY <1>5 DEF p
<1>18. new.pc \in Begun /\ new.k < size[n] /\ (new.pc # "body" => new.k = 0)
  BY <1>2, <1>8 DEF Begun
<1> HIDE DEF n, k
<1> QED
  BY <1>2, <1>4, <1>5, <1>6, <1>8, <1>16, <1>17, <1>18, MuteWrite DEF n

LEMMA PublishIInv ==
  ASSUME IInv, NEW t \in Writers, Publish(t)
  PROVE  IInv'
<1> DEFINE n == w[t].name
           p == Head(t)
           c == [slot[p] EXCEPT !.seq = n, !.chunk = NoChunk]
           new == [w[t] EXCEPT !.pc = "idle"]
<1>1. MemoryInv /\ Layout /\ Typed /\ PutDown(t) /\ Seen
  BY DEF IInv, MemoryInv, Layout
<1>2. Writing(t) /\ w[t].pc = "body" /\ w[t].k + 1 = size[n]
  BY DEF Writing, Publish
<1>3. /\ n \in Records /\ Live(n) /\ n \in Names /\ n \in Nat /\ n >= 1
      /\ size[n] \in Nat /\ w[t].k \in Nat
      /\ 0 \in 0 .. size[n] - 1 /\ p = Phys(n - 1 + 0) /\ p \in 0 .. Slots - 1
      /\ n - 1 + 0 = n - 1
  BY <1>1, <1>2, PendingFacts, RecordFacts DEF Records
<1>4. /\ slot[p].seq = 0 /\ slot[p].meta = n /\ slot[p].sum = n /\ slot[p].text = n
      /\ Chunks(n, size[n] - 1)
  <2>1. w[t].k = size[n] - 1
    BY <1>2, <1>3
  <2> QED
    BY <1>1, <1>2, <2>1 DEF PutDown, Begun
<1>5. c \in Contents /\ c.seq = n /\ c.meta = n /\ c.sum = n /\ c.text = n
  <2>1. slot[p] \in Contents /\ NoChunk \in Int \X Int
    BY <1>1, <1>3 DEF Typed, NoChunk
  <2> QED
    BY <1>3, <1>4, <2>1 DEF Contents
<1>6. new \in WriterStates /\ new.pc = "idle"
  <2>1. w[t] \in WriterStates
    BY <1>1 DEF Typed, WriterStates
  <2> QED
    BY <2>1 DEF WriterStates
<1>7. /\ slot' = [slot EXCEPT ![p] = c] /\ w' = [w EXCEPT ![t] = new]
      /\ UNCHANGED <<cursor, size, r, out>> /\ ~ still'
  BY <1>1 DEF Publish, Store, Typed
<1> HIDE DEF c, new
<1>8. slot' = [slot EXCEPT ![Phys(n - 1 + 0)] = c]
  BY <1>3, <1>7
<1>9. /\ Typed' /\ Within' /\ Apart'
      /\ Records' = Records /\ \A a : Live(a)' <=> Live(a)
      /\ \A u \in Writers \ {t} : w'[u] = w[u] /\ (Writing(u)' <=> Writing(u))
                                   /\ (Unfinished(u)' <=> Unfinished(u))
      /\ w'[t] = new
      /\ \A u \in Writers \ {t} : PutDown(u)'
      /\ \A a \in Records : a # n /\ Live(a) /\ Whole(a) => Whole(a)'
  <2>1. /\ slot' = [slot EXCEPT ![Phys(w[t].name - 1 + 0)] = c]
        /\ 0 \in 0 .. size[w[t].name] - 1
    BY <1>3, <1>8
  <2>2. /\ MemoryInv /\ Writing(t) /\ UNCHANGED <<cursor, size, r>>
        /\ c \in Contents /\ new \in WriterStates /\ w' = [w EXCEPT ![t] = new]
    BY <1>1, <1>2, <1>5, <1>6, <1>7
  <2>3. /\ Typed' /\ Within' /\ Apart'
        /\ Records' = Records /\ \A a : Live(a)' <=> Live(a)
        /\ \A u \in Writers \ {t} : w'[u] = w[u] /\ (Writing(u)' <=> Writing(u))
                                     /\ (Unfinished(u)' <=> Unfinished(u))
        /\ w'[t] = new
        /\ \A u \in Writers \ {t} : PutDown(u)'
        /\ \A a \in Records : a # w[t].name /\ Live(a) /\ Whole(a) => Whole(a)'
    <3> HIDE DEF n, p
    <3> QED
      BY <2>1, <2>2, WriteFrame
  <2> QED
    BY <2>3
<1>10. slot'[p] = c /\ \A q \in 0 .. Slots - 1 : q # p => slot'[q] = slot[q]
  BY <1>1, <1>3, <1>7 DEF Typed
<1>11. ~ Writing(t)' /\ ~ Unfinished(t)' /\ Unfinished(t)
  BY <1>2, <1>6, <1>9 DEF Writing, Unfinished
<1>12. \A a : a # n => (Written(a)' <=> Written(a))
  BY <1>9, <1>11 DEF Written
<1>13. Pending' /\ OwnRecord'
  <2>1. \A u \in Writers : Unfinished(u)' => u # t /\ Unfinished(u) /\ w'[u] = w[u]
    BY <1>9, <1>11
  <2>2. OwnRecord'
    BY <1>1, <2>1 DEF Layout, OwnRecord
  <2>3. Pending'
    <3> SUFFICES ASSUME NEW u \in Writers, Unfinished(u)'
                 PROVE  (/\ w[u].name \in Records
                         /\ Writing(u) => /\ Live(w[u].name)
                                          /\ w[u].k < size[w[u].name]
                                          /\ w[u].pc # "body" => w[u].k = 0)'
      BY DEF Pending, Writing, Unfinished
    <3>1. /\ w[u].name \in Records
          /\ Writing(u) => /\ Live(w[u].name)
                           /\ w[u].k < size[w[u].name]
                           /\ w[u].pc # "body" => w[u].k = 0
      BY <1>1, <2>1 DEF Layout, Pending
    <3>2. u # t /\ w'[u] = w[u] /\ (Writing(u)' <=> Writing(u))
      BY <1>9, <2>1
    <3> QED
      BY <1>7, <1>9, <3>1, <3>2 DEF Live
  <2> QED
    BY <2>2, <2>3
<1>14. Headed'
  <2> SUFFICES ASSUME NEW q \in 0 .. Slots - 1, slot'[q].seq # 0
               PROVE  /\ slot'[q].seq \in Records' /\ Phys(slot'[q].seq - 1) = q
                      /\ slot'[q].meta = slot'[q].seq /\ slot'[q].sum = slot'[q].seq
    BY DEF Headed, Phys
  <2>1. CASE q = p
    BY <1>3, <1>5, <1>9, <1>10, <2>1
  <2>2. CASE q # p
    BY <1>1, <1>9, <1>10, <2>2 DEF MemoryInv, Headed
  <2> QED
    BY <2>1, <2>2
<1>15. Unpublished'
  <2> SUFFICES ASSUME NEW u \in Writers, Unfinished(u)', NEW q \in 0 .. Slots - 1
               PROVE  slot'[q].seq # w'[u].name
    BY DEF Unpublished
  <2>1. u # t /\ Unfinished(u) /\ w'[u] = w[u]
    BY <1>9, <1>11
  <2>2. w[u].name # n
    BY <1>1, <1>11, <2>1 DEF Layout, OwnRecord
  <2>3. slot[q].seq # w[u].name
    BY <1>1, <2>1 DEF MemoryInv, Unpublished
  <2> QED
    BY <1>5, <1>10, <2>1, <2>2, <2>3
<1>16. ASSUME NEW a, a = n PROVE Whole(a)'
  <2>1. ASSUME NEW k \in 1 .. size[n] - 1 PROVE slot'[Phys(n - 1 + k)].chunk = <<n, k>>
    <3>1. k \in 0 .. size[n] - 1 /\ k # 0
      BY <1>3
    <3>2. n - 1 + k \in Nat
      BY <1>1, <1>3, <3>1, RecordFacts
    <3>3. Phys(n - 1 + k) # Phys(n - 1 + 0)
      BY <1>1, <1>3, <3>1, OwnSlotsApart
    <3>4. Phys(n - 1 + k) \in 0 .. Slots - 1
      BY <3>2, PhysRange
    <3> QED
      BY <1>3, <1>4, <1>10, <3>3, <3>4 DEF Chunks
  <2>2. slot'[Phys(n - 1)].seq = n /\ slot'[Phys(n - 1)].text = n /\ size' = size
    BY <1>3, <1>5, <1>7, <1>10
  <2> HIDE DEF n, p
  <2> QED
    BY <1>16, <2>1, <2>2 DEF Whole, Chunks
<1>17. Complete'
  <2> SUFFICES ASSUME NEW a \in Records', Live(a)', Written(a)' PROVE Whole(a)'
    BY DEF Complete
  <2>1. CASE a = n
    BY <1>16, <2>1
  <2>2. CASE a # n
    <3>1. a \in Records /\ Live(a) /\ Written(a)
      BY <1>9, <1>12, <2>2
    <3> QED
      BY <1>1, <1>9, <2>2, <3>1 DEF MemoryInv, Complete
  <2> QED
    BY <2>1, <2>2
<1>18. MemoryInv'
  <2>1. PutDown(t)'
    BY <1>11 DEF PutDown, Writing, Begun
  <2> QED
    BY <1>9, <1>13, <1>14, <1>15, <1>17, <2>1 DEF MemoryInv, Layout
<1>19. Seen'
  <2> SUFFICES ASSUME r.pc \in {"meta", "sum", "copy"}
               PROVE  /\ r.seq \in Records' /\ Phys(r.seq - 1) = r.p /\ Written(r.seq)'
                      /\ slot'[r.p].seq = r.seq =>
                           /\ r.pc \in {"sum", "copy"} => r.meta = r.seq
                           /\ r.pc = "copy" => r.sum = r.seq
    BY <1>7 DEF Seen, Phys, Written, Unfinished
  <2>1. /\ r.seq \in Records /\ Phys(r.seq - 1) = r.p /\ Written(r.seq)
        /\ slot[r.p].seq = r.seq =>
             /\ r.pc \in {"sum", "copy"} => r.meta = r.seq
             /\ r.pc = "copy" => r.sum = r.seq
    BY <1>1 DEF Seen
  <2>2. r.seq # n
    BY <1>11, <2>1 DEF Written
  <2>3. slot'[r.p].seq = r.seq => slot[r.p].seq = r.seq
    <3>1. r.p \in 0 .. Slots - 1
      BY <1>1 DEF Typed
    <3> HIDE DEF p
    <3> QED
      BY <1>5, <1>10, <2>2, <3>1
  <2> QED
    BY <1>7, <1>9, <1>12, <2>1, <2>2, <2>3
<1>20. NeverMisread' /\ Undisturbed'
  BY <1>7 DEF IInv, NeverMisread, Undisturbed
<1> QED
  BY <1>18, <1>19, <1>20 DEF IInv

LEMMA ReserveIInv ==
  ASSUME ~ MayLap, IInv, NEW t \in Writers, Reserve(t)
  PROVE  IInv'
<1> DEFINE m == cursor + 1
<1>1. MemoryInv /\ Layout /\ Typed /\ Seen
  BY DEF IInv, MemoryInv, Layout
<1>2. PICK n \in Sizes :
        /\ cursor + n <= MaxSlots /\ LapsNobody(n)
        /\ cursor' = cursor + n /\ size' = [size EXCEPT ![m] = n]
  BY DEF Reserve
<1>3. /\ cursor \in Nat /\ n \in Nat /\ n >= 1 /\ n <= Slots /\ Slots \in Nat
      /\ MaxSlots \in Nat /\ cursor' \in 0 .. MaxSlots
      /\ m \in Names /\ m \in Nat /\ m >= 1 /\ m - 1 = cursor
  <2>1. cursor \in Nat /\ n \in 1 .. Slots /\ Slots \in Nat /\ MaxSlots \in Nat
    BY <1>1, SlotsAssumption, SizesAssumption, MaxSlotsAssumption DEF Typed
  <2> QED
    BY <1>2, <2>1 DEF Names
<1>4. /\ w' = [w EXCEPT ![t] = [pc |-> "reserved", name |-> m, k |-> 0]]
      /\ w[t].pc = "idle" /\ UNCHANGED <<slot, r, out>> /\ ~ still'
  BY DEF Reserve
<1> HIDE DEF m
<1>5. /\ w'[t] = [pc |-> "reserved", name |-> m, k |-> 0]
      /\ \A u \in Writers \ {t} : w'[u] = w[u]
  BY <1>1, <1>4 DEF Typed
<1>6. /\ ~ Unfinished(t) /\ Unfinished(t)'
      /\ \A u \in Writers \ {t} : (Writing(u)' <=> Writing(u)) /\ (Unfinished(u)' <=> Unfinished(u))
  BY <1>4, <1>5 DEF Writing, Unfinished
<1>7. size'[m] = n /\ \A a \in Names \ {m} : size'[a] = size[a]
  BY <1>1, <1>2, <1>3 DEF Typed
<1>8. \A a \in Records : a \in Names /\ a \in Nat /\ a # m /\ a <= cursor /\ a - 1 + size[a] <= m - 1
  BY <1>1, <1>3, RecordFacts
<1>9. Records' = Records \cup {m} /\ \A a \in Records : size'[a] = size[a]
  <2>1. \A a \in Names : size'[a] > 0 <=> (size[a] > 0 \/ a = m)
    BY <1>3, <1>7
  <2> QED
    BY <1>3, <1>7, <1>8, <2>1 DEF Records
<1>10. \A a \in Records : Live(a)' => Live(a)
  BY <1>2, <1>3, <1>8 DEF Live
<1>11. Typed'
  <2>1. size' \in [Names -> {0} \cup Sizes]
    BY <1>1, <1>2, <1>3 DEF Typed
  <2>2. w' \in [Writers -> WriterStates]
    BY <1>1, <1>3, <1>4 DEF Typed, WriterStates
  <2> QED
    BY <1>1, <1>3, <1>4, <2>1, <2>2 DEF Typed, WriterStates
<1>12. Within'
  <2> SUFFICES ASSUME NEW a \in Records' PROVE a - 1 + size'[a] <= cursor'
    BY DEF Within
  <2>1. CASE a = m
    BY <1>2, <1>3, <1>7, <2>1
  <2>2. CASE a \in Records
    <3>1. size[a] \in Nat /\ a - 1 + size[a] <= cursor /\ a \in Nat
      BY <1>1, <2>2, RecordFacts
    <3> QED
      BY <1>2, <1>3, <1>9, <2>2, <3>1
  <2> QED
    BY <1>9, <2>1, <2>2
<1>13. Apart'
  <2> SUFFICES ASSUME NEW a \in Records', NEW b \in Records', a < b
               PROVE  a - 1 + size'[a] <= b - 1
    BY DEF Apart
  <2>1. CASE a \in Records /\ b \in Records
    BY <1>1, <1>9, <2>1 DEF Layout, Apart
  <2>2. CASE a \in Records /\ b = m
    BY <1>8, <1>9, <2>2
  <2>3. CASE a = m
    <3>1. ~ (b \in Records)
      BY <1>3, <1>8, <2>3 DEF m
    <3> QED
      BY <1>3, <1>9, <2>3, <3>1
  <2> QED
    BY <1>9, <2>1, <2>2, <2>3
<1>14. Pending'
  <2> SUFFICES ASSUME NEW u \in Writers, Unfinished(u)'
               PROVE  (/\ w[u].name \in Records
                       /\ Writing(u) => /\ Live(w[u].name)
                                        /\ w[u].k < size[w[u].name]
                                        /\ w[u].pc # "body" => w[u].k = 0)'
    BY DEF Pending, Writing, Unfinished
  <2>1. CASE u = t
    <3>1. w'[u].name = m /\ w'[u].k = 0
      BY <1>5, <2>1
    <3>2. m - 1 < cursor' /\ cursor' - (m - 1) <= Slots
      BY <1>2, <1>3
    <3>3. m \in Records' /\ 0 < size'[m]
      BY <1>3, <1>7, <1>9
    <3> QED
      BY <3>1, <3>2, <3>3 DEF Live
  <2>2. CASE u # t
    <3>1. w'[u] = w[u] /\ Unfinished(u) /\ (Writing(u)' <=> Writing(u))
      BY <1>5, <1>6, <2>2
    <3>2. /\ w[u].name \in Records
          /\ Writing(u) => /\ Live(w[u].name) /\ w[u].k < size[w[u].name]
                           /\ w[u].pc # "body" => w[u].k = 0
      BY <1>1, <3>1 DEF Layout, Pending
    <3>3. Writing(u) => cursor' - (w[u].name - 1) <= Slots
      <4>1. Writing(u) => cursor + n - (w[u].name - 1) <= Slots
        BY <1>2, <3>1 DEF LapsNobody
      <4>2. w[u].name \in Nat
        BY <1>8, <3>2
      <4> QED
        BY <1>2, <1>3, <4>1, <4>2
    <3>4. w[u].name - 1 < cursor'
      BY <1>2, <1>3, <1>8, <3>2
    <3>5. w[u].name \in Records' /\ size'[w[u].name] = size[w[u].name]
      BY <1>9, <3>2
    <3> QED
      BY <3>1, <3>2, <3>3, <3>4, <3>5 DEF Live
  <2> QED
    BY <2>1, <2>2
<1>15. OwnRecord'
  <2> SUFFICES ASSUME NEW u \in Writers, NEW v \in Writers,
                      Unfinished(u)', Unfinished(v)', u # v
               PROVE  w'[u].name # w'[v].name
    BY DEF OwnRecord
  <2>1. \A a \in Writers \ {t} :
          Unfinished(a)' => Unfinished(a) /\ w'[a] = w[a] /\ w[a].name # m
    BY <1>1, <1>5, <1>6, <1>8 DEF Layout, Pending
  <2>2. w'[t].name = m
    BY <1>5
  <2>3. CASE u = t \/ v = t
    BY <2>1, <2>2, <2>3
  <2>4. CASE u # t /\ v # t
    BY <1>1, <2>1, <2>4 DEF Layout, OwnRecord
  <2> QED
    BY <2>3, <2>4
<1>16. Headed'
  BY <1>1, <1>4, <1>9 DEF MemoryInv, Headed, Phys
<1>17. Unpublished'
  <2> SUFFICES ASSUME NEW u \in Writers, Unfinished(u)', NEW q \in 0 .. Slots - 1
               PROVE  slot[q].seq # w'[u].name
    BY <1>4 DEF Unpublished
  <2>1. CASE u = t
    <3>1. slot[q].seq = 0 \/ slot[q].seq \in Records
      BY <1>1 DEF MemoryInv, Headed
    <3> QED
      BY <1>3, <1>5, <1>8, <2>1, <3>1
  <2>2. CASE u # t
    BY <1>1, <1>5, <1>6, <2>2 DEF MemoryInv, Unpublished
  <2> QED
    BY <2>1, <2>2
<1>18. \A u \in Writers : PutDown(u)'
  <2> SUFFICES ASSUME NEW u \in Writers PROVE PutDown(u)'
    OBVIOUS
  <2>1. CASE u = t
    BY <1>5, <2>1 DEF PutDown, Begun
  <2>2. CASE u # t
    BY <1>1, <1>4, <1>5, <2>2 DEF MemoryInv, PutDown, Head, Chunks, Phys
  <2> QED
    BY <2>1, <2>2
<1>19. \A a \in Records : Written(a)' <=> Written(a)
  BY <1>5, <1>6, <1>8 DEF Written
<1>20. Complete'
  <2> SUFFICES ASSUME NEW a \in Records', Live(a)', Written(a)' PROVE Whole(a)'
    BY DEF Complete
  <2>1. a # m
    BY <1>5, <1>6 DEF Written
  <2>2. a \in Records /\ Live(a) /\ Written(a) /\ size'[a] = size[a]
    BY <1>9, <1>10, <1>19, <2>1
  <2>3. Whole(a)
    BY <1>1, <2>2 DEF MemoryInv, Complete
  <2> QED
    BY <1>4, <2>2, <2>3 DEF Whole, Chunks, Phys
<1>21. MemoryInv'
  BY <1>11, <1>12, <1>13, <1>14, <1>15, <1>16, <1>17, <1>18, <1>20
     DEF MemoryInv, Layout
<1>22. Seen'
  <2> SUFFICES ASSUME r.pc \in {"meta", "sum", "copy"}
               PROVE  /\ r.seq \in Records' /\ Phys(r.seq - 1) = r.p /\ Written(r.seq)'
                      /\ slot[r.p].seq = r.seq =>
                           /\ r.pc \in {"sum", "copy"} => r.meta = r.seq
                           /\ r.pc = "copy" => r.sum = r.seq
    BY <1>4 DEF Seen, Phys, Written, Unfinished
  <2> QED
    BY <1>1, <1>4, <1>9, <1>19 DEF Seen
<1>23. NeverMisread' /\ Undisturbed'
  BY <1>4 DEF IInv, NeverMisread, Undisturbed
<1> QED
  BY <1>21, <1>22, <1>23 DEF IInv

--------------------------------------------------------------------------------
(* The reader.                                                             *)

ReaderStates ==
  [pc : {"idle", "load", "meta", "sum", "copy", "sort"}, p : 0 .. Slots - 1,
   seq : {0} \cup Names, meta : {0} \cup Names, sum : {0} \cup Names,
   k : Nat, intact : BOOLEAN, since : {r.since}]

(* Reading changes nothing but the reader.                                 *)
LEMMA ReadFrame ==
  ASSUME MemoryInv, UNCHANGED <<cursor, slot, size, w>>, (r \in ReaderStates)'
  PROVE  /\ MemoryInv' /\ Records' = Records /\ LiveRecords' = LiveRecords
         /\ \A n : (Live(n)' <=> Live(n)) /\ (Written(n)' <=> Written(n))
<1>1. Layout'
  BY DEF MemoryInv, Layout, Typed, ReaderStates, Within, Apart, Pending, OwnRecord,
         Records, Live, Writing, Unfinished
<1>2. (Headed /\ Unpublished /\ (\A t \in Writers : PutDown(t)) /\ Complete)'
  BY DEF MemoryInv, Headed, Unpublished, PutDown, Head, Chunks, Complete, Whole,
         Written, Unfinished, Records, Live, Phys
<1>3. \A n : (Live(n)' <=> Live(n)) /\ (Written(n)' <=> Written(n))
  BY DEF Live, Written, Unfinished
<1>4. Records' = Records /\ LiveRecords' = LiveRecords
  BY <1>3 DEF Records, LiveRecords, Abandoned
<1> QED
  BY <1>1, <1>2, <1>3, <1>4 DEF MemoryInv

LEMMA ReaderType ==
  ASSUME IInv
  PROVE  /\ MemoryInv /\ Layout /\ Typed /\ r \in ReaderStates
         /\ r.p \in 0 .. Slots - 1 /\ slot[r.p] \in Contents
         /\ Slots \in Nat /\ Slots >= 1
<1>1. MemoryInv /\ Layout /\ Typed /\ r \in ReaderStates
  BY DEF IInv, MemoryInv, Layout, Typed, ReaderStates
<1>2. r.p \in 0 .. Slots - 1 /\ slot[r.p] \in Contents
  BY <1>1 DEF Typed, ReaderStates
<1> QED
  BY <1>1, <1>2, SlotsAssumption

LEMMA LiveFacts ==
  ASSUME Layout, NEW n \in LiveRecords
  PROVE  n \in Records /\ Live(n) /\ n \in Nat /\ n >= 1 /\ Phys(n - 1) \in 0 .. Slots - 1
<1>1. n \in Records /\ Live(n)
  BY DEF LiveRecords, Records
<1>2. n \in Nat /\ n - 1 \in Nat
  BY <1>1, RecordFacts
<1> QED
  BY <1>1, <1>2, PhysRange, RecordFacts

(* The head of one live record is at a place.                              *)
LEMMA OneHead ==
  ASSUME Layout, NEW m \in LiveRecords, NEW n \in LiveRecords, Phys(m - 1) = Phys(n - 1)
  PROVE  m = n
<1> SUFFICES ASSUME m # n PROVE FALSE
  OBVIOUS
<1>1. m \in Records /\ n \in Records /\ Live(m) /\ Live(n)
  BY LiveFacts
<1>2. /\ 0 \in 0 .. size[m] - 1 /\ 0 \in 0 .. size[n] - 1
      /\ m - 1 + 0 = m - 1 /\ n - 1 + 0 = n - 1
  BY <1>1, RecordFacts
<1>3. Phys(m - 1 + 0) # Phys(n - 1 + 0)
  BY <1>1, <1>2, LiveRecordsApart
<1> QED
  BY <1>2, <1>3

(* The scan moves on to the next place.                                    *)
LEMMA NextSlotIInv ==
  ASSUME IInv, r.pc \in {"load", "meta", "sum", "copy"}, r' = NextSlot,
         UNCHANGED <<cursor, slot, size, w, still>>, NeverMisread',
         still => {rec.seq : rec \in out'} =
                    {rec.seq : rec \in out}
                      \cup {n \in LiveRecords : n > r.since /\ Phys(n - 1) = r.p}
  PROVE  IInv'
<1>1. /\ MemoryInv /\ Layout /\ Typed /\ r \in ReaderStates
      /\ r.p \in 0 .. Slots - 1 /\ Slots \in Nat /\ Slots >= 1 /\ Undisturbed
  BY ReaderType DEF IInv
<1>2. /\ r'.since = r.since /\ r'.pc \in {"load", "sort"}
      /\ r'.pc = "sort" => r.p + 1 = Slots
      /\ r'.pc = "load" => r'.p = r.p + 1 /\ r.p + 1 # Slots
  BY <1>1 DEF NextSlot, ReaderStates
<1>3. (r \in ReaderStates)'
  <2>1. r.p + 1 = Slots \/ r.p + 1 \in 0 .. Slots - 1
    BY <1>1
  <2>2. r' \in ReaderStates
    BY <1>1, <2>1 DEF NextSlot, ReaderStates
  <2> QED
    BY <1>2, <2>2 DEF ReaderStates
<1>4. /\ MemoryInv' /\ LiveRecords' = LiveRecords
  BY <1>1, <1>3, ReadFrame
<1>5. Seen'
  BY <1>2 DEF Seen
<1>6. ASSUME NEW n \in LiveRecords
      PROVE  Behind(n)' <=> Behind(n) \/ Phys(n - 1) = r.p
  <2>1. Phys(n - 1) \in 0 .. Slots - 1 /\ Phys(n - 1)' = Phys(n - 1)
    BY <1>1, LiveFacts DEF Phys
  <2>2. CASE r'.pc = "sort"
    <3>1. Behind(n)'
      BY <2>2 DEF Behind
    <3>2. Phys(n - 1) < r.p \/ Phys(n - 1) = r.p
      BY <1>1, <1>2, <2>1, <2>2
    <3> QED
      BY <3>1, <3>2 DEF Behind
  <2>3. CASE r'.pc = "load"
    <3>1. Behind(n)' <=> Phys(n - 1) < r.p + 1
      BY <1>2, <2>1, <2>3 DEF Behind
    <3>2. Phys(n - 1) < r.p + 1 <=> Phys(n - 1) < r.p \/ Phys(n - 1) = r.p
      BY <1>1, <2>1
    <3> QED
      BY <3>1, <3>2 DEF Behind
  <2> QED
    BY <1>2, <2>2, <2>3
<1>7. Undisturbed'
  <2> SUFFICES ASSUME still
               PROVE  /\ \A t \in Writers : ~ Writing(t)'
                      /\ {rec.seq : rec \in out'} =
                           {n \in LiveRecords' : n > r'.since /\ Behind(n)'}
    BY <1>2 DEF Undisturbed
  <2>1. /\ \A t \in Writers : ~ Writing(t)
        /\ {rec.seq : rec \in out} = {n \in LiveRecords : n > r.since /\ Behind(n)}
    BY <1>1 DEF Undisturbed
  <2>2. {n \in LiveRecords : n > r.since /\ Behind(n)'} =
          {n \in LiveRecords : n > r.since /\ Behind(n)}
            \cup {n \in LiveRecords : n > r.since /\ Phys(n - 1) = r.p}
    BY <1>6
  <2>3. {rec.seq : rec \in out'} = {n \in LiveRecords : n > r.since /\ Behind(n)'}
    BY <2>1, <2>2
  <2> QED
    BY <1>2, <1>4, <2>1, <2>3 DEF Writing
<1> QED
  BY <1>4, <1>5, <1>7 DEF IInv

LEMMA StartScanIInv ==
  ASSUME IInv, StartScan
  PROVE  IInv'
<1>1. /\ MemoryInv /\ Layout /\ r \in ReaderStates /\ Slots \in Nat /\ Slots >= 1
  BY ReaderType
<1>2. /\ r' = [r EXCEPT !.pc = "load", !.p = 0] /\ out' = {}
      /\ still' = (\A t \in Writers : ~ Writing(t))
      /\ UNCHANGED <<cursor, slot, size, w>>
  BY DEF StartScan
<1>3. (r \in ReaderStates)' /\ r'.pc = "load" /\ r'.p = 0
  <2>1. 0 \in 0 .. Slots - 1
    BY <1>1
  <2>2. r' \in ReaderStates /\ r'.since = r.since /\ r'.pc = "load" /\ r'.p = 0
    BY <1>1, <1>2, <2>1 DEF ReaderStates
  <2> QED
    BY <2>2 DEF ReaderStates
<1>4. MemoryInv' /\ LiveRecords' = LiveRecords
  BY <1>1, <1>2, <1>3, ReadFrame
<1>5. Seen' /\ NeverMisread'
  BY <1>2, <1>3 DEF Seen, NeverMisread
<1>6. \A n \in LiveRecords : ~ Behind(n)'
  BY <1>1, <1>3, LiveFacts DEF Behind, Phys
<1>7. Undisturbed'
  BY <1>2, <1>3, <1>4, <1>6 DEF Undisturbed, Writing
<1> QED
  BY <1>4, <1>5, <1>7 DEF IInv

(* An undisturbed scan meets a live record with its seq in place.          *)
LEMMA SeqInPlace ==
  ASSUME IInv, still, r.pc # "idle", NEW n \in LiveRecords, Phys(n - 1) = r.p
  PROVE  slot[r.p].seq = n /\ Whole(n)
<1>1. MemoryInv /\ Layout
  BY ReaderType
<1>2. n \in Records /\ Live(n)
  BY <1>1, LiveFacts
<1>3. Written(n)
  BY DEF IInv, Undisturbed, LiveRecords, Abandoned, Written, Writing, Unfinished
<1>4. Whole(n)
  BY <1>1, <1>2, <1>3 DEF MemoryInv, Complete
<1> QED
  BY <1>4 DEF Whole

LEMMA LoadSeqIInv ==
  ASSUME IInv, LoadSeq
  PROVE  IInv'
<1> DEFINE seq == slot[r.p].seq
<1>1. /\ MemoryInv /\ Layout /\ r \in ReaderStates /\ r.p \in 0 .. Slots - 1
      /\ slot[r.p] \in Contents /\ NeverMisread /\ Undisturbed
  BY ReaderType DEF IInv
<1>2. r.pc = "load" /\ UNCHANGED <<cursor, slot, size, w, still, out>>
  BY DEF LoadSeq, Reading
<1>3. CASE Plausible(seq, r.p)
  <2>1. r' = [r EXCEPT !.pc = "meta", !.seq = seq]
    BY <1>3 DEF LoadSeq
  <2>2. seq # 0 /\ seq > r.since /\ Live(seq)
    BY <1>3 DEF Plausible
  <2>3. seq \in Records /\ Phys(seq - 1) = r.p
    BY <1>1, <2>2 DEF MemoryInv, Headed
  <2>4. Written(seq)
    BY <1>1 DEF MemoryInv, Unpublished, Written
  <2> HIDE DEF seq
  <2>5. seq \in {0} \cup Names
    BY <1>1 DEF Contents, seq
  <2>6. /\ (r \in ReaderStates)' /\ r'.pc = "meta" /\ r'.seq = seq /\ r'.p = r.p
        /\ r'.since = r.since
    BY <1>1, <2>1, <2>5 DEF ReaderStates
  <2>7. /\ MemoryInv' /\ Records' = Records /\ LiveRecords' = LiveRecords
        /\ \A n : (Live(n)' <=> Live(n)) /\ (Written(n)' <=> Written(n))
    BY <1>1, <1>2, <2>6, ReadFrame
  <2>8. Seen'
    <3>1. (r.seq \in Records /\ Phys(r.seq - 1) = r.p /\ Written(r.seq))'
      BY <2>3, <2>4, <2>6, <2>7, <1>2 DEF Phys, Written, Unfinished
    <3> QED
      BY <2>6, <3>1 DEF Seen
  <2>9. Undisturbed'
    <3> SUFFICES ASSUME still
                 PROVE  /\ \A t \in Writers : ~ Writing(t)'
                        /\ {rec.seq : rec \in out'} =
                             {n \in LiveRecords' : n > r'.since /\ Behind(n)'}
                        /\ slot'[r'.p].seq = r'.seq /\ Live(r.seq)' /\ r'.seq > r'.since
      BY <1>2, <2>6 DEF Undisturbed
    <3>1. \A n \in LiveRecords : Behind(n)' <=> Behind(n)
      BY <1>2, <2>6 DEF Behind, Phys
    <3>2. {rec.seq : rec \in out} = {n \in LiveRecords : n > r.since /\ Behind(n)}
      BY <1>1, <1>2 DEF Undisturbed
    <3>3. \A t \in Writers : ~ Writing(t)
      BY <1>1, <1>2 DEF Undisturbed
    <3>4. {rec.seq : rec \in out'} = {n \in LiveRecords' : n > r'.since /\ Behind(n)'}
      BY <1>2, <2>6, <2>7, <3>1, <3>2
    <3>5. slot'[r'.p].seq = r'.seq
      BY <1>2, <2>6 DEF seq
    <3>6. Live(r.seq)' /\ r'.seq > r'.since
      BY <1>2, <2>2, <2>6 DEF Live
    <3> QED
      BY <1>2, <3>3, <3>4, <3>5, <3>6 DEF Writing
  <2> QED
    BY <1>1, <1>2, <2>7, <2>8, <2>9 DEF IInv, NeverMisread
<1>4. CASE ~ Plausible(seq, r.p)
  <2>1. r' = NextSlot
    BY <1>4 DEF LoadSeq
  <2>2. still => {n \in LiveRecords : n > r.since /\ Phys(n - 1) = r.p} = {}
    <3> SUFFICES ASSUME still, NEW n \in LiveRecords, n > r.since, Phys(n - 1) = r.p
                 PROVE  FALSE
      OBVIOUS
    <3>1. seq = n
      BY <1>2, SeqInPlace
    <3>2. Live(n) /\ n # 0
      BY <1>1, LiveFacts
    <3> QED
      BY <1>4, <3>1, <3>2 DEF Plausible
  <2>3. NeverMisread'
    BY <1>1, <1>2 DEF NeverMisread
  <2> QED
    BY <1>2, <2>1, <2>2, <2>3, NextSlotIInv
<1> QED
  BY <1>3, <1>4

(* A step of the reader that keeps to its record and its place.            *)
LEMMA LookIInv ==
  ASSUME IInv, r.pc \in {"meta", "sum", "copy"}, r'.pc \in {"meta", "sum", "copy"},
         (r \in ReaderStates)', r'.p = r.p, r'.seq = r.seq, r'.since = r.since,
         UNCHANGED <<cursor, slot, size, w, still, out>>,
         slot[r.p].seq = r.seq => /\ r'.pc \in {"sum", "copy"} => r'.meta = r.seq
                                  /\ r'.pc = "copy" => r'.sum = r.seq,
         still => (r'.pc = "copy" => r'.intact)
  PROVE  IInv'
<1>1. MemoryInv /\ Layout /\ NeverMisread /\ Undisturbed /\ Seen
  BY ReaderType DEF IInv
<1>2. /\ MemoryInv' /\ Records' = Records /\ LiveRecords' = LiveRecords
      /\ \A n : (Live(n)' <=> Live(n)) /\ (Written(n)' <=> Written(n))
  BY <1>1, ReadFrame
<1>3. (r.seq \in Records /\ Phys(r.seq - 1) = r.p /\ Written(r.seq))'
  <2>1. r.seq \in Records /\ Phys(r.seq - 1) = r.p /\ Written(r.seq)
    BY <1>1 DEF Seen
  <2> QED
    BY <1>2, <2>1 DEF Phys, Written, Unfinished
<1>4. Seen'
  BY <1>3 DEF Seen
<1>5. Undisturbed'
  <2> SUFFICES ASSUME still
               PROVE  /\ \A t \in Writers : ~ Writing(t)'
                      /\ {rec.seq : rec \in out'} =
                           {n \in LiveRecords' : n > r'.since /\ Behind(n)'}
                      /\ slot'[r'.p].seq = r'.seq /\ Live(r.seq)' /\ r'.seq > r'.since
    BY DEF Undisturbed
  <2>1. /\ \A t \in Writers : ~ Writing(t)
        /\ {rec.seq : rec \in out} = {n \in LiveRecords : n > r.since /\ Behind(n)}
        /\ slot[r.p].seq = r.seq /\ Live(r.seq) /\ r.seq > r.since
    BY <1>1 DEF Undisturbed
  <2>2. \A n \in LiveRecords : Behind(n)' <=> Behind(n)
    BY DEF Behind, Phys
  <2>3. {rec.seq : rec \in out'} = {n \in LiveRecords' : n > r'.since /\ Behind(n)'}
    BY <1>2, <2>1, <2>2
  <2> QED
    BY <2>1, <2>3 DEF Writing, Live
<1>6. NeverMisread'
  BY <1>1 DEF NeverMisread
<1> QED
  BY <1>2, <1>4, <1>5, <1>6 DEF IInv

LEMMA LoadMetaIInv ==
  ASSUME IInv, LoadMeta
  PROVE  IInv'
<1>1. /\ MemoryInv /\ r \in ReaderStates /\ slot[r.p] \in Contents /\ Seen /\ Layout
      /\ r.p \in 0 .. Slots - 1
  BY ReaderType DEF IInv
<1>2. /\ r.pc = "meta" /\ r' = [r EXCEPT !.pc = "sum", !.meta = slot[r.p].meta]
      /\ UNCHANGED <<cursor, slot, size, w, still, out>>
  BY DEF LoadMeta, Reading
<1>3. /\ (r \in ReaderStates)' /\ r'.pc = "sum" /\ r'.p = r.p /\ r'.seq = r.seq
      /\ r'.since = r.since /\ r'.meta = slot[r.p].meta
  BY <1>1, <1>2 DEF ReaderStates, Contents
<1>4. r.seq # 0
  BY <1>1, <1>2, RecordFacts DEF Seen
<1>5. slot[r.p].seq = r.seq => r'.meta = r.seq
  BY <1>1, <1>3, <1>4 DEF MemoryInv, Headed
<1> QED
  BY <1>2, <1>3, <1>5, LookIInv

LEMMA LoadSumIInv ==
  ASSUME IInv, LoadSum
  PROVE  IInv'
<1> DEFINE sum == slot[r.p].sum
<1>1. /\ MemoryInv /\ r \in ReaderStates /\ slot[r.p] \in Contents /\ Seen /\ Layout
      /\ r.p \in 0 .. Slots - 1 /\ NeverMisread /\ Undisturbed
  BY ReaderType DEF IInv
<1>2. r.pc = "sum" /\ UNCHANGED <<cursor, slot, size, w, still, out>>
  BY DEF LoadSum, Reading
<1>3. r.seq # 0
  BY <1>1, <1>2, RecordFacts DEF Seen
<1>4. slot[r.p].seq = r.seq => sum = r.seq
  BY <1>1, <1>3 DEF MemoryInv, Headed
<1>5. CASE sum = 0
  <2>1. r' = NextSlot
    BY <1>5 DEF LoadSum
  <2>2. ~ still
    BY <1>1, <1>2, <1>3, <1>4, <1>5 DEF Undisturbed
  <2>3. NeverMisread'
    BY <1>1, <1>2 DEF NeverMisread
  <2> QED
    BY <1>2, <2>1, <2>2, <2>3, NextSlotIInv
<1>6. CASE sum # 0
  <2>1. r' = [r EXCEPT !.pc = "copy", !.sum = sum, !.k = 0, !.intact = TRUE]
    BY <1>6 DEF LoadSum
  <2>2. sum \in {0} \cup Names
    BY <1>1 DEF Contents
  <2> HIDE DEF sum
  <2>3. /\ (r \in ReaderStates)' /\ r'.pc = "copy" /\ r'.p = r.p /\ r'.seq = r.seq
        /\ r'.since = r.since /\ r'.meta = r.meta /\ r'.sum = sum /\ r'.intact
    BY <1>1, <2>1, <2>2 DEF ReaderStates
  <2>4. slot[r.p].seq = r.seq => r'.meta = r.seq /\ r'.sum = r.seq
    BY <1>1, <1>2, <1>4, <2>3 DEF Seen
  <2> QED
    BY <1>2, <2>3, <2>4, LookIInv
<1> QED
  BY <1>5, <1>6

LEMMA ChunkCounted ==
  ASSUME r \in ReaderStates, NEW ok \in BOOLEAN, NEW k \in Nat,
         r' = [r EXCEPT !.k = k, !.intact = ok]
  PROVE  /\ (r \in ReaderStates)' /\ r'.pc = r.pc /\ r'.p = r.p
         /\ r'.seq = r.seq /\ r'.since = r.since /\ r'.meta = r.meta
         /\ r'.sum = r.sum /\ r'.intact = ok
<1>1. /\ r' \in ReaderStates /\ r'.pc = r.pc /\ r'.p = r.p
      /\ r'.seq = r.seq /\ r'.since = r.since /\ r'.meta = r.meta
      /\ r'.sum = r.sum /\ r'.intact = ok
  BY DEF ReaderStates
<1> QED
  BY <1>1 DEF ReaderStates

LEMMA CopyChunkIInv ==
  ASSUME IInv, CopyChunk
  PROVE  IInv'
<1>1. /\ MemoryInv /\ r \in ReaderStates /\ Seen /\ Layout /\ Undisturbed
  BY ReaderType DEF IInv
<1>2. /\ r.pc = "copy" /\ r.k < size[r.sum]
      /\ r' = [r EXCEPT !.k = @ + 1,
                        !.intact = @ /\ Holds(slot[Phys(r.seq - 1 + r.k)], r.k)]
      /\ UNCHANGED <<cursor, slot, size, w, still, out>>
  BY DEF CopyChunk, Reading
<1>3. /\ r.k \in Nat /\ r.intact \in BOOLEAN
      /\ Holds(slot[Phys(r.seq - 1 + r.k)], r.k) \in BOOLEAN
  BY <1>1 DEF ReaderStates, Holds
<1>4. /\ (r \in ReaderStates)' /\ r'.pc = "copy" /\ r'.p = r.p /\ r'.seq = r.seq
      /\ r'.since = r.since /\ r'.meta = r.meta /\ r'.sum = r.sum
      /\ r'.intact = (r.intact /\ Holds(slot[Phys(r.seq - 1 + r.k)], r.k))
  <2> SUFFICES ASSUME NEW ok \in BOOLEAN,
                      ok = (r.intact /\ Holds(slot[Phys(r.seq - 1 + r.k)], r.k))
               PROVE  /\ (r \in ReaderStates)' /\ r'.pc = "copy" /\ r'.p = r.p
                      /\ r'.seq = r.seq /\ r'.since = r.since /\ r'.meta = r.meta
                      /\ r'.sum = r.sum /\ r'.intact = ok
    BY <1>3
  <2>1. r' = [r EXCEPT !.k = r.k + 1, !.intact = ok] /\ r.k + 1 \in Nat
    BY <1>2, <1>3
  <2> QED
    BY <1>1, <1>2, <2>1, ChunkCounted
<1>5. slot[r.p].seq = r.seq => r'.meta = r.seq /\ r'.sum = r.seq
  BY <1>1, <1>2, <1>4 DEF Seen
<1>6. ASSUME still PROVE r'.intact
  <2>1. slot[r.p].seq = r.seq /\ Live(r.seq) /\ r.intact
    BY <1>1, <1>2, <1>6 DEF Undisturbed
  <2>2. r.seq \in Records /\ Written(r.seq) /\ r.sum = r.seq
    BY <1>1, <1>2, <2>1 DEF Seen
  <2>3. Whole(r.seq)
    BY <1>1, <2>1, <2>2 DEF MemoryInv, Complete
  <2>4. r.seq \in Nat /\ size[r.seq] \in Nat
    BY <1>1, <2>2, RecordFacts
  <2>5. CASE r.k = 0
    <3>1. r.seq - 1 + r.k = r.seq - 1
      BY <2>4, <2>5
    <3> QED
      BY <1>4, <2>1, <2>2, <2>3, <2>5, <3>1 DEF Whole, Holds
  <2>6. CASE r.k # 0
    <3>1. r.k \in 1 .. size[r.seq] - 1
      BY <1>2, <1>3, <2>2, <2>4, <2>6
    <3> QED
      BY <1>4, <2>1, <2>2, <2>3, <2>6, <3>1 DEF Whole, Chunks, Holds
  <2> QED
    BY <2>5, <2>6
<1> QED
  BY <1>2, <1>4, <1>5, <1>6, LookIInv

LEMMA VerifyIInv ==
  ASSUME IInv, Verify
  PROVE  IInv'
<1> DEFINE found == [seq |-> r.seq, meta |-> r.meta, msg |-> Copied]
<1>1. /\ MemoryInv /\ r \in ReaderStates /\ Seen /\ Layout /\ Undisturbed /\ NeverMisread
  BY ReaderType DEF IInv
<1>2. /\ r.pc = "copy" /\ r' = NextSlot
      /\ out' = IF Verified THEN out \cup {found} ELSE out
      /\ UNCHANGED <<cursor, slot, size, w, still>>
  BY DEF Verify, Reading
<1>3. Verified => found.meta = found.seq /\ found.msg = found.seq
  BY <1>1, <1>2 DEF Verified, Copied, Seen
<1>4. found.seq = r.seq
  OBVIOUS
<1> HIDE DEF found
<1>5. NeverMisread'
  BY <1>1, <1>2, <1>3 DEF NeverMisread
<1>6. ASSUME still
      PROVE  {rec.seq : rec \in out'} =
               {rec.seq : rec \in out}
                 \cup {n \in LiveRecords : n > r.since /\ Phys(n - 1) = r.p}
  <2>1. Verified /\ Live(r.seq) /\ r.seq > r.since
    BY <1>1, <1>2, <1>6 DEF Undisturbed, Verified
  <2>2. r.seq \in LiveRecords /\ Phys(r.seq - 1) = r.p
    BY <1>1, <1>2, <2>1 DEF Seen, LiveRecords, Records, Abandoned, Written, Unfinished
  <2>3. {n \in LiveRecords : n > r.since /\ Phys(n - 1) = r.p} = {r.seq}
    BY <1>1, <2>1, <2>2, OneHead
  <2>4. out' = out \cup {found}
    BY <1>2, <2>1
  <2>5. {rec.seq : rec \in out \cup {found}} = {rec.seq : rec \in out} \cup {r.seq}
    BY <1>4
  <2> QED
    BY <2>3, <2>4, <2>5
<1> QED
  BY <1>2, <1>5, <1>6, NextSlotIInv

LEMMA EndScanIInv ==
  ASSUME IInv, EndScan
  PROVE  IInv'
<1>1. MemoryInv /\ NeverMisread /\ Slots \in Nat /\ Slots >= 1
  BY ReaderType DEF IInv
<1>2. /\ r' = [IdleReader EXCEPT !.since = MaxSeen]
      /\ UNCHANGED <<cursor, slot, size, w, out, still>>
  BY DEF EndScan
<1>3. (r \in ReaderStates)' /\ r'.pc = "idle"
  <2> SUFFICES ASSUME NEW last, last = MaxSeen PROVE (r \in ReaderStates)' /\ r'.pc = "idle"
    OBVIOUS
  <2>1. r' = [pc |-> "idle", p |-> 0, seq |-> 0, meta |-> 0, sum |-> 0, k |-> 0,
              intact |-> TRUE, since |-> last]
    BY <1>2 DEF IdleReader
  <2>2. 0 \in 0 .. Slots - 1
    BY <1>1
  <2> QED
    BY <2>1, <2>2 DEF ReaderStates
<1>4. MemoryInv'
  BY <1>1, <1>2, <1>3, ReadFrame
<1> QED
  BY <1>1, <1>2, <1>3, <1>4 DEF IInv, Seen, NeverMisread, Undisturbed

--------------------------------------------------------------------------------
(* The ring as it is created.                                              *)

Fresh ==
  /\ Typed
  /\ cursor = 0 /\ slot = EmptyRing /\ size = [n \in Names |-> 0]
  /\ \A t \in Writers : w[t].pc = "idle"

LEMMA EmptyMemory == Fresh => MemoryInv
<1> SUFFICES ASSUME Fresh PROVE MemoryInv
  OBVIOUS
<1>1. Records = {}
  BY DEF Fresh, Records
<1>2. \A p \in 0 .. Slots - 1 : slot[p].seq = 0
  BY DEF Fresh, EmptyRing, EmptySlot
<1>3. \A t \in Writers : ~ Writing(t) /\ ~ Unfinished(t) /\ PutDown(t)
  BY DEF Fresh, Writing, Unfinished, PutDown, Begun
<1>4. Layout
  BY <1>1, <1>3 DEF Fresh, Layout, Within, Apart, Pending, OwnRecord
<1> QED
  BY <1>1, <1>2, <1>3, <1>4 DEF MemoryInv, Headed, Unpublished, Complete

LEMMA EmptyTyped ==
  /\ EmptyRing \in [0 .. Slots - 1 -> Contents]
  /\ [n \in Names |-> 0] \in [Names -> {0} \cup Sizes]
  /\ 0 \in 0 .. MaxSlots
BY MaxSlotsAssumption DEF EmptyRing, EmptySlot, Contents, NoChunk

LEMMA InitIInv == Init => IInv
<1> SUFFICES ASSUME Init PROVE IInv
  OBVIOUS
<1>1. /\ w = [t \in Writers |-> IdleWriter] /\ r = IdleReader /\ out = {}
      /\ cursor = 0 /\ slot = EmptyRing /\ size = [n \in Names |-> 0]
  BY DEF Init
<1>2. r \in ReaderStates /\ r.pc = "idle"
  BY <1>1, SlotsAssumption DEF IdleReader, ReaderStates
<1>3. w \in [Writers -> WriterStates] /\ \A t \in Writers : w[t].pc = "idle"
  BY <1>1 DEF IdleWriter, WriterStates
<1>4. Typed
  BY <1>1, <1>2, <1>3, EmptyTyped DEF Typed, ReaderStates, WriterStates
<1>5. MemoryInv
  BY <1>1, <1>3, <1>4, EmptyMemory DEF Fresh
<1> QED
  BY <1>1, <1>2, <1>5 DEF IInv, Seen, NeverMisread, Undisturbed

LEMMA CreateAgainIInv ==
  ASSUME IInv, CreateAgain
  PROVE  IInv'
<1>1. Typed /\ NeverMisread
  BY ReaderType DEF IInv
<1>2. /\ r.pc = "idle" /\ w' = [t \in Writers |-> IdleWriter]
      /\ cursor' = 0 /\ slot' = EmptyRing /\ size' = [n \in Names |-> 0]
      /\ UNCHANGED <<r, out>>
  BY DEF CreateAgain
<1>3. Typed'
  <2>1. w' \in [Writers -> WriterStates]
    BY <1>2 DEF IdleWriter, WriterStates
  <2> QED
    BY <1>1, <1>2, <2>1, EmptyTyped DEF Typed, WriterStates
<1>4. EmptyRing' = EmptyRing /\ (\A t \in Writers : w'[t].pc = "idle")
  BY <1>2 DEF EmptyRing, IdleWriter
<1>5. MemoryInv'
  <2>1. Fresh'
    BY <1>2, <1>3, <1>4 DEF Fresh, Names
  <2> QED
    BY <2>1, EmptyMemory, PTL
<1> QED
  BY <1>1, <1>2, <1>5 DEF IInv, Seen, NeverMisread, Undisturbed

(* A death changes nothing in memory, and there is no quiet scan then.     *)
LEMMA DieIInv ==
  ASSUME IInv, NEW t \in Writers, Die(t)
  PROVE  IInv'
<1> DEFINE new == [w[t] EXCEPT !.pc = "dead"]
<1>1. /\ MemoryInv /\ Layout /\ Typed /\ Seen /\ NeverMisread /\ Undisturbed
      /\ r \in ReaderStates
  BY ReaderType DEF IInv
<1>2. /\ Writing(t) /\ w' = [w EXCEPT ![t] = new]
      /\ UNCHANGED <<cursor, slot, size, r, out, still>>
  BY DEF Die
<1>3. /\ new \in WriterStates /\ new.pc = "dead" /\ new.name = w[t].name
      /\ w \in [Writers -> WriterStates]
  BY <1>1 DEF Typed, WriterStates
<1> HIDE DEF new
<1>4. w' \in [Writers -> WriterStates] /\ w'[t] = new /\ \A u \in Writers \ {t} : w'[u] = w[u]
  BY <1>2, <1>3
<1>5. \A u \in Writers : /\ w'[u].name = w[u].name /\ (Unfinished(u)' <=> Unfinished(u))
                         /\ Writing(u)' => u # t /\ Writing(u) /\ w'[u] = w[u]
  BY <1>2, <1>3, <1>4 DEF Writing, Unfinished
<1>6. Records' = Records /\ \A n : (Live(n)' <=> Live(n)) /\ (Written(n)' <=> Written(n))
  BY <1>2, <1>5 DEF Records, Live, Written
<1>7. Layout'
  <2>1. Typed' /\ Within' /\ Apart'
    BY <1>1, <1>2, <1>4, <1>6 DEF Layout, Typed, Within, Apart, WriterStates
  <2>2. Pending' /\ OwnRecord'
    BY <1>1, <1>2, <1>5, <1>6 DEF Layout, Pending, OwnRecord
  <2> QED
    BY <2>1, <2>2 DEF Layout
<1>8. Headed' /\ Unpublished'
  BY <1>1, <1>2, <1>5, <1>6 DEF MemoryInv, Headed, Unpublished, Phys
<1>9. \A u \in Writers : PutDown(u)'
  <2> SUFFICES ASSUME NEW u \in Writers PROVE PutDown(u)'
    OBVIOUS
  <2>1. CASE u = t
    BY <1>3, <1>4, <2>1 DEF PutDown, Begun
  <2>2. CASE u # t
    BY <1>1, <1>2, <1>4, <2>2 DEF MemoryInv, PutDown, Head, Chunks, Phys
  <2> QED
    BY <2>1, <2>2
<1>10. Complete'
  BY <1>1, <1>2, <1>6 DEF MemoryInv, Complete, Whole, Chunks, Phys
<1>11. Seen' /\ NeverMisread'
  BY <1>1, <1>2, <1>6 DEF Seen, NeverMisread, Phys
<1>12. Undisturbed'
  BY <1>1, <1>2 DEF Undisturbed
<1> QED
  BY <1>7, <1>8, <1>9, <1>10, <1>11, <1>12 DEF IInv, MemoryInv

LEMMA StutterIInv ==
  ASSUME IInv, UNCHANGED vars
  PROVE  IInv'
<1>1. UNCHANGED <<cursor, slot, size, w, r, out, still>>
  BY DEF vars
<1>2. MemoryInv /\ (r \in ReaderStates)'
  BY <1>1, ReaderType DEF ReaderStates
<1>3. /\ MemoryInv' /\ Records' = Records /\ LiveRecords' = LiveRecords
      /\ \A n : (Live(n)' <=> Live(n)) /\ (Written(n)' <=> Written(n))
  BY <1>1, <1>2, ReadFrame
<1>4. Seen' /\ NeverMisread'
  BY <1>1, <1>3 DEF IInv, Seen, NeverMisread, Phys, Written, Unfinished
<1>5. Undisturbed'
  BY <1>1, <1>3 DEF IInv, Undisturbed, Behind, Phys, Live, Writing
<1> QED
  BY <1>3, <1>4, <1>5 DEF IInv

LEMMA NextIInv ==
  ASSUME Orderly, IInv, [Next]_vars
  PROVE  IInv'
<1>1. CASE UNCHANGED vars
  BY <1>1, StutterIInv
<1>2. ASSUME NEW t \in Writers, Reserve(t) PROVE IInv'
  BY <1>2, ReserveIInv DEF Orderly
<1>3. ASSUME NEW t \in Writers, Write(t) PROVE IInv'
  BY <1>3, HeaderIInv, ContinuationIInv, PublishIInv DEF Write, Orderly
<1>4. CASE StartScan
  BY <1>4, StartScanIInv
<1>5. CASE Read
  BY <1>5, LoadSeqIInv, LoadMetaIInv, LoadSumIInv, CopyChunkIInv, VerifyIInv, EndScanIInv
     DEF Read
<1>6. CASE CreateAgain
  BY <1>6, CreateAgainIInv
<1>7. ASSUME NEW t \in Writers, Die(t) PROVE IInv'
  BY <1>7, DieIInv
<1> QED
  BY <1>1, <1>2, <1>3, <1>4, <1>5, <1>6, <1>7 DEF Next

LEMMA Invariant == ASSUME Orderly PROVE Spec => []IInv
<1>1. Init => IInv
  BY InitIInv
<1>2. IInv /\ [Next]_vars => IInv'
  BY NextIInv
<1> QED
  BY <1>1, <1>2, PTL DEF Spec

(* While no writer is lapped and no last chunk is short, a scan never      *)
(* mixes records: each one it returns has its own time, line and text.     *)
THEOREM NoMisreading == ASSUME Orderly PROVE Spec => []NeverMisread
<1>1. IInv => NeverMisread
  BY DEF IInv
<1> QED
  BY <1>1, Invariant, PTL

(* A scan that no writer disturbed returns exactly the live records that   *)
(* are newer than the last one it returned before.                         *)
THEOREM QuietScans == ASSUME Orderly PROVE Spec => []QuietScanIsComplete
<1>1. IInv => QuietScanIsComplete
  <2> SUFFICES ASSUME IInv, r.pc = "sort", still
               PROVE  {rec.seq : rec \in out} = {n \in LiveRecords : n > r.since}
    BY DEF QuietScanIsComplete
  <2> QED
    BY DEF IInv, Undisturbed, Behind
<1> QED
  BY <1>1, Invariant, PTL

--------------------------------------------------------------------------------
(* A published record goes only when newer ones take its slots.            *)

(* A writer's store leaves alone what another live record has published.   *)
LEMMA StoreElsewhere ==
  ASSUME Layout, NEW t \in Writers, Writing(t), NEW j \in 0 .. size[w[t].name] - 1,
         NEW c, slot' = [slot EXCEPT ![Phys(w[t].name - 1 + j)] = c],
         NEW n \in LiveRecords, n # w[t].name, Published(n)
  PROVE  Published(n)'
<1>1. n \in Records /\ Live(n) /\ n - 1 \in Nat /\ Phys(n - 1) \in 0 .. Slots - 1
  BY LiveFacts
<1>2. Phys(n - 1) # Phys(w[t].name - 1 + j)
  BY <1>1, WritesElsewhere
<1>3. slot'[Phys(n - 1)] = slot[Phys(n - 1)]
  BY <1>1, <1>2 DEF Layout, Typed
<1> QED
  BY <1>3 DEF Published, Phys

(* A record that is being written is not published.                        *)
LEMMA PendingIsUnpublished ==
  ASSUME IInv, NEW t \in Writers, Writing(t), NEW n \in LiveRecords, Published(n)
  PROVE  n # w[t].name
<1>1. MemoryInv /\ Layout
  BY ReaderType
<1>2. Phys(n - 1) \in 0 .. Slots - 1
  BY <1>1, LiveFacts
<1> QED
  BY <1>1, <1>2 DEF MemoryInv, Unpublished, Published, Writing, Unfinished

LEMMA WriteKeepsPublished ==
  ASSUME ~ ShortTails, IInv, NEW t \in Writers, Write(t),
         NEW n \in LiveRecords, Published(n)
  PROVE  Published(n)'
<1>1. Layout /\ Writing(t)
  BY ReaderType
     DEF Write, Writing, Invalidate, PutMeta, PutSum, PutHeadPayload, PutContinuation,
         Publish
<1>2. n # w[t].name
  BY <1>1, PendingIsUnpublished
<1>3. PICK j \in 0 .. size[w[t].name] - 1 :
        \E c : slot' = [slot EXCEPT ![Phys(w[t].name - 1 + j)] = c]
  <2>1. CASE PutContinuation(t)
    <3> DEFINE k == w[t].k + 1
    <3>1. k \in 0 .. size[w[t].name] - 1
      BY <1>1, <2>1, PendingFacts DEF PutContinuation
    <3>2. slot' = [slot EXCEPT ![Phys(w[t].name - 1 + k)] = Overlaid(<<w[t].name, k>>)]
      BY <2>1 DEF PutContinuation
    <3> HIDE DEF k
    <3> QED
      BY <3>1, <3>2
  <2>2. CASE ~ PutContinuation(t)
    <3>1. \E c : slot' = [slot EXCEPT ![Head(t)] = c]
      BY <2>2 DEF Write, Invalidate, PutMeta, PutSum, PutHeadPayload, Publish, Store
    <3>2. 0 \in 0 .. size[w[t].name] - 1 /\ Head(t) = Phys(w[t].name - 1 + 0)
      BY <1>1, PendingFacts
    <3> QED
      BY <3>1, <3>2
  <2> QED
    BY <2>1, <2>2
<1>4. PICK c : slot' = [slot EXCEPT ![Phys(w[t].name - 1 + j)] = c]
  BY <1>3
<1> QED
  BY <1>1, <1>2, <1>4, StoreElsewhere

(* Whatever writers die, and until a process creates the ring anew: a      *)
(* published record stays published until a newer one takes its slots.     *)
THEOREM RecordsStay == ASSUME Orderly, ~ MayReset PROVE Spec => OnlyOverwritten
<1>1. IInv /\ [Next]_vars =>
        [\A n \in LiveRecords : Published(n) /\ ~ Published(n)' => cursor' > cursor]_vars
  <2> SUFFICES ASSUME IInv, Next, NEW n \in LiveRecords, Published(n), ~ Published(n)'
               PROVE  cursor' > cursor
    OBVIOUS
  <2>1. ASSUME NEW t \in Writers, Reserve(t) PROVE FALSE
    BY <2>1 DEF Reserve, Published, Phys
  <2>2. ASSUME NEW t \in Writers, Write(t) PROVE FALSE
    BY <2>2, WriteKeepsPublished DEF Orderly
  <2>3. CASE StartScan \/ Read
    BY <2>3 DEF StartScan, Read, LoadSeq, LoadMeta, LoadSum, CopyChunk, Verify, EndScan,
                Reading, Published, Phys
  <2>4. CASE CreateAgain
    BY <2>4 DEF CreateAgain
  <2>5. ASSUME NEW t \in Writers, Die(t) PROVE FALSE
    BY <2>5 DEF Die, Published, Phys
  <2> QED
    BY <2>1, <2>2, <2>3, <2>4, <2>5 DEF Next
<1> QED
  BY <1>1, Invariant, PTL DEF Spec, OnlyOverwritten

--------------------------------------------------------------------------------
(* What holds even when writers lap each other and the ring is reset.      *)

Summed ==
  /\ r = [pc |-> r.pc, p |-> r.p, seq |-> r.seq, meta |-> r.meta, sum |-> r.sum,
          k |-> r.k, intact |-> r.intact, since |-> r.since]
  /\ r.pc = "copy" => r.sum # 0
  /\ NoTornText

(* A scan returns the whole text of one record or nothing.                 *)
THEOREM NoTearing == Spec => []NoTornText
<1>1. Init => Summed
  BY DEF Init, IdleReader, Summed, NoTornText
<1>2. Summed /\ [Next]_vars => Summed'
  <2> SUFFICES ASSUME Summed, [Next]_vars PROVE Summed'
    OBVIOUS
  <2>1. CASE UNCHANGED vars \/ CreateAgain
    BY <2>1 DEF vars, CreateAgain, Summed, NoTornText
  <2>2. ASSUME NEW t \in Writers, Reserve(t) \/ Write(t) \/ Die(t) PROVE Summed'
    BY <2>2 DEF Reserve, Die, Write, Invalidate, PutMeta, PutSum, PutHeadPayload,
                PutContinuation, Publish, Store, Summed, NoTornText
  <2>3. CASE StartScan
    BY <2>3 DEF StartScan, Summed, NoTornText
  <2>4. CASE LoadSeq
    BY <2>4 DEF LoadSeq, NextSlot, Summed, NoTornText
  <2>5. CASE LoadMeta \/ LoadSum
    BY <2>5 DEF LoadMeta, LoadSum, NextSlot, Summed, NoTornText
  <2>6. CASE CopyChunk
    <3> SUFFICES ASSUME NEW ok, r' = [r EXCEPT !.k = @ + 1, !.intact = ok] PROVE Summed'
      BY <2>6 DEF CopyChunk
    <3> QED
      BY <2>6 DEF CopyChunk, Summed, NoTornText
  <2>7. CASE Verify
    <3>1. r.sum # 0 /\ r' = NextSlot
      BY <2>7 DEF Verify, Summed
    <3>2. NoTornText'
      BY <2>7, <3>1 DEF Verify, Verified, Copied, Summed, NoTornText
    <3> QED
      BY <3>1, <3>2 DEF NextSlot, Summed
  <2>8. CASE EndScan
    BY <2>8 DEF EndScan, IdleReader, Summed, NoTornText
  <2> QED
    BY <2>1, <2>2, <2>3, <2>4, <2>5, <2>6, <2>7, <2>8 DEF Next, Read
<1>3. Summed => NoTornText
  BY DEF Summed
<1> QED
  BY <1>1, <1>2, <1>3, PTL DEF Spec
================================================================================
