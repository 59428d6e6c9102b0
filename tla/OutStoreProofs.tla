--------------------------- MODULE OutStoreProofs ---------------------------
(***************************************************************************)
(* Proofs about OutStore for every number of sectors and of slots in one,  *)
(* every set of configurations and every length of the waits: what a       *)
(* restart finds is one whole configuration and changes only to the one    *)
(* wanted last, through every power cut; and an attached supply is one a   *)
(* restart finds.  First the two judgements the flash rests on, for every  *)
(* record and every range.                                                 *)
(***************************************************************************)
EXTENDS OutStore, OutStoreRecord, WellFoundedInduction, FiniteSetTheorems, TLAPS

-----------------------------------------------------------------------------
(* The judgements of OutStoreRecord.                                       *)

\* A record cut off in an erase or in a program is accepted only if not one
\* bit of it differs from the record as it was built, also where the bits of
\* its version make it read as a longer or shorter one (out_store_map.h, "a
\* stronger check than the record's checksum").
THEOREM CutRecordIsRejected ==
  ASSUME NEW magic \in SUBSET Bit, NEW size \in SUBSET Nat, IsFiniteSet(size),
         NEW written \in Records, Built(written, magic, size),
         NEW found \in Records, Within(found, written),
         NEW readSize \in SUBSET Nat, Accepted(found, magic, readSize)
  PROVE  found = written
<1>1. found.zeros = written.zeros /\ found.inverse = written.inverse
  <2>1. written.inverse = Bit \ written.zeros /\ found.inverse = Bit \ found.zeros
    BY DEF Built, Accepted, Intact
  <2>2. found.zeros \subseteq written.zeros /\ found.inverse \subseteq written.inverse
    BY DEF Within
  <2>3. written.zeros \subseteq Bit
    BY DEF Records
  <2> QED
    BY <2>1, <2>2, <2>3
<1>2. found.body = written.body
  <2>1. written.body \cap size = written.body
    BY DEF Built
  <2>2. IsFiniteSet(written.body)
    <3>1. written.body \in SUBSET size
      BY DEF Built
    <3> QED
      BY <3>1, FS_Subset
  <2>3. found.body \cap readSize \in SUBSET written.body
    BY DEF Within
  <2>4. Cardinality(written.body) = Cardinality(found.body \cap readSize)
    BY <1>1, <2>1 DEF Built, Accepted, Intact
  <2>5. written.body = found.body \cap readSize
    BY <2>2, <2>3, <2>4, FS_Subset
  <2> QED
    BY <2>5 DEF Within
<1>3. found.magic = written.magic
  BY DEF Built, Accepted
<1> QED
  BY <1>1, <1>2, <1>3 DEF Records

\* Neither an erase nor a program of a firmware update reaches the store, or
\* the boot slots: what it is allowed lies between the floor and the ceiling,
\* for every 32-bit offset and length, those that would wrap included
\* (out_store_flash_erase() and out_store_flash_program(), whose ceiling is
\* the store).
THEOREM UpdateKeepsOffTheStore ==
  ASSUME Width \in Nat \ {0}, Floor \in Nat, SectorBytes \in Nat,
         NEW off \in Word, NEW len \in Word, NEW ceiling \in Word
  PROVE  /\ EraseOk(off, ceiling) =>
              Floor <= off /\ off + SectorBytes <= ceiling
         /\ ProgramOk(off, len, ceiling) =>
              Floor <= off /\ off + len <= ceiling
<1>1. off <= ceiling => Minus(ceiling, off) = ceiling - off
  BY DEF Minus, Word
<1> QED
  BY <1>1 DEF EraseOk, ProgramOk, Inside, Word

-----------------------------------------------------------------------------
(* The inductive invariant.                                                *)

\* One record of this layout has the highest number of all, alone.
IsNewest(f, i) ==
  /\ i \in Valid(f, "new")
  /\ \A j \in Valid(f, "new") : j = i \/ f[j].seq < f[i].seq

OneIsNewest(f) == Valid(f, "new") # {} => \E i \in Place : IsNewest(f, i)

\* An older build left one record at most, and its sector is the one kept
\* while it is all there is.
OneIsOld(f) == \A i, j \in Valid(f, "old") : i = j

OldIsSpared(f, keep) ==
  Valid(f, "new") = {} => \A i \in Valid(f, "old") : keep = SectorOf(i)

Slots(f, keep) == /\ f \in [Place -> Cell]
                  /\ OneIsNewest(f)
                  /\ OneIsOld(f)
                  /\ OldIsSpared(f, keep)

\* The memory of what was saved is what a restart would find.
SavedIsKept == store.saved # Nothing => Loaded(flash) = store.saved

\* What is wanted is what is in force.
WantIsInForce ==
  store.pending => store.want = [pages |-> bench.pages, wiring |-> bench.wiring]

OffAsksNothing == store.mode = "off" => ~store.pending

StartsAlone == boot # None => store.mode = "alone"

\* Wiring that no save is owed for is in flash.
WiringIsKept ==
  bench.wiring # Off /\ ~bench.unsaved /\ store.mode # "off" =>
    Loaded(flash).wiring = bench.wiring

OpenIsWired == bench.open => bench.wiring # Off /\ ~bench.unsaved

Memory == /\ SavedIsKept /\ WantIsInForce /\ OffAsksNothing
          /\ StartsAlone /\ WiringIsKept /\ OpenIsWired

IInv == TypeOK /\ Slots(flash, store.keep) /\ Memory

USE DEF StoreType, BenchType

-----------------------------------------------------------------------------
(* Places and sectors.                                                     *)

\* A set of naturals that is not empty has a least element.
LEMMA LeastIsIn ==
  ASSUME NEW S, S \subseteq Nat, S # {}
  PROVE  Least(S) \in S
<1> DEFINE R == {ss \in Nat \X Nat : ss[1] < ss[2]}
<1>1. IsWellFoundedOn(R, Nat)
  BY NatLessThanWellFounded DEF OpToRel
<1>2. \E i \in S : \A j \in S : <<j, i>> \notin R
  <2> HIDE DEF R
  <2> QED BY <1>1, WFMin
<1>3. \E i \in S : \A j \in S : i <= j
  <2>1. PICK i \in S : \A j \in S : <<j, i>> \notin R
    BY <1>2
  <2>2. ASSUME NEW j \in S PROVE i <= j
    <3>1. i \in Nat /\ j \in Nat
      BY <2>1, <2>2
    <3>2. ~(j < i)
      BY <2>1, <3>1
    <3> QED BY <3>1, <3>2
  <2> QED BY <2>1, <2>2
<1> QED BY <1>3 DEF Least

LEMMA PlaceIsNat == Place \subseteq Nat
BY Geometry DEF Place

\* A place lies in a sector.
LEMMA SectorIsOne ==
  ASSUME NEW i \in Place
  PROVE  SectorOf(i) \in Sector
<1> DEFINE q == i \div PerSector
<1>1. i \in Nat /\ i < Sectors * PerSector /\ Sectors \in Nat /\ PerSector \in Nat /\ PerSector > 0
  BY Geometry DEF Place
<1>2. q \in Nat /\ PerSector * q <= i
  BY <1>1
<1>3. q < Sectors
  <2>1. SUFFICES ASSUME q >= Sectors PROVE FALSE
    BY <1>1, <1>2
  <2>2. PerSector * q >= PerSector * Sectors
    <3> HIDE DEF q
    <3> QED BY <1>1, <1>2, <2>1
  <2> HIDE DEF q
  <2> QED BY <1>1, <1>2, <2>2
<1> QED BY <1>1, <1>2, <1>3 DEF SectorOf, Sector

\* The sector after one is another.
LEMMA NextSectorDiffers ==
  ASSUME NEW s \in Sector
  PROVE  (s + 1) % Sectors # s
<1>1. s \in Nat /\ s < Sectors /\ Sectors \in Nat /\ Sectors > 1
  BY Geometry DEF Sector
<1>2. CASE s + 1 < Sectors
  <2>1. (s + 1) % Sectors = s + 1
    BY <1>1, <1>2
  <2> QED BY <2>1, <1>1
<1>3. CASE s + 1 = Sectors
  <2>1. (s + 1) % Sectors = 0
    BY <1>1, <1>3
  <2> QED BY <2>1, <1>1, <1>3
<1> QED BY <1>1, <1>2, <1>3

-----------------------------------------------------------------------------
(* The live record.                                                        *)

LEMMA CellFacts ==
  ASSUME NEW f \in [Place -> Cell], NEW i \in Place
  PROVE  /\ f[i] \in Cell
         /\ f[i].seq \in Nat
         /\ f[i].kind \in {"new", "old"} => f[i].cfg \in Cfg
BY DEF Cell, Erased, Torn

\* Newest() finds the record with the highest number.
LEMMA NewestIs ==
  ASSUME NEW f \in [Place -> Cell], NEW i \in Place, IsNewest(f, i)
  PROVE  Newest(f, "new") = i
<1> DEFINE First(k) == \A j \in Valid(f, "new") :
                          \/ f[j].seq < f[k].seq
                          \/ f[j].seq = f[k].seq /\ k <= j
<1>1. \A j \in Valid(f, "new") : j \in Place /\ j \in Int /\ f[j].seq \in Nat
  BY CellFacts, PlaceIsNat DEF Valid
<1>2. i \in Valid(f, "new") /\ First(i)
  BY <1>1 DEF IsNewest
<1>3. ASSUME NEW k \in Valid(f, "new"), First(k) PROVE k = i
  <2>1. k = i \/ f[k].seq < f[i].seq
    BY DEF IsNewest
  <2>2. f[i].seq < f[k].seq \/ f[i].seq = f[k].seq
    BY <1>3, <1>2
  <2> QED BY <2>1, <2>2, <1>1, <1>2
<1>4. Newest(f, "new") = CHOOSE k \in Valid(f, "new") : First(k)
  BY DEF Newest
<1> HIDE DEF First
<1> QED BY <1>2, <1>3, <1>4

\* With one old record, Newest() finds it.
LEMMA OldestIs ==
  ASSUME NEW f \in [Place -> Cell], NEW i \in Valid(f, "old"), OneIsOld(f)
  PROVE  Newest(f, "old") = i
<1>1. i \in Place /\ i \in Int /\ f[i].seq \in Nat
  BY CellFacts, PlaceIsNat DEF Valid
<1>2. \A j \in Valid(f, "old") : j = i
  BY DEF OneIsOld
<1> DEFINE First(k) == \A j \in Valid(f, "old") :
                          \/ f[j].seq < f[k].seq
                          \/ f[j].seq = f[k].seq /\ k <= j
<1>3. First(i)
  BY <1>1, <1>2
<1>4. Newest(f, "old") = CHOOSE k \in Valid(f, "old") : First(k)
  BY DEF Newest
<1> HIDE DEF First
<1> QED BY <1>2, <1>3, <1>4

LEMMA LoadedIsCfg ==
  ASSUME NEW f, NEW keep, Slots(f, keep)
  PROVE  /\ Loaded(f) \in Cfg \cup {Nothing}
         /\ Valid(f, "new") # {} => Loaded(f) \in Cfg
<1> USE DEF Slots
<1>1. CASE Valid(f, "new") # {}
  <2>1. PICK i \in Place : IsNewest(f, i)
    BY <1>1 DEF OneIsNewest
  <2>2. f[i].kind = "new" /\ Newest(f, "new") = i
    BY <2>1, NewestIs DEF IsNewest, Valid
  <2> QED BY <1>1, <2>2, CellFacts DEF Loaded
<1>2. CASE Valid(f, "new") = {} /\ Valid(f, "old") # {}
  <2>1. PICK i \in Place : i \in Valid(f, "old")
    BY <1>2 DEF Valid
  <2>2. f[i].kind = "old" /\ Newest(f, "old") = i
    BY <2>1, OldestIs DEF Valid
  <2> QED BY <1>2, <2>2, CellFacts DEF Loaded
<1>3. CASE Valid(f, "new") = {} /\ Valid(f, "old") = {}
  BY <1>3, NothingIsNone DEF Loaded
<1> QED BY <1>1, <1>2, <1>3

-----------------------------------------------------------------------------
(* What the flash windows leave.                                           *)

\* g is f with slots lost outside the live sector, or lost that held nothing.
Spares(f, g, keep) ==
  /\ g \in [Place -> Cell]
  /\ \A i \in Place :
       \/ g[i] = f[i]
       \/ g[i] \in {Erased, Torn} /\ (SectorOf(i) # Live(f, keep) \/ f[i] = Erased)

\* What is lost there changes nothing of what a start finds.
LEMMA SparedIsLoaded ==
  ASSUME NEW f, NEW g, NEW keep, Slots(f, keep), Spares(f, g, keep)
  PROVE  /\ Slots(g, keep)
         /\ Loaded(g) = Loaded(f)
         /\ Valid(g, "new") = {} <=> Valid(f, "new") = {}
<1> USE DEF Slots
<1>1. f \in [Place -> Cell] /\ g \in [Place -> Cell]
  BY DEF Spares
<1>2. /\ Valid(g, "new") \subseteq Valid(f, "new")
      /\ Valid(g, "old") \subseteq Valid(f, "old")
      /\ \A i \in Valid(g, "new") \cup Valid(g, "old") : g[i] = f[i]
  BY DEF Spares, Valid, Erased, Torn
<1>3. OneIsOld(g)
  BY <1>2 DEF OneIsOld
<1>4. CASE Valid(f, "new") # {}
  <2>1. PICK i \in Place : IsNewest(f, i)
    BY <1>4 DEF OneIsNewest
  <2>2. Newest(f, "new") = i
    BY <2>1, <1>1, NewestIs
  <2>3. i \in Valid(f, "new")
    BY <2>1 DEF IsNewest
  <2>4. g[i] = f[i]
    BY <2>2, <2>3, <1>4 DEF Spares, Live, Valid, Erased
  <2>5. i \in Valid(g, "new")
    BY <2>3, <2>4 DEF Valid
  <2>6. IsNewest(g, i)
    <3>1. ASSUME NEW j \in Valid(g, "new") PROVE j = i \/ g[j].seq < g[i].seq
      BY <2>1, <2>4, <1>2 DEF IsNewest
    <3> QED BY <2>5, <3>1 DEF IsNewest
  <2>7. Newest(g, "new") = i
    BY <2>6, <1>1, NewestIs
  <2>8. Loaded(g) = Loaded(f)
    BY <1>4, <2>2, <2>4, <2>5, <2>7 DEF Loaded
  <2> QED BY <1>1, <1>3, <1>4, <2>5, <2>6, <2>8 DEF OneIsNewest, OldIsSpared
<1>5. CASE Valid(f, "new") = {} /\ Valid(f, "old") # {}
  <2>1. PICK i \in Place : i \in Valid(f, "old")
    BY <1>5 DEF Valid
  <2>2. g[i] = f[i]
    BY <2>1, <1>5 DEF Spares, Live, Valid, Erased, OldIsSpared
  <2>3. i \in Valid(g, "old") /\ Valid(g, "new") = {}
    BY <2>1, <2>2, <1>2, <1>5 DEF Valid
  <2>4. Newest(f, "old") = i /\ Newest(g, "old") = i
    BY <2>1, <2>3, <1>1, <1>3, OldestIs
  <2>5. Loaded(g) = Loaded(f)
    BY <1>5, <2>2, <2>3, <2>4 DEF Loaded
  <2> QED BY <1>1, <1>2, <1>3, <1>5, <2>3, <2>5 DEF OneIsNewest, OldIsSpared
<1>6. CASE Valid(f, "new") = {} /\ Valid(f, "old") = {}
  <2>1. Valid(g, "new") = {} /\ Valid(g, "old") = {}
    BY <1>2, <1>6
  <2> QED BY <1>1, <1>3, <1>6, <2>1 DEF OneIsNewest, OldIsSpared, Loaded
<1> QED BY <1>4, <1>5, <1>6

\* An erase of another sector than the live one, whole or cut off, is such a
\* loss.
LEMMA EraseSpares ==
  ASSUME NEW f \in [Place -> Cell], NEW keep, NEW s, s # Live(f, keep)
  PROVE  /\ Spares(f, Wiped(f, In(s)), keep)
         /\ \A wiped, torn \in SUBSET In(s) :
              Spares(f, HalfWiped(f, wiped, torn), keep)
<1> USE DEF In
<1>1. Erased \in Cell /\ Torn \in Cell
  BY DEF Cell
<1>2. Spares(f, Wiped(f, In(s)), keep)
  <2>1. Wiped(f, In(s)) \in [Place -> Cell]
    BY <1>1 DEF Wiped
  <2>2. ASSUME NEW i \in Place
        PROVE  \/ Wiped(f, In(s))[i] = f[i]
               \/ Wiped(f, In(s))[i] = Erased /\ SectorOf(i) = s
    BY DEF Wiped
  <2> QED BY <2>1, <2>2 DEF Spares
<1>3. ASSUME NEW wiped \in SUBSET In(s), NEW torn \in SUBSET In(s)
      PROVE  Spares(f, HalfWiped(f, wiped, torn), keep)
  <2> DEFINE g == HalfWiped(f, wiped, torn)
  <2>1. g \in [Place -> Cell]
    BY <1>1 DEF HalfWiped
  <2>2. ASSUME NEW i \in Place
        PROVE  \/ g[i] = f[i]
               \/ g[i] \in {Erased, Torn} /\ SectorOf(i) = s
    BY DEF HalfWiped
  <2> HIDE DEF g
  <2>3. Spares(f, g, keep)
    BY <2>1, <2>2 DEF Spares
  <2> QED BY <2>3 DEF g
<1> QED BY <1>2, <1>3

\* What is erased first, to make room or to reclaim, is not the live sector.
LEMMA ErasedIsNotLive ==
  ASSUME NEW f, NEW keep, Slots(f, keep)
  PROVE  /\ EraseFirst(f, keep) # Live(f, keep)
         /\ Stale(f, keep) # {} => Least(Stale(f, keep)) # Live(f, keep)
<1>1. EraseFirst(f, keep) # Live(f, keep)
  <2>1. CASE Valid(f, "new") = {}
    BY <2>1 DEF EraseFirst, Live
  <2>2. CASE Valid(f, "new") # {}
    <3>1. PICK i \in Place : IsNewest(f, i)
      BY <2>2 DEF OneIsNewest, Slots
    <3>2. Newest(f, "new") = i
      BY <3>1, NewestIs DEF Slots
    <3> QED BY <2>2, <3>2, SectorIsOne, NextSectorDiffers DEF EraseFirst, Live
  <2> QED BY <2>1, <2>2
<1>2. ASSUME Stale(f, keep) # {} PROVE Least(Stale(f, keep)) # Live(f, keep)
  <2>1. Stale(f, keep) \subseteq Nat
    BY Geometry DEF Stale, Sector
  <2>2. Least(Stale(f, keep)) \in Stale(f, keep)
    BY <2>1, <1>2, LeastIsIn
  <2> QED BY <2>2 DEF Stale
<1> QED BY <1>1, <1>2

\* The next record goes where nothing is.
LEMMA SlotIsErased ==
  ASSUME NEW f, NEW keep, Slots(f, keep), Free(f) # {}
  PROVE  Slot(f) \in Place /\ f[Slot(f)] = Erased
<1>1. \A i \in Free(f) : i \in Place /\ f[i] = Erased
  BY DEF Free, In, Blank
<1> DEFINE behind == IF Valid(f, "new") = {} THEN Free(f)
                     ELSE {i \in Free(f) : i > Newest(f, "new")}
           from == IF behind # {} THEN behind ELSE Free(f)
<1>2. from # {} /\ from \subseteq Free(f)
  OBVIOUS
<1>3. from \subseteq Nat
  BY <1>1, <1>2, PlaceIsNat
<1>4. Slot(f) = Least(from)
  BY DEF Slot
<1>5. Least(from) \in from
  <2> HIDE DEF from
  <2> QED BY <1>2, <1>3, LeastIsIn
<1> HIDE DEF from, behind
<1> QED BY <1>1, <1>2, <1>4, <1>5

\* A record programmed there is the one a start finds.
LEMMA WrittenIsLoaded ==
  ASSUME NEW f, NEW keep, Slots(f, keep), NEW i \in Place, f[i] = Erased,
         NEW c \in Cfg, NEW k
  PROVE  LET g == Written(f, i, Record(NextSeq(f), c))
         IN  /\ Slots(g, k)
             /\ Loaded(g) = c
             /\ Valid(g, "new") # {}
<1> DEFINE r == Record(NextSeq(f), c)
           g == Written(f, i, r)
<1>1. f \in [Place -> Cell]
  BY DEF Slots
<1>2. /\ NextSeq(f) \in Nat
      /\ \A j \in Valid(f, "new") : f[j].seq < NextSeq(f)
  <2>1. CASE Valid(f, "new") = {}
    BY <2>1 DEF NextSeq
  <2>2. CASE Valid(f, "new") # {}
    <3>1. PICK n \in Place : IsNewest(f, n)
      BY <2>2 DEF OneIsNewest, Slots
    <3>2. NextSeq(f) = f[n].seq + 1
      BY <2>2, <3>1, <1>1, NewestIs DEF NextSeq
    <3>3. f[n].seq \in Nat /\ \A j \in Valid(f, "new") : f[j].seq \in Nat
      BY <1>1, CellFacts DEF Valid
    <3>4. \A j \in Valid(f, "new") : j = n \/ f[j].seq < f[n].seq
      BY <3>1 DEF IsNewest
    <3> QED BY <3>2, <3>3, <3>4
  <2> QED BY <2>1, <2>2
<1>3. r \in Cell /\ r.kind = "new" /\ r.seq = NextSeq(f) /\ r.cfg = c
  BY <1>2 DEF Record, Cell
<1> HIDE DEF r
<1>4. /\ g \in [Place -> Cell]
      /\ g[i] = r
      /\ \A j \in Place : j # i => g[j] = f[j]
  BY <1>1, <1>3 DEF Written
<1> HIDE DEF g
<1>5. /\ Valid(g, "new") = Valid(f, "new") \cup {i}
      /\ Valid(g, "old") = Valid(f, "old")
      /\ i \notin Valid(f, "new")
  BY <1>3, <1>4 DEF Valid, Erased
<1>6. IsNewest(g, i)
  <2>1. ASSUME NEW j \in Valid(g, "new") PROVE j = i \/ g[j].seq < g[i].seq
    BY <1>2, <1>3, <1>4, <1>5 DEF Valid
  <2> QED BY <1>5, <2>1 DEF IsNewest
<1>7. Newest(g, "new") = i
  BY <1>4, <1>6, NewestIs
<1>8. Loaded(g) = c
  BY <1>3, <1>4, <1>5, <1>7 DEF Loaded
<1>9. Slots(g, k)
  BY <1>4, <1>5, <1>6 DEF Slots, OneIsNewest, OneIsOld, OldIsSpared
<1> QED BY <1>5, <1>8, <1>9 DEF g, r

-----------------------------------------------------------------------------
(* A start, and a window cut off, keep the invariant and what is kept.     *)

\* Nothing is wanted any more, and what a start finds is as it was.
Forgets(f) == Loaded(flash') = Loaded(f) /\ ~store'.pending

\* The pages in force after a load have their types.
LEMMA RestoredIsTyped ==
  ASSUME NEW c \in Cfg \cup {Nothing}, NEW takes \in BOOLEAN
  PROVE  Restored(c, takes) \in BenchType
<1>1. c # Nothing => c.pages \in Pages /\ c.wiring \in Wirings
  BY DEF Cfg
<1>2. (IF c = Nothing THEN Default ELSE c.pages) \in Pages
  BY <1>1, Values
<1>3. (IF c # Nothing /\ takes THEN c.wiring ELSE Off) \in Wirings
  BY <1>1, Values
<1>4. (c # Nothing /\ takes /\ c.wiring # Off) \in BOOLEAN
  OBVIOUS
<1> QED BY <1>2, <1>3, <1>4 DEF Restored

LEMMA StartIsSafe ==
  ASSUME NEW g, NEW keep, Slots(g, keep), Start(g)
  PROVE  IInv' /\ Forgets(g)
<1>1. flash' = g /\ store' = Fresh(g) /\ driving' = FALSE /\ boot' = Sectors
  BY DEF Start
<1>2. PICK takes \in BOOLEAN : bench' = Restored(Loaded(g), takes)
  BY DEF Start
<1>3. /\ Loaded(g) \in Cfg \cup {Nothing}
      /\ Valid(g, "new") # {} => Loaded(g) \in Cfg
  BY LoadedIsCfg
<1>4. g \in [Place -> Cell] /\ OneIsNewest(g) /\ OneIsOld(g)
  BY DEF Slots
<1>5. \A i \in Valid(g, "old") : Newest(g, "old") = i /\ SectorOf(i) \in Sector
  BY <1>4, OldestIs, SectorIsOne DEF Valid
<1>6. /\ Fresh(g).mode = "alone" /\ Fresh(g).pending = FALSE
      /\ Fresh(g).saved = IF Valid(g, "new") # {} THEN Loaded(g) ELSE Nothing
      /\ Fresh(g).keep = IF Valid(g, "new") = {} /\ Valid(g, "old") # {}
                         THEN SectorOf(Newest(g, "old")) ELSE None
  BY DEF Fresh
<1>7. Slots(g, Fresh(g).keep)
  BY <1>4, <1>5, <1>6 DEF Slots, OldIsSpared
<1>8. Fresh(g).keep \in Sector \cup {None}
  BY <1>5, <1>6
<1>9. TypeOK'
  <2>1. store' \in StoreType
    BY <1>1, <1>3, <1>8, Times DEF Fresh
  <2>2. bench' \in BenchType
    BY <1>2, <1>3, RestoredIsTyped
  <2>3. boot' \in {None} \cup 0 .. Sectors /\ driving' \in BOOLEAN
    <3>1. Sectors \in 0 .. Sectors
      BY Geometry
    <3> QED BY <1>1, <3>1
  <2>4. flash' \in [Place -> Cell]
    BY <1>1, <1>4
  <2> QED BY <2>1, <2>2, <2>3, <2>4 DEF TypeOK
<1>10. Memory'
  <2>1. SavedIsKept'
    BY <1>1, <1>6 DEF SavedIsKept
  <2>2. WantIsInForce' /\ OffAsksNothing' /\ StartsAlone'
    BY <1>1, <1>6 DEF WantIsInForce, OffAsksNothing, StartsAlone
  <2>3. WiringIsKept' /\ OpenIsWired'
    BY <1>1, <1>2 DEF WiringIsKept, OpenIsWired, Restored
  <2> QED BY <2>1, <2>2, <2>3 DEF Memory
<1> QED BY <1>1, <1>6, <1>7, <1>9, <1>10 DEF IInv, Forgets

LEMMA EraseCutIsSafe ==
  ASSUME IInv, NEW s, s # Live(flash, store.keep), EraseCut(s)
  PROVE  IInv' /\ Forgets(flash)
<1>1. PICK wiped \in SUBSET In(s), torn \in SUBSET In(s) :
        Start(HalfWiped(flash, wiped, torn))
  BY DEF EraseCut
<1> DEFINE g == HalfWiped(flash, wiped, torn)
<1>2. Spares(flash, g, store.keep)
  BY EraseSpares DEF IInv, Slots
<1>3. Slots(g, store.keep) /\ Loaded(g) = Loaded(flash)
  <2> HIDE DEF g
  <2> QED BY <1>2, SparedIsLoaded DEF IInv
<1>4. IInv' /\ Forgets(g)
  <2>1. Start(g)
    BY <1>1
  <2> HIDE DEF g
  <2> QED BY <2>1, <1>3, StartIsSafe
<1> QED BY <1>3, <1>4 DEF Forgets

\* A whole erase leaves what is kept and the memory of it.
LEMMA EraseIsSafe ==
  ASSUME IInv, NEW s, s # Live(flash, store.keep),
         flash' = Wiped(flash, In(s)),
         UNCHANGED <<store, bench, driving>>,
         boot' \in {None} \cup 0 .. Sectors,
         boot' # None => boot # None
  PROVE  IInv' /\ Loaded(flash') = Loaded(flash)
<1>1. Spares(flash, flash', store.keep)
  BY EraseSpares DEF IInv, Slots
<1>2. Slots(flash', store.keep) /\ Loaded(flash') = Loaded(flash)
  BY <1>1, SparedIsLoaded DEF IInv
<1>3. TypeOK'
  BY <1>2 DEF IInv, TypeOK, Slots
<1>4. Memory'
  BY <1>2 DEF IInv, Memory, SavedIsKept, WantIsInForce, OffAsksNothing,
     StartsAlone, WiringIsKept, OpenIsWired
<1> QED BY <1>2, <1>3, <1>4 DEF IInv

\* So does a window that core 1 did not stop for.
LEMMA RefusedIsSafe ==
  ASSUME IInv, Refused
  PROVE  IInv' /\ UNCHANGED <<Loaded(flash), store.pending, store.want>>
<1> USE DEF IInv, Refused
<1>1. TypeOK' /\ store'.keep = store.keep
  BY DEF TypeOK
<1>2. Memory'
  BY DEF TypeOK, Memory, SavedIsKept, WantIsInForce, OffAsksNothing,
     StartsAlone, WiringIsKept, OpenIsWired
<1>3. UNCHANGED <<store.pending, store.want>>
  BY DEF TypeOK
<1> QED BY <1>1, <1>2, <1>3

\* A program cut off leaves nothing, what is no record, or the record whole.
LEMMA ProgramCutIsSafe ==
  ASSUME IInv, NEW i \in Place, flash[i] = Erased, NEW c \in Cfg,
         ProgramCut(i, Record(NextSeq(flash), c))
  PROVE  /\ IInv'
         /\ ~store'.pending
         /\ Loaded(flash') = Loaded(flash) \/ Loaded(flash') = c
<1> DEFINE r == Record(NextSeq(flash), c)
<1>1. PICK left \in {Erased, Torn, r} : Start(Written(flash, i, left))
  BY DEF ProgramCut
<1> DEFINE g == Written(flash, i, left)
<1>2. flash \in [Place -> Cell]
  BY DEF IInv, Slots
<1>3. CASE left = r
  <2>1. Slots(g, store.keep) /\ Loaded(g) = c
    BY <1>3, WrittenIsLoaded DEF IInv
  <2>2. Start(g)
    BY <1>1
  <2> HIDE DEF g
  <2>3. IInv' /\ Forgets(g)
    BY <2>1, <2>2, StartIsSafe
  <2> QED BY <2>1, <2>3 DEF Forgets
<1>4. CASE left \in {Erased, Torn}
  <2>1. left \in Cell
    BY <1>4 DEF Cell
  <2>2. g \in [Place -> Cell] /\ g[i] = left /\ \A j \in Place : j # i => g[j] = flash[j]
    BY <1>2, <2>1 DEF Written
  <2>3. Start(g)
    BY <1>1
  <2> HIDE DEF g
  <2>4. Spares(flash, g, store.keep)
    BY <2>2, <1>4 DEF Spares
  <2>5. Slots(g, store.keep) /\ Loaded(g) = Loaded(flash)
    BY <2>4, SparedIsLoaded DEF IInv
  <2>6. IInv' /\ Forgets(g)
    BY <2>3, <2>5, StartIsSafe
  <2> QED BY <2>5, <2>6 DEF Forgets
<1> QED BY <1>1, <1>3, <1>4

-----------------------------------------------------------------------------
(* Every step keeps the invariant, and is a step of KeptOutputs or none.   *)

KeptStep == [Kept!Next]_(Kept!vars)

LEMMA ForgettingIsKept ==
  ASSUME Forgets(flash)
  PROVE  KeptStep
BY DEF Forgets, KeptStep, Kept!Next, Kept!Forget

LEMMA SameIsKept ==
  ASSUME Loaded(flash') = Loaded(flash), UNCHANGED <<store.pending, store.want>>
  PROVE  KeptStep
BY DEF KeptStep, Kept!vars

\* A save that is wanted and in flash is what KeptOutputs keeps.
LEMMA KeepingIsKept ==
  ASSUME IInv, store.pending, ~store'.pending, Loaded(flash') = store.want
  PROVE  KeptStep
<1>1. store.want # Nothing
  BY NothingIsNone DEF IInv, TypeOK, Memory, WantIsInForce, Cfg
<1> QED BY <1>1 DEF KeptStep, Kept!Next, Kept!Keep

\* What an ask leaves in out_store.c's memory.
LEMMA AskIsSound ==
  ASSUME IInv, NEW c \in Cfg, NEW st, st = Asked(store, c)
  PROVE  /\ st \in StoreType
         /\ st.mode = store.mode /\ st.keep = store.keep /\ st.saved = store.saved
         /\ st.pending => st.mode # "off" /\ st.want = c
         /\ ~st.pending /\ st.mode # "off" => Loaded(flash) = c
         /\ st.mode = "off" => ~store.pending
<1> USE DEF IInv, TypeOK, Memory
<1>1. CASE store.mode = "off"
  BY <1>1 DEF Asked, OffAsksNothing
<1>2. CASE store.mode # "off" /\ store.saved = c
  <2>1. Loaded(flash) = c
    BY <1>2, NothingIsNone DEF SavedIsKept
  <2>2. st = [store EXCEPT !.pending = FALSE]
    BY <1>2 DEF Asked
  <2> QED BY <1>2, <2>1, <2>2
<1>3. CASE store.mode # "off" /\ store.saved # c
  <2>1. st = [store EXCEPT !.pending = TRUE, !.want = c, !.age = 0]
    BY <1>3 DEF Asked
  <2>2. 0 \in 0 .. Settle + GapWait
    BY Times
  <2> QED BY <1>3, <2>1, <2>2
<1> QED BY <1>1, <1>2, <1>3

LEMMA AskIsKept ==
  ASSUME IInv, NEW c \in Cfg, store' = Asked(store, c), UNCHANGED flash
  PROVE  KeptStep
<1>1. /\ store'.pending => store'.want = c
      /\ ~store'.pending /\ store'.mode # "off" => Loaded(flash) = c
      /\ store'.mode = "off" => ~store.pending /\ ~store'.pending
  BY AskIsSound
<1>2. CASE store'.pending
  BY <1>1, <1>2 DEF KeptStep, Kept!Next, Kept!Ask
<1>3. CASE ~store'.pending
  <2>1. Forgets(flash)
    BY <1>3 DEF Forgets
  <2> QED BY <2>1, ForgettingIsKept
<1> QED BY <1>2, <1>3

LEMMA RestartStep == ASSUME IInv, Restart PROVE IInv' /\ KeptStep
<1>1. IInv' /\ Forgets(flash)
  BY StartIsSafe DEF IInv, Restart
<1> QED BY <1>1, ForgettingIsKept

LEMMA BootReclaimsStep == ASSUME IInv, BootReclaims PROVE IInv' /\ KeptStep
<1> DEFINE s == Least(Stale(flash, store.keep))
<1>1. s # Live(flash, store.keep)
  BY ErasedIsNotLive DEF IInv, BootReclaims
<1>2. CASE EraseCut(s)
  BY <1>1, <1>2, EraseCutIsSafe, ForgettingIsKept
<1>3. CASE flash' = Wiped(flash, In(s)) /\ boot' = boot - 1 /\ UNCHANGED <<store, bench, driving>>
  <2>1. boot' \in {None} \cup 0 .. Sectors
    BY <1>3, Geometry DEF IInv, TypeOK, BootReclaims, None
  <2>2. boot # None
    BY DEF BootReclaims, None
  <2>3. IInv' /\ Loaded(flash') = Loaded(flash)
    <3> HIDE DEF s
    <3> QED BY <1>1, <1>3, <2>1, <2>2, EraseIsSafe
  <2> QED BY <1>3, <2>3, SameIsKept
<1> QED BY <1>2, <1>3 DEF BootReclaims

LEMMA LaunchStep == ASSUME IInv, Launch PROVE IInv' /\ KeptStep
<1>1. PICK mode \in {"parkable", "off"} :
        store' = [Moded(store, mode) EXCEPT !.reclaim = (boot = 0)]
  BY DEF Launch
<1>2. boot' = None /\ UNCHANGED <<flash, bench, driving>>
  BY DEF Launch
<1>3. /\ store'.mode = mode
      /\ store'.pending = (store.pending /\ mode = "parkable")
      /\ store'.want = store.want /\ store'.age = store.age
      /\ store'.saved = store.saved /\ store'.keep = store.keep
  BY <1>1 DEF Moded, IInv, TypeOK
<1>4. TypeOK'
  <2>1. store' \in StoreType
    <3>1. (store.pending /\ mode = "parkable") \in BOOLEAN /\ (boot = 0) \in BOOLEAN
      OBVIOUS
    <3> QED BY <1>1, <3>1 DEF Moded, IInv, TypeOK
  <2> QED BY <1>2, <2>1 DEF IInv, TypeOK
<1>5. Memory'
  BY <1>2, <1>3 DEF IInv, TypeOK, Memory, SavedIsKept, WantIsInForce,
     OffAsksNothing, StartsAlone, WiringIsKept, OpenIsWired, Launch
<1>6. KeptStep
  <2>1. CASE mode = "parkable"
    <3>1. store'.pending = store.pending
      BY <1>3, <2>1 DEF IInv, TypeOK
    <3> QED BY <1>2, <1>3, <3>1, SameIsKept
  <2>2. CASE mode = "off"
    <3>1. Forgets(flash)
      BY <1>2, <1>3, <2>2 DEF Forgets
    <3> QED BY <3>1, ForgettingIsKept
  <2> QED BY <2>1, <2>2
<1> QED BY <1>2, <1>3, <1>4, <1>5, <1>6 DEF IInv

LEMMA ConfigureStep ==
  ASSUME IInv, NEW p \in Pages, Configure(p) PROVE IInv' /\ KeptStep
<1> DEFINE c == [pages |-> p, wiring |-> bench.wiring]
<1>1. c \in Cfg
  BY DEF IInv, TypeOK, Cfg
<1>2. /\ bench' = [bench EXCEPT !.pages = p] /\ store' = Asked(store, c)
      /\ UNCHANGED <<flash, driving, boot>>
  BY DEF Configure
<1> HIDE DEF c
<1>3. /\ store' \in StoreType
      /\ store'.mode = store.mode /\ store'.keep = store.keep
      /\ store'.saved = store.saved
      /\ store'.pending => store'.mode # "off" /\ store'.want = c
  BY <1>1, <1>2, AskIsSound
<1>4. TypeOK'
  BY <1>2, <1>3 DEF IInv, TypeOK
<1>5. bench'.pages = p /\ UNCHANGED <<bench.wiring, bench.unsaved, bench.open>>
  BY <1>2 DEF IInv, TypeOK
<1>6. Memory'
  BY <1>2, <1>3, <1>5 DEF IInv, Memory, SavedIsKept, WantIsInForce,
     OffAsksNothing, StartsAlone, WiringIsKept, OpenIsWired, c
<1>7. KeptStep
  BY <1>1, <1>2, AskIsKept
<1> QED BY <1>2, <1>3, <1>4, <1>6, <1>7 DEF IInv

LEMMA SupplyTakeStep ==
  ASSUME IInv, NEW w \in Wirings, SupplyTake(w) PROVE IInv' /\ KeptStep
<1>1. UNCHANGED <<flash, driving, boot>>
  BY DEF SupplyTake
<1>2. CASE WiringTaken(w)
  <2> DEFINE c == [pages |-> bench.pages, wiring |-> w]
  <2>1. c \in Cfg
    BY DEF IInv, TypeOK, Cfg
  <2>2. store' = Asked(store, c)
    BY <1>2 DEF WiringTaken
  <2>3. PICK opens \in BOOLEAN :
          bench' = [bench EXCEPT !.wiring = w, !.unsaved = store'.pending,
                      !.attach = store'.pending /\ w # Off,
                      !.open = ~(store'.pending /\ w # Off) /\ w # Off /\ opens]
    BY <1>2, <2>2 DEF WiringTaken
  <2> HIDE DEF c
  <2>4. /\ store' \in StoreType
        /\ store'.mode = store.mode /\ store'.keep = store.keep
        /\ store'.saved = store.saved
        /\ store'.pending => store'.mode # "off" /\ store'.want = c
        /\ ~store'.pending /\ store'.mode # "off" => Loaded(flash) = c
    BY <2>1, <2>2, AskIsSound
  <2>5. /\ bench'.wiring = w /\ bench'.unsaved = store'.pending
        /\ bench'.open = (~(store'.pending /\ w # Off) /\ w # Off /\ opens)
        /\ bench'.pages = bench.pages
    BY <2>3 DEF IInv, TypeOK
  <2>6. bench' \in BenchType
    <3>1. /\ store'.pending \in BOOLEAN
          /\ (store'.pending /\ w # Off) \in BOOLEAN
          /\ (~(store'.pending /\ w # Off) /\ w # Off /\ opens) \in BOOLEAN
      BY <2>4
    <3> QED BY <2>3, <3>1 DEF IInv, TypeOK
  <2>7. TypeOK'
    BY <1>1, <2>4, <2>6 DEF IInv, TypeOK
  <2>8. Memory'
    <3>1. SavedIsKept' /\ OffAsksNothing' /\ StartsAlone'
      BY <1>1, <2>4 DEF IInv, Memory, SavedIsKept, OffAsksNothing, StartsAlone
    <3>2. WantIsInForce'
      BY <2>4, <2>5 DEF WantIsInForce, c
    <3>3. WiringIsKept' /\ OpenIsWired'
      <4>1. ~store'.pending /\ store'.mode # "off" => Loaded(flash').wiring = w
        BY <1>1, <2>4 DEF c
      <4>2. bench'.open => w # Off /\ ~store'.pending
        BY <2>5
      <4> QED BY <2>5, <4>1, <4>2 DEF WiringIsKept, OpenIsWired
    <3> QED BY <3>1, <3>2, <3>3 DEF Memory
  <2>9. KeptStep
    BY <1>1, <2>1, <2>2, AskIsKept
  <2> QED BY <1>1, <2>4, <2>7, <2>8, <2>9 DEF IInv
<1>3. CASE WiringRefused
  <2>1. PICK opens \in BOOLEAN :
          bench' = [bench EXCEPT !.attach = bench.unsaved /\ bench.wiring # Off,
                      !.open = ~bench.unsaved /\ bench.wiring # Off /\ opens]
    BY <1>3 DEF WiringRefused
  <2>2. UNCHANGED store
    BY <1>3 DEF WiringRefused
  <2>3. /\ UNCHANGED <<bench.wiring, bench.unsaved, bench.pages>>
        /\ bench'.open = (~bench.unsaved /\ bench.wiring # Off /\ opens)
    BY <2>1 DEF IInv, TypeOK
  <2>4. bench' \in BenchType
    <3>1. /\ (bench.unsaved /\ bench.wiring # Off) \in BOOLEAN
          /\ (~bench.unsaved /\ bench.wiring # Off /\ opens) \in BOOLEAN
      BY DEF IInv, TypeOK
    <3> QED BY <2>1, <3>1 DEF IInv, TypeOK
  <2>5. TypeOK'
    BY <1>1, <2>2, <2>4 DEF IInv, TypeOK
  <2>6. Memory'
    BY <1>1, <2>2, <2>3 DEF IInv, Memory, SavedIsKept, WantIsInForce,
       OffAsksNothing, StartsAlone, WiringIsKept, OpenIsWired
  <2> QED BY <1>1, <2>2, <2>5, <2>6, SameIsKept DEF IInv
<1> QED BY <1>2, <1>3 DEF SupplyTake

LEMMA DrivesStep == ASSUME IInv, Drives PROVE IInv' /\ KeptStep
<1>1. IInv'
  BY DEF Drives, IInv, TypeOK, Memory, SavedIsKept, WantIsInForce,
     OffAsksNothing, StartsAlone, WiringIsKept, OpenIsWired
<1> QED BY <1>1, SameIsKept DEF Drives

\* The steps that touch only the clocks and flags of out_store.c's memory.
Rests == /\ store' = [store EXCEPT !.reclaim = FALSE]
         /\ UNCHANGED <<flash, bench, driving, boot>>

LEMMA QuietStep ==
  ASSUME IInv, Lapses \/ Tick \/ Rests
  PROVE  IInv' /\ KeptStep
<1>1. /\ UNCHANGED <<flash, bench, driving, boot>>
      /\ UNCHANGED <<store.mode, store.pending, store.want, store.saved, store.keep>>
  BY DEF Lapses, Tick, Rests, IInv, TypeOK
<1>2. TypeOK'
  <2>1. CASE Lapses
    BY <1>1, <2>1 DEF IInv, TypeOK, Lapses
  <2>2. CASE Tick
    BY <1>1, <2>2, Times DEF IInv, TypeOK, Tick
  <2>3. CASE Rests
    BY <1>1, <2>3 DEF IInv, TypeOK, Rests
  <2> QED BY <2>1, <2>2, <2>3
<1>3. Memory'
  BY <1>1 DEF IInv, Memory, SavedIsKept, WantIsInForce, OffAsksNothing,
     StartsAlone, WiringIsKept, OpenIsWired
<1> QED BY <1>1, <1>2, <1>3, SameIsKept DEF IInv

LEMMA RefusedStep == ASSUME IInv, Refused PROVE IInv' /\ KeptStep
BY RefusedIsSafe, SameIsKept

LEMMA SaveErasesStep ==
  ASSUME IInv, NEW quiet, SaveErases(quiet) PROVE IInv' /\ KeptStep
<1> DEFINE s == EraseFirst(flash, store.keep)
<1>1. s # Live(flash, store.keep)
  BY ErasedIsNotLive DEF IInv
<1>2. CASE EraseCut(s)
  BY <1>1, <1>2, EraseCutIsSafe, ForgettingIsKept
<1>3. CASE flash' = Wiped(flash, In(s)) /\ UNCHANGED <<store, bench, driving, boot>>
  <2>1. boot' \in {None} \cup 0 .. Sectors
    BY <1>3 DEF IInv, TypeOK
  <2>2. IInv' /\ Loaded(flash') = Loaded(flash)
    <3> HIDE DEF s
    <3> QED BY <1>1, <1>3, <2>1, EraseIsSafe
  <2> QED BY <1>3, <2>2, SameIsKept
<1>4. CASE Refused
  BY <1>4, RefusedStep
<1> QED BY <1>2, <1>3, <1>4 DEF SaveErases

LEMMA ReclaimsStep == ASSUME IInv, Reclaims PROVE IInv' /\ KeptStep
<1> DEFINE s == Least(Stale(flash, store.keep))
<1>1. CASE Refused
  BY <1>1, RefusedStep
<1>2. CASE Stale(flash, store.keep) = {} /\ ~Refused
  BY <1>2, QuietStep DEF Reclaims, Rests
<1>3. CASE Stale(flash, store.keep) # {}
  <2>1. s # Live(flash, store.keep)
    BY <1>3, ErasedIsNotLive DEF IInv
  <2>2. CASE EraseCut(s)
    BY <2>1, <2>2, EraseCutIsSafe, ForgettingIsKept
  <2>3. CASE flash' = Wiped(flash, In(s)) /\ UNCHANGED <<store, bench, driving, boot>>
    <3>1. boot' \in {None} \cup 0 .. Sectors
      BY <2>3 DEF IInv, TypeOK
    <3>2. IInv' /\ Loaded(flash') = Loaded(flash)
      <4> HIDE DEF s
      <4> QED BY <2>1, <2>3, <3>1, EraseIsSafe
    <3> QED BY <2>3, <3>2, SameIsKept
  <2> QED BY <1>1, <1>3, <2>2, <2>3 DEF Reclaims
<1> QED BY <1>1, <1>2, <1>3

LEMMA SaveWritesStep ==
  ASSUME IInv, NEW quiet, SaveWrites(quiet) PROVE IInv' /\ KeptStep
<1> DEFINE i == Slot(flash)
           c == store.want
           r == Record(NextSeq(flash), c)
<1>1. i \in Place /\ flash[i] = Erased
  BY SlotIsErased DEF IInv, SaveWrites
<1>2. store.pending /\ store.mode # "off" /\ c \in Cfg
      /\ c.wiring = bench.wiring /\ boot = None
  BY DEF SaveWrites, Ready, MayOpen, Running, IInv, TypeOK, Memory, WantIsInForce, Cfg
<1>3. CASE ProgramCut(i, r)
  <2>1. IInv' /\ ~store'.pending /\ (Loaded(flash') = Loaded(flash) \/ Loaded(flash') = c)
    <3> HIDE DEF i, c
    <3> QED BY <1>1, <1>2, <1>3, ProgramCutIsSafe
  <2>2. CASE Loaded(flash') = Loaded(flash)
    BY <2>1, <2>2, ForgettingIsKept DEF Forgets
  <2>3. CASE Loaded(flash') = c
    BY <1>2, <2>1, <2>3, KeepingIsKept
  <2> QED BY <2>1, <2>2, <2>3
<1>4. CASE flash' = Written(flash, i, r) /\ Lands /\ UNCHANGED <<driving, boot>>
  <2>1. /\ store' = [store EXCEPT !.keep = None, !.reclaim = TRUE,
                       !.saved = store.want, !.pending = FALSE]
        /\ \E opens \in BOOLEAN :
             bench' = [bench EXCEPT !.unsaved = FALSE, !.attach = FALSE,
                         !.open = IF bench.attach THEN bench.wiring # Off /\ opens
                                  ELSE bench.open]
    BY <1>4 DEF Lands, IInv, TypeOK
  <2>2. PICK opens \in BOOLEAN :
             bench' = [bench EXCEPT !.unsaved = FALSE, !.attach = FALSE,
                         !.open = IF bench.attach THEN bench.wiring # Off /\ opens
                                  ELSE bench.open]
    BY <2>1
  <2>3. /\ store'.mode = store.mode /\ store'.pending = FALSE
        /\ store'.saved = c /\ store'.keep = None
    BY <2>1 DEF IInv, TypeOK
  <2>4. /\ UNCHANGED <<bench.wiring, bench.pages>> /\ bench'.unsaved = FALSE
        /\ bench'.open => bench.open \/ bench.wiring # Off
    BY <2>2 DEF IInv, TypeOK
  <2>5. Slots(flash', store'.keep) /\ Loaded(flash') = c
    <3>1. LET g == Written(flash, i, Record(NextSeq(flash), c))
          IN  Slots(g, store'.keep) /\ Loaded(g) = c
      <4> HIDE DEF i, c
      <4> QED BY <1>1, <1>2, WrittenIsLoaded DEF IInv
    <3> HIDE DEF i, c
    <3> QED BY <1>4, <3>1
  <2>6. TypeOK'
    <3>1. (IF bench.attach THEN bench.wiring # Off /\ opens ELSE bench.open) \in BOOLEAN
      BY DEF IInv, TypeOK
    <3>2. bench' \in BenchType
      BY <2>2, <3>1 DEF IInv, TypeOK
    <3>3. store' \in StoreType
      BY <2>1, <1>2 DEF IInv, TypeOK
    <3> QED BY <1>4, <2>5, <3>2, <3>3 DEF IInv, TypeOK, Slots
  <2>7. Memory'
    <3>1. SavedIsKept' /\ WantIsInForce' /\ OffAsksNothing' /\ StartsAlone'
      BY <1>2, <1>4, <2>3, <2>5 DEF SavedIsKept, WantIsInForce, OffAsksNothing, StartsAlone
    <3>2. WiringIsKept' /\ OpenIsWired'
      BY <1>2, <2>4, <2>5 DEF WiringIsKept, OpenIsWired, IInv, Memory
    <3> QED BY <3>1, <3>2 DEF Memory
  <2>8. KeptStep
    BY <1>2, <2>3, <2>5, KeepingIsKept
  <2> QED BY <2>5, <2>6, <2>7, <2>8 DEF IInv
<1>5. CASE Refused
  BY <1>5, RefusedStep
<1> QED BY <1>3, <1>4, <1>5 DEF SaveWrites

-----------------------------------------------------------------------------
(* The theorems.                                                           *)

LEMMA InitHolds == ASSUME Init PROVE IInv /\ Kept!Init
<1>1. /\ flash \in [Place -> Cell] /\ Valid(flash, "new") = {}
      /\ OneIsOld(flash)
  <2>1. \A i \in Place : flash[i] \in Cell /\ flash[i].kind # "new"
    <3>1. \A i \in Place : flash[i] \in {Erased, Torn} \cup [kind : {"old"}, seq : {1}, cfg : Cfg]
      BY DEF Init
    <3> QED BY <3>1 DEF Cell, Erased, Torn
  <2>2. flash \in [Place -> Cell]
    BY <2>1 DEF Init
  <2> QED BY <2>1, <2>2 DEF Init, Valid, OneIsOld
<1>2. \A i \in Valid(flash, "old") :
        Newest(flash, "old") = i /\ SectorOf(i) \in Sector
  BY <1>1, OldestIs, SectorIsOne DEF Valid
<1>3. store = Fresh(flash) /\ driving = FALSE /\ boot = Sectors
  BY DEF Init
<1>4. PICK takes \in BOOLEAN : bench = Restored(Loaded(flash), takes)
  BY DEF Init
<1>5. /\ store.mode = "alone" /\ store.pending = FALSE /\ store.saved = Nothing
      /\ store.keep = IF Valid(flash, "old") # {} THEN SectorOf(Newest(flash, "old")) ELSE None
  BY <1>1, <1>3 DEF Fresh
<1>6. Slots(flash, store.keep)
  BY <1>1, <1>2, <1>5 DEF Slots, OneIsNewest, OldIsSpared
<1>7. Loaded(flash) \in Cfg \cup {Nothing}
  BY <1>6, LoadedIsCfg
<1>8. TypeOK
  <2>1. store \in StoreType
    <3>1. Fresh(flash).keep \in Sector \cup {None}
      BY <1>2, <1>3, <1>5
    <3> QED BY <1>1, <1>3, <3>1, Times DEF Fresh
  <2>2. bench \in BenchType
    BY <1>4, <1>7, RestoredIsTyped
  <2>3. Sectors \in 0 .. Sectors
    BY Geometry
  <2> QED BY <1>1, <1>3, <2>1, <2>2, <2>3 DEF TypeOK
<1>9. Memory
  BY <1>3, <1>4, <1>5 DEF Memory, SavedIsKept, WantIsInForce, OffAsksNothing,
     StartsAlone, WiringIsKept, OpenIsWired, Restored
<1>10. Kept!Init
  BY <1>5, <1>7 DEF Kept!Init
<1> QED BY <1>6, <1>8, <1>9, <1>10 DEF IInv

LEMMA StepHolds == ASSUME IInv, [Next]_vars PROVE IInv' /\ KeptStep
<1>1. CASE Restart
  BY <1>1, RestartStep
<1>2. CASE BootReclaims
  BY <1>2, BootReclaimsStep
<1>3. CASE Launch
  BY <1>3, LaunchStep
<1>4. ASSUME NEW p \in Pages, Configure(p) PROVE IInv' /\ KeptStep
  BY <1>4, ConfigureStep
<1>5. ASSUME NEW w \in Wirings, SupplyTake(w) PROVE IInv' /\ KeptStep
  BY <1>5, SupplyTakeStep
<1>6. CASE Drives
  BY <1>6, DrivesStep
<1>7. ASSUME NEW quiet \in BOOLEAN, SaveErases(quiet) PROVE IInv' /\ KeptStep
  BY <1>7, SaveErasesStep
<1>8. ASSUME NEW quiet \in BOOLEAN, SaveWrites(quiet) PROVE IInv' /\ KeptStep
  BY <1>8, SaveWritesStep
<1>9. CASE Reclaims
  BY <1>9, ReclaimsStep
<1>10. CASE Lapses \/ Tick
  BY <1>10, QuietStep
<1>11. CASE UNCHANGED vars
  <2>1. IInv'
    BY <1>11 DEF vars, IInv, TypeOK, Memory, SavedIsKept, WantIsInForce,
       OffAsksNothing, StartsAlone, WiringIsKept, OpenIsWired
  <2> QED BY <1>11, <2>1, SameIsKept DEF vars
<1> QED BY <1>1, <1>2, <1>3, <1>4, <1>5, <1>6, <1>7, <1>8, <1>9, <1>10, <1>11 DEF Next

\* The strengthening that the theorems below rest on holds in every state the
\* store reaches (out_store.c, out_store_map.c, main.c).
THEOREM IInvHolds == Spec => []IInv
<1>1. Init => IInv
  BY InitHolds
<1>2. IInv /\ [Next]_vars => IInv'
  BY StepHolds
<1> QED BY <1>1, <1>2, PTL DEF Spec

\* The store's memory, its slots and the supply have their types: no slot is
\* taken outside the sectors, no save waits past its bound.
THEOREM TypeCorrect == Spec => []TypeOK
<1>1. IInv => TypeOK
  BY DEF IInv
<1> QED BY <1>1, IInvHolds, PTL

\* The wiring an attached supply runs on is the wiring in flash, unless the
\* store is off (supply_take(), main()).
THEOREM AttachedIsFound == Spec => []AttachedIsKept
<1>1. IInv => AttachedIsKept
  BY DEF IInv, Memory, WiringIsKept, OpenIsWired, AttachedIsKept
<1> QED BY <1>1, IInvHolds, PTL

\* Through every cut of an erase or a program a restart finds one
\* configuration asked for as a whole, and it changes only to the one wanted
\* last (out_store_map.c, out_store_load()).
THEOREM Refinement == Spec => ImplementsKept
<1>1. Init => Kept!Init
  BY InitHolds
<1>2. IInv /\ [Next]_vars => [Kept!Next]_(Kept!vars)
  BY StepHolds DEF KeptStep
<1> QED BY <1>1, <1>2, IInvHolds, PTL DEF Spec, ImplementsKept, Kept!Spec
=============================================================================
