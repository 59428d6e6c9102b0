------------------------------ MODULE OutStore ------------------------------
(***************************************************************************)
(* The IOmcu's store of its outputs' configuration: two flash sectors of   *)
(* record slots, a save that is put off until nothing is driven, and the   *)
(* supply whose new wiring is attached only once it is in flash.           *)
(*                                                                         *)
(* Power can fail at any moment.  In a flash window it leaves the slots of *)
(* an erase as they were, erased or torn, and the slot of a program        *)
(* erased, torn or written; OutStoreProofs shows why a torn record is      *)
(* never taken for a whole one.  A slot holds a record of this layout      *)
(* ("new"), one of the one-page layout of version 7 and older ("old"),     *)
(* what neither reads ("torn"), or nothing.  Of a configuration the model  *)
(* keeps the supply's wiring and one mark for all the other pages.         *)
(***************************************************************************)
EXTENDS Integers

CONSTANTS Sectors,      \* STORE_SECTORS
          PerSector,    \* STORE_RECORDS
          Settle,       \* OUT_STORE_SETTLE_MS, in ticks
          GapWait,      \* OUT_STORE_GAP_WAIT_MS
          MaxSeq,       \* bound: the sequence number past which nothing asks
          Pages,        \* what the configuration's other pages can say
          Wirings,      \* the wirings of the supply
          Off,          \* the one of them that disables it
          Default,      \* what the other pages say with nothing kept
          Before,       \* what a build without a partition table left, or
          Nothing       \* no configuration

ASSUME Geometry == /\ Sectors \in Nat /\ Sectors > 1
                   /\ PerSector \in Nat \ {0}
ASSUME Times == Settle \in Nat /\ GapWait \in Nat /\ MaxSeq \in Nat
ASSUME Values == /\ Off \in Wirings
                 /\ Default \in Pages

Cfg == [pages : Pages, wiring : Wirings]

ASSUME NothingIsNone == /\ Nothing \notin Cfg
                        /\ Before \in Cfg \cup {Nothing}

VARIABLES
  flash,    \* each slot's content
  store,    \* out_store.c's memory
  bench,    \* the pages and the supply as they are in force
  driving,  \* flash_busy(): a window would hold up something that drives
  boot      \* sectors the start may still reclaim, or None once it is over

vars == <<flash, store, bench, driving, boot>>

None == -1
Place == 0 .. Sectors * PerSector - 1
Sector == 0 .. Sectors - 1
SectorOf(i) == i \div PerSector
In(s) == {i \in Place : SectorOf(i) = s}

Erased == [kind |-> "erased", seq |-> 0, cfg |-> Nothing]
Torn == [kind |-> "torn", seq |-> 0, cfg |-> Nothing]
Record(n, c) == [kind |-> "new", seq |-> n, cfg |-> c]

Cell == {Erased, Torn} \cup [kind : {"new", "old"}, seq : Nat, cfg : Cfg]

-----------------------------------------------------------------------------
(* The map of the records (out_store_map.c).  The slots are f's.           *)

Valid(f, kind) == {i \in Place : f[i].kind = kind}

Newest(f, kind) ==
  CHOOSE i \in Valid(f, kind) : \A j \in Valid(f, kind) :
    \/ f[j].seq < f[i].seq
    \/ f[j].seq = f[i].seq /\ i <= j

Least(S) == CHOOSE i \in S : \A j \in S : i <= j

Blank(f, s) == \A i \in In(s) : f[i] = Erased

\* The sector of the live record; the kept one while there is none.
Live(f, keep) ==
  IF Valid(f, "new") = {} THEN keep ELSE SectorOf(Newest(f, "new"))

NextSeq(f) ==
  IF Valid(f, "new") = {} THEN 1 ELSE f[Newest(f, "new")].seq + 1

\* Where the next record can go with nothing erased for it: anywhere while
\* no record is valid; else after the live one in its sector, or at the head
\* of a sector that is blank.
Free(f) ==
  IF Valid(f, "new") = {} THEN {i \in Place : f[i] = Erased}
  ELSE LET at == Newest(f, "new")
           rest == {i \in In(SectorOf(at)) : i > at /\ f[i] = Erased}
       IN  IF rest # {} THEN rest
           ELSE UNION {In(s) : s \in {s \in Sector \ {SectorOf(at)} : Blank(f, s)}}

\* The blank sectors are taken in their order from the live one on.
Slot(f) ==
  LET behind == IF Valid(f, "new") = {} THEN Free(f)
                ELSE {i \in Free(f) : i > Newest(f, "new")}
  IN  Least(IF behind # {} THEN behind ELSE Free(f))

\* Mutant: a full store erases the sector of its live record.
EraseLive(f, keep) ==
  IF Valid(f, "new") = {} THEN IF keep = 0 THEN 1 ELSE 0
  ELSE SectorOf(Newest(f, "new"))

EraseFirst(f, keep) ==
  IF Valid(f, "new") = {} THEN IF keep = 0 THEN 1 ELSE 0
  ELSE (SectorOf(Newest(f, "new")) + 1) % Sectors

Stale(f, keep) == {s \in Sector : s # Live(f, keep) /\ ~Blank(f, s)}

-----------------------------------------------------------------------------
(* What a start finds (out_store_load()).                                  *)

Loaded(f) ==
  IF Valid(f, "new") # {} THEN f[Newest(f, "new")].cfg
  ELSE IF Valid(f, "old") # {} THEN f[Newest(f, "old")].cfg
  ELSE Before

\* out_store.c's memory after the load.
Fresh(f) ==
  [mode |-> "alone", pending |-> FALSE, want |-> Nothing, age |-> 0,
   saved |-> IF Valid(f, "new") # {} THEN Loaded(f) ELSE Nothing,
   keep |-> IF Valid(f, "new") = {} /\ Valid(f, "old") # {}
            THEN SectorOf(Newest(f, "old")) ELSE None,
   reclaim |-> TRUE, refused |-> FALSE]

\* The pages in force after the load.  The supply starts on the kept wiring,
\* attached, unless its page or the silicon refuses it now (main()).
Restored(c, takes) ==
  [pages |-> IF c = Nothing THEN Default ELSE c.pages,
   wiring |-> IF c # Nothing /\ takes THEN c.wiring ELSE Off,
   unsaved |-> FALSE, attach |-> FALSE,
   open |-> c # Nothing /\ takes /\ c.wiring # Off]

Start(f) == /\ flash' = f
            /\ store' = Fresh(f)
            /\ \E takes \in BOOLEAN : bench' = Restored(Loaded(f), takes)
            /\ driving' = FALSE
            /\ boot' = Sectors

\* A store never written, or one an earlier build left: one record of its
\* layout with other content around it that this build cannot read.
Init == /\ flash \in [Place -> {Erased, Torn}
                        \cup [kind : {"old"}, seq : {1}, cfg : Cfg]]
        /\ \A i, j \in Valid(flash, "old") : i = j
        /\ store = Fresh(flash)
        /\ \E takes \in BOOLEAN : bench = Restored(Loaded(flash), takes)
        /\ driving = FALSE
        /\ boot = Sectors

-----------------------------------------------------------------------------
(* The flash windows (flash_window()).  One runs, or core 1 does not stop  *)
(* for it, or the power fails in it.                                       *)

Wiped(f, S) == [i \in Place |-> IF i \in S THEN Erased ELSE f[i]]

\* An erase cut off: each slot of the sector erased, torn or as it was.
HalfWiped(f, wiped, torn) ==
  [i \in Place |-> IF i \in wiped THEN Erased
                   ELSE IF i \in torn /\ f[i] # Erased THEN Torn ELSE f[i]]

Written(f, i, r) == [f EXCEPT ![i] = r]

EraseCut(s) ==
  \E wiped, torn \in SUBSET In(s) : Start(HalfWiped(flash, wiped, torn))

ProgramCut(i, r) == \E left \in {Erased, Torn, r} : Start(Written(flash, i, left))

Refused == /\ store.mode = "parkable"
           /\ store' = [store EXCEPT !.refused = TRUE]
           /\ UNCHANGED <<flash, bench, driving, boot>>

\* The power fails outside a window, or the IOmcu restarts.
Restart == Start(flash)

-----------------------------------------------------------------------------
(* The start (main()), before the controller runs.                         *)

BootReclaims ==
  /\ boot > 0
  /\ Stale(flash, store.keep) # {}
  /\ LET s == Least(Stale(flash, store.keep))
     IN  \/ /\ flash' = Wiped(flash, In(s))
            /\ boot' = boot - 1
            /\ UNCHANGED <<store, bench, driving>>
         \/ EraseCut(s)

\* How a window opens, by where core 1 stands: a store that is off saves
\* nothing any more.
Moded(st, mode) ==
  [st EXCEPT !.mode = mode, !.pending = @ /\ mode = "parkable"]

\* Core 1 is launched: it registers for the lock-out, or the store is off
\* for this start (out_store_core1_parkable(), out_store_off()).
Launch ==
  /\ boot # None
  /\ boot = 0 \/ Stale(flash, store.keep) = {}
  /\ \E mode \in {"parkable", "off"} :
       store' = [Moded(store, mode) EXCEPT !.reclaim = (boot = 0)]
  /\ boot' = None
  /\ UNCHANGED <<flash, bench, driving>>

-----------------------------------------------------------------------------
(* The main loop.                                                          *)

Running == boot = None

\* MaxSeq bounds the saves.
Room == NextSeq(flash) <= MaxSeq

Asked(st, c) ==
  IF st.mode = "off" THEN st
  ELSE IF st.saved = c THEN [st EXCEPT !.pending = FALSE]
  ELSE [st EXCEPT !.pending = TRUE, !.want = c, !.age = 0]

\* A page other than the supply's is written and taken (save_outputs()).
Configure(p) ==
  /\ Running /\ Room
  /\ bench' = [bench EXCEPT !.pages = p]
  /\ store' = Asked(store, [pages |-> p, wiring |-> bench.wiring])
  /\ UNCHANGED <<flash, driving, boot>>

\* Mutant: new wiring is attached as it is taken.
WiringAttached(w) ==
  /\ store' = Asked(store, [pages |-> bench.pages, wiring |-> w])
  /\ bench' = [bench EXCEPT !.wiring = w, !.unsaved = FALSE,
                 !.attach = FALSE, !.open = (w # Off)]

\* The supply's wiring is written and the silicon has room for its UART
\* (supply_take()).  An enabled one waits, detached, for its save.
WiringTaken(w) ==
  LET st == Asked(store, [pages |-> bench.pages, wiring |-> w])
      waits == st.pending /\ w # Off
  IN  /\ store' = st
      /\ \E opens \in BOOLEAN :
           bench' = [bench EXCEPT !.wiring = w, !.unsaved = st.pending,
                       !.attach = waits, !.open = ~waits /\ w # Off /\ opens]

\* It has no room for it: the wiring is as it was, and waits on or is
\* attached again (supply_probe() took the UART either way).
WiringRefused ==
  /\ \E opens \in BOOLEAN :
       bench' = [bench EXCEPT !.attach = bench.unsaved /\ bench.wiring # Off,
                   !.open = ~bench.unsaved /\ bench.wiring # Off /\ opens]
  /\ UNCHANGED store

SupplyTake(w) ==
  /\ Running /\ Room
  /\ w # bench.wiring
  /\ WiringTaken(w) \/ (w # Off /\ WiringRefused)
  /\ UNCHANGED <<flash, driving, boot>>

\* The bench drives or the module may be on; a module that waits for its
\* save is not switched on.
Drives == /\ Running /\ driving' = ~driving
          /\ UNCHANGED <<flash, store, bench, boot>>

MayOpen == store.mode # "off" /\ ~driving /\ ~store.refused

\* Mutant: a save waits for a quiet bus however long that takes.
ReadyInGaps(quiet) ==
  /\ MayOpen /\ store.pending
  /\ store.age >= Settle
  /\ quiet

\* out_store_tick() takes the save in this pass.
Ready(quiet) ==
  /\ MayOpen /\ store.pending
  /\ store.age >= Settle
  /\ quiet \/ store.age >= Settle + GapWait

SaveErases(quiet) ==
  /\ Running /\ Ready(quiet) /\ Free(flash) = {}
  /\ LET s == EraseFirst(flash, store.keep)
     IN  \/ /\ flash' = Wiped(flash, In(s))
            /\ UNCHANGED <<store, bench, driving, boot>>
         \/ EraseCut(s)
         \/ Refused

\* The record is in flash: the save is over, and the supply that waited for
\* it is attached (main()).
Lands ==
  /\ store' = [store EXCEPT !.keep = None, !.reclaim = TRUE,
                 !.saved = store.want, !.pending = FALSE]
  /\ \E opens \in BOOLEAN :
       bench' = [bench EXCEPT !.unsaved = FALSE, !.attach = FALSE,
                   !.open = IF bench.attach THEN bench.wiring # Off /\ opens ELSE @]

SaveWrites(quiet) ==
  /\ Running /\ Ready(quiet) /\ Free(flash) # {}
  /\ LET at == Slot(flash)
         r == Record(NextSeq(flash), store.want)
     IN  \/ /\ flash' = Written(flash, at, r)
            /\ Lands
            /\ UNCHANGED <<driving, boot>>
         \/ ProgramCut(at, r)
         \/ Refused

\* Nothing is pending and the bus is quiet: a sector nothing is wanted of is
\* erased (out_store_reclaim()).
Reclaims ==
  /\ Running /\ MayOpen /\ ~store.pending /\ store.reclaim
  /\ IF Stale(flash, store.keep) = {}
     THEN /\ store' = [store EXCEPT !.reclaim = FALSE]
          /\ UNCHANGED <<flash, bench, driving, boot>>
     ELSE LET s == Least(Stale(flash, store.keep))
          IN  \/ /\ flash' = Wiped(flash, In(s))
                 /\ UNCHANGED <<store, bench, driving, boot>>
              \/ EraseCut(s)
              \/ Refused

\* OUT_STORE_REFUSED_WAIT_MS after core 1 did not stop (refusing()).
Lapses == /\ store.refused
          /\ store' = [store EXCEPT !.refused = FALSE]
          /\ UNCHANGED <<flash, bench, driving, boot>>

Tick == /\ store.pending /\ store.age < Settle + GapWait
        /\ store' = [store EXCEPT !.age = @ + 1]
        /\ UNCHANGED <<flash, bench, driving, boot>>

Next == \/ Restart \/ BootReclaims \/ Launch
        \/ \E p \in Pages : Configure(p)
        \/ \E w \in Wirings : SupplyTake(w)
        \/ Drives
        \/ \E quiet \in BOOLEAN : SaveErases(quiet) \/ SaveWrites(quiet)
        \/ Reclaims \/ Lapses \/ Tick

Spec == Init /\ [][Next]_vars

(* Fairness.  The start ends, the clock runs, and the main loop comes round *)
(* with the bus never quiet, which a settled save does not wait out.        *)

FairSpec == /\ Spec
            /\ WF_vars(Launch) /\ WF_vars(Lapses) /\ WF_vars(Tick)
            /\ SF_vars(SaveErases(FALSE)) /\ SF_vars(SaveWrites(FALSE))

-----------------------------------------------------------------------------
(* Properties.                                                             *)

StoreType == [mode : {"alone", "parkable", "off"}, pending : BOOLEAN,
              want : Cfg \cup {Nothing}, age : 0 .. Settle + GapWait,
              saved : Cfg \cup {Nothing}, keep : Sector \cup {None},
              reclaim : BOOLEAN, refused : BOOLEAN]

BenchType == [pages : Pages, wiring : Wirings, unsaved : BOOLEAN,
              attach : BOOLEAN, open : BOOLEAN]

TypeOK ==
  /\ flash \in [Place -> Cell]
  /\ store \in StoreType
  /\ bench \in BenchType
  /\ driving \in BOOLEAN
  /\ boot \in {None} \cup 0 .. Sectors

\* What a restart would restore is always one configuration asked for as a
\* whole, and it changes only to the one asked for last, through every cut
\* of an erase or a program (out_store_map.c, out_store_load()); and a save
\* is dropped as already made only where it is what is kept.
Kept == INSTANCE KeptOutputs
          WITH kept <- Loaded(flash),
               wanted <- IF store.pending THEN store.want ELSE Nothing

ImplementsKept == Kept!Spec

\* An attached supply is one a restart finds: the wiring its UART runs on is
\* the wiring in flash, so a module left on can be switched off after a
\* restart (supply_take(), main()), unless the store is off.
AttachedIsKept ==
  bench.open /\ store.mode # "off" => Loaded(flash).wiring = bench.wiring

\* A supply that waits for its save has a save to wait for (iomcu.h, "no ON
\* until it is").
UnsavedWaits == bench.unsaved => store.pending

\* A save lands, or is taken back, with the bench idle again and again, the
\* pages no longer written and core 1 stopping for a window now and then
\* (out_store_tick()).
Asks == (\E p \in Pages : Configure(p)) \/ (\E w \in Wirings : SupplyTake(w))
Lets == []<>(~driving) /\ <>[][~Refused]_vars /\ <>[][~Asks]_vars
SaveLands == Lets => (store.pending ~> ~store.pending)
=============================================================================
