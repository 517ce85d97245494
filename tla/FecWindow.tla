------------------------------ MODULE FecWindow ------------------------------
(***************************************************************************)
(* The sliding-window code of the coded datagrams (queqiao/internal/fec/   *)
(* window.go): the encoder's window, repairs over it, and the decoder's    *)
(* slots and linear system, with sources and repairs that are lost,        *)
(* repeated and reordered.  GF(256) is the field of a small prime, a       *)
(* symbol one of its elements, and identifiers do not wrap.                *)
(***************************************************************************)
EXTENDS Integers, FiniteSets, FiniteSetsExt, Functions

CONSTANTS Prime,            \* the field
          MaxRepairWindow,  \* the widest span of a repair
          Capacities,       \* what SetCapacity is called with
          Symbols, Repairs  \* bounds: symbols and repairs sent

ASSUME FecConstants ==
  /\ Prime \in Nat \ {0, 1} /\ \A c \in 1..(Prime - 1) : \E i \in 1..(Prime - 1) : (i * c) % Prime = 1
  /\ MaxRepairWindow \in Nat \ {0} /\ Capacities \subseteq Nat /\ Symbols \in Nat /\ Repairs \in Nat

Width == 2 * MaxRepairWindow
Value(e) == 1 + (e % (Prime - 1))

VARIABLES next, heldSymbols, ring,  \* the encoder: its next identifier, symbols held, slots
          repairs,           \* repairs sent: [first, coef, data]
          dec,               \* the decoder
          taken              \* a source came that a held row had for its pivot

fecVars == <<next, heldSymbols, ring, repairs, dec, taken>>

NoSlot == [esi |-> -2 * Width, value |-> 0]

FecInit ==
  /\ next = 0 /\ heldSymbols = 0 /\ ring \in Capacities /\ repairs = {}
  /\ dec = [started |-> FALSE, lo |-> 0, high |-> 0, origin |-> 0,
            slots |-> [i \in 0..(Width - 1) |-> NoSlot], rows |-> {}, lost |-> {}, recovered |-> {}]
  /\ taken = FALSE

(* The encoder.                                                            *)
AtMost(a, b) == Min({a, b})
AtLeast(a, b) == Max({a, b})

SetCapacity(c) ==
  /\ c # ring /\ ring' = c /\ heldSymbols' = AtMost(heldSymbols, c)
  /\ UNCHANGED <<next, repairs, dec, taken>>

Resets == heldSymbols > 0 /\ heldSymbols' = 0 /\ UNCHANGED <<next, ring, repairs, dec, taken>>

Adds ==
  /\ next < Symbols /\ next' = next + 1 /\ heldSymbols' = AtMost(heldSymbols + 1, ring)
  /\ UNCHANGED <<ring, repairs, dec, taken>>

(* A repair: any nonzero coefficients over the newest count symbols.       *)
Dot(coef) == SumFunctionOnSet([e \in DOMAIN coef |-> coef[e] * Value(e)], DOMAIN coef) % Prime
Covered(count) == AtMost(AtMost(count, heldSymbols), MaxRepairWindow)
RepairOver(first, coef) == [first |-> first, coef |-> coef, data |-> Dot(coef)]

SendsRepair(count) ==
  /\ heldSymbols > 0 /\ Cardinality(repairs) < Repairs
  /\ \E coef \in [(next - Covered(count))..(next - 1) -> 1..(Prime - 1)] :
       repairs' = repairs \cup {RepairOver(next - Covered(count), coef)}
  /\ UNCHANGED <<next, heldSymbols, ring, dec, taken>>

(* admit: the window slides to hold e; what falls off the back is lost     *)
(* unless it was had, and takes the rows that refer to it along.           *)
Behind(d, e) == d.started /\ e < d.lo
Evicted(d, e) == d.lo..(AtMost(AtLeast(d.lo, e + 1 - Width), d.lo + Width) - 1)
Holds(d, e) == d.slots[e % Width].esi = e
LostOf(d, gone) == {e \in gone : ~Holds(d, e) /\ e >= d.origin}
Slid(d, e) ==
  IF ~d.started THEN [d EXCEPT !.started = TRUE, !.origin = e, !.high = e + 1, !.lo = e + 1 - Width]
  ELSE IF e < d.high THEN d
  ELSE LET gone == Evicted(d, e) IN
       [d EXCEPT !.high = e + 1, !.lo = AtLeast(d.lo, e + 1 - Width),
                 !.slots = [i \in DOMAIN @ |-> IF @[i].esi \in gone THEN NoSlot ELSE @[i]],
                 !.rows = {r \in @ : DOMAIN r.coef \cap gone = {}},
                 !.lost = @ \cup LostOf(d, gone)]
Witnessed(d, e) == IF e < d.origin /\ e >= d.lo THEN [d EXCEPT !.origin = e] ELSE d

(* Rows: a partial function from unknowns to nonzero coefficients.         *)
Coef(r, e) == IF e \in DOMAIN r.coef THEN r.coef[e] ELSE 0
LeftOf(r, s, e) == (Coef(r, e) - Coef(r, s.pivot) * Coef(s, e)) % Prime
Less(r, s) ==  \* r without the pivot of s
  [pivot |-> r.pivot, data |-> (r.data - Coef(r, s.pivot) * s.data) % Prime,
   coef |-> [e \in {x \in DOMAIN r.coef \cup DOMAIN s.coef : LeftOf(r, s, x) # 0} |-> LeftOf(r, s, e)]]
Unit(e, value) == [pivot |-> e, coef |-> [x \in {e} |-> 1], data |-> value]
Inv(c) == CHOOSE i \in 1..(Prime - 1) : (i * c) % Prime = 1
Leading(r) == CHOOSE e \in DOMAIN r.coef : \A x \in DOMAIN r.coef : e <= x
Scaled(r) == LET f == Inv(r.coef[Leading(r)])
             IN [pivot |-> Leading(r), data |-> (f * r.data) % Prime,
                 coef |-> [e \in DOMAIN r.coef |-> (f * r.coef[e]) % Prime]]

(* substitute: the slot is filled, and the symbol leaves every row.        *)
Cleared(rows, s) == {Less(r, s) : r \in rows}
Substituted(d, e, value) ==
  IF Holds(d, e) THEN d
  ELSE [d EXCEPT !.slots[e % Width] = [esi |-> e, value |-> value], !.rows = Cleared(@, Unit(e, value))]

(* harvest: a row with one unknown left is that symbol, its data as it is; *)
(* each pass takes such a row, until there is none.                        *)
Harvest(d) ==
  LET live == {r \in d.rows : DOMAIN r.coef # {}}
      one == {r \in live : Cardinality(DOMAIN r.coef) = 1}
  IN IF one = {} THEN [d EXCEPT !.rows = live]
     ELSE LET r == CHOOSE x \in one : TRUE
              e == Leading(r)
              rest == [d EXCEPT !.rows = live \ {r}]
          IN IF Holds(d, e) THEN rest
             ELSE [Substituted(rest, e, r.data) EXCEPT !.recovered = @ \cup {e}]
Harvested(d) ==
  LET pass[i \in 0..Cardinality(d.rows)] == IF i = 0 THEN d ELSE Harvest(pass[i - 1])
  IN  pass[Cardinality(d.rows)]

(* insert: reduced by what is known, then by the rows' pivots; the rows    *)
(* by it.                                                                  *)
HeldIn(d, r) == {e \in DOMAIN r.coef : d.slots[e % Width].esi # NoSlot.esi}
KnownIn(d, r) == {Unit(e, d.slots[e % Width].value) : e \in HeldIn(d, r)}
Reduced(r, rows) == FoldSet(LAMBDA s, x : Less(x, s), r, rows)
Inserted(d, coef, data) ==
  LET raw == [pivot |-> 0, coef |-> coef, data |-> data]
      r == Reduced(Reduced(raw, KnownIn(d, raw)), d.rows)
      row == Scaled(r)
  IN IF DOMAIN r.coef = {} THEN d
     ELSE Harvested([d EXCEPT !.rows = Cleared(@, row) \cup {row}])

SourceArrives(e) ==
  /\ e < next
  /\ IF Behind(dec, e) THEN UNCHANGED <<dec, taken>>
     ELSE LET d == Witnessed(Slid(dec, e), e) IN
          /\ dec' = IF Holds(d, e) THEN d ELSE Harvested(Substituted(d, e, Value(e)))
          /\ taken' = (taken \/ \E r \in d.rows : r.pivot = e /\ ~Holds(d, e))
  /\ UNCHANGED <<next, heldSymbols, ring, repairs>>

\* Faulty, unused: rows that refer to a symbol that left the window stay.
MutReaches(d, p) == TRUE

(* A repair that reaches behind the window is dropped: the symbol it lacks *)
(* is not zero.                                                            *)
Reaches(d, p) == p.first >= d.lo
RepairArrives(p) ==
  /\ p \in repairs
  /\ LET last == p.first + Cardinality(DOMAIN p.coef) - 1
         d == Witnessed(Slid(dec, last), p.first)
     IN dec' = IF Behind(dec, last) THEN dec
               ELSE IF ~Reaches(d, p) THEN d
               ELSE Inserted(d, [e \in DOMAIN p.coef \cap (d.lo..(d.high - 1)) |-> p.coef[e]], p.data)
  /\ UNCHANGED <<next, heldSymbols, ring, repairs, taken>>

FecNext ==
  \/ Adds \/ Resets \/ \E c \in Capacities : SetCapacity(c)
  \/ \E count \in 1..MaxRepairWindow : SendsRepair(count)
  \/ \E e \in 0..(Symbols - 1) : SourceArrives(e)
  \/ \E p \in repairs : RepairArrives(p)
FecSpec == FecInit /\ [][FecNext]_fecVars

(***************************************************************************)
(* Slots hold symbols of the window only, and rows are over its missing    *)
(* symbols, two at least; a symbol is told lost when it left the window    *)
(* without having been had, and is never recovered later.  And as long as  *)
(* no source comes that was a row's pivot: every row is a true equation in *)
(* reduced form (its pivot is in no other), and every symbol held is the   *)
(* one that was sent.                                                      *)
(***************************************************************************)
RowHolds(r) == Dot(r.coef) = r.data
FecInv ==
  /\ \A i \in DOMAIN dec.slots :
       dec.slots[i] # NoSlot => dec.slots[i].esi \in dec.lo..(dec.high - 1) /\ dec.slots[i].esi % Width = i
  /\ \A r \in dec.rows :
       /\ DOMAIN r.coef \subseteq dec.lo..(dec.high - 1) /\ Cardinality(DOMAIN r.coef) >= 2
       /\ \A e \in DOMAIN r.coef : ~Holds(dec, e)
  /\ dec.started => dec.high - dec.lo <= Width
  /\ \A e \in dec.lost : e < dec.lo /\ e \notin dec.recovered
  /\ ~taken =>
       /\ \A r \in dec.rows : RowHolds(r) /\ r.coef[r.pivot] = 1
       /\ \A r, s \in dec.rows : r # s => r.pivot \notin DOMAIN s.coef
       /\ \A i \in DOMAIN dec.slots : dec.slots[i] # NoSlot => dec.slots[i].value = Value(dec.slots[i].esi)

(***************************************************************************)
(* What is recovered is what was sent ("a row with one unknown left is a   *)
(* recovered symbol").  A source that comes after a repair that covers it  *)
(* leaves a row whose coefficient is not one, and harvest takes its data   *)
(* for the symbol.                                                         *)
(***************************************************************************)
RecoveredIsSent ==
  \A i \in DOMAIN dec.slots : dec.slots[i] # NoSlot => dec.slots[i].value = Value(dec.slots[i].esi)
=============================================================================
