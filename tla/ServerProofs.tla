------------------------------ MODULE ServerProofs ------------------------------
(* Proofs about the uploads of Server, for every number of transfers, every      *)
(* budget and unit, and every number of slots and claims.                        *)
EXTENDS Server, FiniteSetTheorems, TLAPS

-------------------------------------------------------------------------------
(* The inductive invariant.                                                    *)

Phases == {"idle", "slot", "admitted", "promoted", "locked", "receiving", "storing",
           "unlinked", "returning", "last"}

SpoolTypes ==
  /\ slots \in Nat /\ bytes \in Nat /\ claims \in Nat
  /\ transfer \in [Transfers -> [pc : Phases, file : Candidates \cup {Nothing}, size : Nat]]
  /\ disk \in [Transfers -> Nat]

\* A temporary file holds no more than was declared, and only while it is paid for.
DiskDeclared ==
  \A t \in Transfers :
    disk[t] # 0 => disk[t] = transfer[t].size /\ transfer[t].pc \in {"receiving", "storing"}

\* No permit is lost or doubled.
BytesOK  == IsFiniteSet(Taken) /\ bytes + Cardinality(Taken) = Capacity
SlotsOK  == IsFiniteSet(Slotted) /\ slots + Cardinality(Slotted) = SlotLimit
ClaimsOK == IsFiniteSet(Claiming) /\ claims + Cardinality(Claiming) = ClaimLimit

SpoolInv == SpoolTypes /\ DiskDeclared /\ BytesOK /\ SlotsOK /\ ClaimsOK

-------------------------------------------------------------------------------
(* The steps of the uploads.                                                   *)

Restarted ==
  /\ slots' = SlotLimit /\ bytes' = Capacity /\ claims' = ClaimLimit
  /\ transfer' = [t \in Transfers |-> Idle]
  /\ disk' = [t \in Transfers |-> 0]

SpoolStep ==
  \/ \E t \in Transfers : Request(t) \/ Proceed(t) \/ LockFile(t)
  \/ Restarted
  \/ UNCHANGED spool

LEMMA ServerSteps == [Next]_vars => SpoolStep
  BY DEF Next, Upload, Restart, Restarted, SpoolStep, vars, spool

-------------------------------------------------------------------------------
(* Units.                                                                      *)

LEMMA UnitsTyped ==
  ASSUME NEW n \in Nat
  PROVE  Units(n) \in Nat
  BY SpoolAssumption DEF Units

LEMMA CapacityTyped == Capacity \in Nat /\ Unit * Capacity <= Budget
  <1>1. \A b \in Nat, u \in Nat \ {0} : b \div u \in Nat /\ u * (b \div u) <= b
    OBVIOUS
  <1> QED BY <1>1, SpoolAssumption DEF Capacity

(* Of the bytes 1..n, each is in one of Units(n) units, at one place of it. *)
LEMMA UnitOf ==
  ASSUME NEW n \in Nat, NEW i \in 1..n
  PROVE  ((i - 1) \div Unit) + 1 \in 1..Units(n) /\ ((i - 1) % Unit) + 1 \in 1..Unit
  <1>1. \A a \in Nat, b \in Nat, u \in Nat \ {0} :
          a < b => a \div u \in Nat /\ a \div u < (b + u - 1) \div u
    OBVIOUS
  <1>2. \A a \in Nat, u \in Nat \ {0} : a % u \in 0..(u - 1)
    OBVIOUS
  <1>3. i - 1 \in Nat /\ i - 1 < n
    OBVIOUS
  <1>4. (i - 1) \div Unit \in Nat /\ (i - 1) \div Unit < Units(n)
    BY <1>1, <1>3, SpoolAssumption DEF Units
  <1>5. (i - 1) % Unit \in 0..(Unit - 1)
    BY <1>2, <1>3, SpoolAssumption
  <1> QED BY <1>4, <1>5, UnitsTyped, SpoolAssumption

LEMMA UnitApart ==
  ASSUME NEW a \in Nat, NEW b \in Nat, a \div Unit = b \div Unit, a % Unit = b % Unit
  PROVE  a = b
  <1>1. \A x \in Nat, u \in Nat \ {0} : x = u * (x \div u) + (x % u)
    OBVIOUS
  <1> QED BY <1>1, SpoolAssumption

(* So the bytes on the disk are covered by the units taken for them. *)
LEMMA DiskCovered ==
  ASSUME SpoolInv
  PROVE  Cardinality(Stored) <= Budget
  <1> DEFINE Places == Taken \X (1..Unit)
             place == [b \in Stored |-> << <<b[1], ((b[2] - 1) \div Unit) + 1>>,
                                           ((b[2] - 1) % Unit) + 1>>]
  <1>1. ASSUME NEW b \in Stored
        PROVE  \E t \in Transfers : \E i \in 1..disk[t] :
                 /\ b = <<t, i>> /\ Reserved(t) /\ transfer[t].size \in Nat
                 /\ i \in 1..transfer[t].size /\ i - 1 \in Nat
    <2>1. PICK t \in Transfers : b \in {t} \X (1..disk[t])
      BY <1>1 DEF Stored
    <2>2. PICK i \in 1..disk[t] : b = <<t, i>>
      BY <2>1
    <2>3. disk[t] \in Nat /\ transfer[t].size \in Nat
      BY DEF SpoolInv, SpoolTypes
    <2>4. disk[t] # 0
      BY <2>2, <2>3
    <2>5. disk[t] = transfer[t].size /\ Reserved(t)
      BY <2>4 DEF SpoolInv, DiskDeclared, Reserved
    <2> QED BY <2>2, <2>3, <2>5
  <1>2. place \in [Stored -> Places]
    <2> SUFFICES ASSUME NEW b \in Stored
                 PROVE  << <<b[1], ((b[2] - 1) \div Unit) + 1>>, ((b[2] - 1) % Unit) + 1>> \in Places
      OBVIOUS
    <2>0. PICK t \in Transfers : \E i \in 1..disk[t] :
            /\ b = <<t, i>> /\ Reserved(t) /\ transfer[t].size \in Nat
            /\ i \in 1..transfer[t].size
      BY <1>1
    <2>1. PICK i \in 1..disk[t] :
            /\ b = <<t, i>> /\ Reserved(t) /\ transfer[t].size \in Nat
            /\ i \in 1..transfer[t].size
      BY <2>0
    <2>2. /\ ((i - 1) \div Unit) + 1 \in 1..Units(transfer[t].size)
          /\ ((i - 1) % Unit) + 1 \in 1..Unit
      BY <2>1, UnitOf
    <2>3. <<t, ((i - 1) \div Unit) + 1>> \in Taken
      BY <2>1, <2>2 DEF Taken
    <2>4. b[1] = t /\ b[2] = i
      BY <2>1
    <2> HIDE DEF place
    <2> QED BY <2>2, <2>3, <2>4
  <1>3. ASSUME NEW b \in Stored, NEW c \in Stored, place[b] = place[c] PROVE b = c
    <2>0b. PICK t \in Transfers : \E i \in 1..disk[t] : b = <<t, i>> /\ i - 1 \in Nat
      BY <1>1
    <2>1. PICK i \in 1..disk[t] : b = <<t, i>> /\ i - 1 \in Nat
      BY <2>0b
    <2>0c. PICK u \in Transfers : \E j \in 1..disk[u] : c = <<u, j>> /\ j - 1 \in Nat
      BY <1>1
    <2>2. PICK j \in 1..disk[u] : c = <<u, j>> /\ j - 1 \in Nat
      BY <2>0c
    <2>3. /\ place[b] = << <<t, ((i - 1) \div Unit) + 1>>, ((i - 1) % Unit) + 1>>
          /\ place[c] = << <<u, ((j - 1) \div Unit) + 1>>, ((j - 1) % Unit) + 1>>
      BY <2>1, <2>2
    <2>4. /\ t = u /\ ((i - 1) \div Unit) + 1 = ((j - 1) \div Unit) + 1
          /\ ((i - 1) % Unit) + 1 = ((j - 1) % Unit) + 1
      BY <1>3, <2>3
    <2>5. /\ (i - 1) \div Unit \in Int /\ (j - 1) \div Unit \in Int
          /\ (i - 1) % Unit \in Int /\ (j - 1) % Unit \in Int
      <3>1. \A a \in Nat, n \in Nat \ {0} : a \div n \in Int /\ a % n \in Int
        OBVIOUS
      <3> QED BY <2>1, <2>2, <3>1, SpoolAssumption
    <2>6. (i - 1) \div Unit = (j - 1) \div Unit /\ (i - 1) % Unit = (j - 1) % Unit
      BY <2>4, <2>5
    <2>7. i - 1 = j - 1
      BY <2>1, <2>2, <2>6, UnitApart
    <2> QED BY <2>1, <2>2, <2>4, <2>7
  <1>4. place \in Injection(Stored, Places)
    <2> HIDE DEF place, Places
    <2> QED BY <1>2, <1>3 DEF Injection, IsInjective
  <1>5. IsFiniteSet(1..Unit) /\ Cardinality(1..Unit) = Unit
    BY SpoolAssumption, FS_Interval
  <1>6. IsFiniteSet(Taken) /\ Cardinality(Taken) \in Nat /\ Cardinality(Taken) <= Capacity
    <2>1. IsFiniteSet(Taken) /\ Cardinality(Taken) \in Nat
      BY FS_CardinalityType DEF SpoolInv, BytesOK
    <2> QED BY <2>1, CapacityTyped DEF SpoolInv, SpoolTypes, BytesOK
  <1>7. IsFiniteSet(Places) /\ Cardinality(Places) = Cardinality(Taken) * Unit
    BY <1>5, <1>6, FS_Product
  <1>8. IsFiniteSet(Stored) /\ Cardinality(Stored) <= Cardinality(Places)
    <2> HIDE DEF place, Places
    <2> QED BY <1>4, <1>7, FS_Injection
  <1>9. Cardinality(Stored) \in Nat
    BY <1>8, FS_CardinalityType
  <1>10. Cardinality(Taken) * Unit <= Unit * Capacity
    <2>1. \A x \in Nat, y \in Nat, u \in Nat : x <= y => x * u <= u * y
      OBVIOUS
    <2> QED BY <1>6, <2>1, CapacityTyped, SpoolAssumption
  <1>11. Cardinality(Taken) * Unit \in Nat /\ Unit * Capacity \in Nat
    <2>1. \A x \in Nat, u \in Nat : x * u \in Nat /\ u * x \in Nat
      OBVIOUS
    <2> QED BY <1>6, <2>1, CapacityTyped, SpoolAssumption
  <1> HIDE DEF Places
  <1> QED BY <1>7, <1>8, <1>9, <1>10, <1>11, CapacityTyped, SpoolAssumption

-------------------------------------------------------------------------------
(* How the three sets move with one transfer.                                  *)

Rows == [pc : Phases, file : Candidates \cup {Nothing}, size : Nat]

Others(t) ==
  /\ transfer' \in [Transfers -> Rows]
  /\ \A u \in Transfers \ {t} : transfer'[u] = transfer[u]

\* The units of t.
Paid(t) == {t} \X (1..Units(transfer[t].size))

LEMMA GoMoves ==
  ASSUME SpoolTypes, NEW t \in Transfers, NEW p \in Phases, Go(t, p)
  PROVE  /\ Others(t)
         /\ transfer'[t].pc = p /\ transfer'[t].file = transfer[t].file
         /\ transfer'[t].size = transfer[t].size
  BY DEF SpoolTypes, Go, Others, Rows

LEMMA RowMoves ==
  ASSUME SpoolTypes, NEW t \in Transfers, NEW row \in Rows, transfer' = [transfer EXCEPT ![t] = row]
  PROVE  Others(t) /\ transfer'[t] = row
  BY DEF SpoolTypes, Others, Rows

LEMMA IdleRow == Idle \in Rows /\ Idle.pc = "idle" /\ Idle.file = Nothing
  BY DEF Idle, Rows, Phases

LEMMA RequestRow ==
  ASSUME NEW r \in Requests
  PROVE  [pc |-> "slot", file |-> r.file, size |-> r.size] \in Rows
  BY SpoolAssumption DEF Rows, Phases

LEMMA SlottedMoves ==
  ASSUME SpoolTypes, NEW t \in Transfers, Others(t)
  PROVE  Slotted' = IF transfer'[t].pc \in {"idle", "last"} THEN Slotted \ {t} ELSE Slotted \cup {t}
  BY DEF SpoolTypes, Others, Rows, Slotted

LEMMA ClaimingMoves ==
  ASSUME SpoolTypes, NEW t \in Transfers, Others(t)
  PROVE  Claiming' = IF /\ transfer'[t].file # Nothing
                        /\ transfer'[t].pc \in {"promoted", "locked", "receiving", "storing", "unlinked"}
                     THEN Claiming \cup {t} ELSE Claiming \ {t}
  BY DEF SpoolTypes, Others, Rows, Claiming, Put

(* A reservation is the transfer's own. *)
LEMMA TakenApart ==
  ASSUME NEW t \in Transfers
  PROVE  /\ Reserved(t) => Paid(t) \subseteq Taken
         /\ ~Reserved(t) => Paid(t) \cap Taken = {}
  BY DEF Taken, Paid

LEMMA TakenMoves ==
  ASSUME SpoolTypes, NEW t \in Transfers, Others(t)
  PROVE  /\ (Reserved(t)' <=> Reserved(t)) /\ (Reserved(t) => transfer'[t].size = transfer[t].size)
              => Taken' = Taken
         /\ Reserved(t)' /\ ~Reserved(t) /\ transfer'[t].size = transfer[t].size
              => Taken' = Taken \cup Paid(t)
         /\ ~Reserved(t)' /\ Reserved(t) => Taken' = Taken \ Paid(t)
  <1>1. \A u \in Transfers \ {t} : transfer'[u] = transfer[u]
    BY DEF Others
  <1>2. \A x : x \in Taken <=> \E u \in Transfers :
                 Reserved(u) /\ x \in {u} \X (1..Units(transfer[u].size))
    BY DEF Taken
  <1>3. \A x : x \in Taken' <=> \E u \in Transfers :
                 transfer'[u].pc \notin {"idle", "slot"} /\ x \in {u} \X (1..Units(transfer'[u].size))
    BY DEF Taken, Reserved, Units
  <1>4. CASE (Reserved(t)' <=> Reserved(t)) /\ (Reserved(t) => transfer'[t].size = transfer[t].size)
    BY <1>1, <1>2, <1>3, <1>4 DEF Reserved
  <1>5. CASE Reserved(t)' /\ ~Reserved(t) /\ transfer'[t].size = transfer[t].size
    BY <1>1, <1>2, <1>3, <1>5 DEF Reserved, Paid
  <1>6. CASE ~Reserved(t)' /\ Reserved(t)
    BY <1>1, <1>2, <1>3, <1>6 DEF Reserved, Paid
  <1> QED BY <1>4, <1>5, <1>6

LEMMA PaidCounted ==
  ASSUME SpoolTypes, NEW t \in Transfers
  PROVE  IsFiniteSet(Paid(t)) /\ Cardinality(Paid(t)) = Units(transfer[t].size)
  <1>1. Units(transfer[t].size) \in Nat
    BY UnitsTyped DEF SpoolTypes
  <1>2. IsFiniteSet({t}) /\ Cardinality({t}) = 1
    BY FS_Singleton
  <1>3. /\ IsFiniteSet(1..Units(transfer[t].size))
        /\ Cardinality(1..Units(transfer[t].size)) = Units(transfer[t].size)
    BY <1>1, FS_Interval
  <1>4. /\ IsFiniteSet({t} \X (1..Units(transfer[t].size)))
        /\ Cardinality({t} \X (1..Units(transfer[t].size))) = 1 * Units(transfer[t].size)
    <2>1. \A T : IsFiniteSet(T) => /\ IsFiniteSet({t} \X T)
                                  /\ Cardinality({t} \X T) = Cardinality({t}) * Cardinality(T)
      BY <1>2, FS_Product
    <2> QED BY <1>2, <1>3, <2>1
  <1> QED BY <1>1, <1>4 DEF Paid

(* What that does to the permits. *)
LEMMA Joined ==
  ASSUME NEW S, NEW T, NEW x, IsFiniteSet(S), x \notin S, T = S \cup {x}
  PROVE  IsFiniteSet(T) /\ Cardinality(T) = Cardinality(S) + 1 /\ Cardinality(S) \in Nat
  BY FS_AddElement, FS_CardinalityType

LEMMA Departed ==
  ASSUME NEW S, NEW T, NEW x, IsFiniteSet(S), x \in S, T = S \ {x}
  PROVE  IsFiniteSet(T) /\ Cardinality(T) = Cardinality(S) - 1 /\ Cardinality(S) \in Nat
  BY FS_RemoveElement, FS_CardinalityType

LEMMA JoinedMany ==
  ASSUME NEW S, NEW T, NEW P, IsFiniteSet(S), IsFiniteSet(P), P \cap S = {}, T = S \cup P
  PROVE  /\ IsFiniteSet(T) /\ Cardinality(T) = Cardinality(S) + Cardinality(P)
         /\ Cardinality(S) \in Nat /\ Cardinality(P) \in Nat
  <1>1. /\ IsFiniteSet(S \cup P)
        /\ Cardinality(S \cup P) = Cardinality(S) + Cardinality(P) - Cardinality(S \cap P)
    BY FS_Union
  <1>2. S \cap P = {}
    OBVIOUS
  <1>3. Cardinality(S \cap P) = 0
    BY <1>2, FS_EmptySet
  <1>4. Cardinality(S) \in Nat /\ Cardinality(P) \in Nat
    BY FS_CardinalityType
  <1> QED BY <1>1, <1>3, <1>4

LEMMA DepartedMany ==
  ASSUME NEW S, NEW T, NEW P, IsFiniteSet(S), IsFiniteSet(P), P \subseteq S, T = S \ P
  PROVE  /\ IsFiniteSet(T) /\ Cardinality(T) = Cardinality(S) - Cardinality(P)
         /\ Cardinality(S) \in Nat /\ Cardinality(P) \in Nat
  <1>1. IsFiniteSet(S \ P) /\ Cardinality(S \ P) = Cardinality(S) - Cardinality(S \cap P)
    BY FS_Difference
  <1>2. S \cap P = P
    OBVIOUS
  <1>3. Cardinality(S) \in Nat /\ Cardinality(P) \in Nat
    BY FS_CardinalityType
  <1> QED BY <1>1, <1>2, <1>3

-------------------------------------------------------------------------------
(* The invariant is kept.                                                      *)

LEMMA KeepsTypes ==
  ASSUME SpoolInv, SpoolStep
  PROVE  SpoolTypes'
  <1>0. SpoolTypes
    BY DEF SpoolInv
  <1>1. ASSUME NEW t \in Transfers, Request(t)
        PROVE  SpoolTypes'
    <2>1. PICK r \in Requests : TakeSlot(t, r)
      BY <1>1 DEF Request
    <2>2. Others(t)
      BY <1>0, <2>1, RequestRow, RowMoves DEF TakeSlot
    <2> QED BY <1>0, <2>1, <2>2 DEF SpoolTypes, Others, Rows, TakeSlot
  <1>2. ASSUME NEW t \in Transfers, RefuseBytes(t) \/ ReturnBytes(t)
        PROVE  SpoolTypes'
    <2>1. Others(t)
      BY <1>0, <1>2, IdleRow, RowMoves DEF RefuseBytes, ReturnBytes
    <2>2. Units(transfer[t].size) \in Nat
      BY <1>0, UnitsTyped DEF SpoolTypes
    <2> QED BY <1>0, <1>2, <2>1, <2>2 DEF SpoolTypes, Others, Rows, RefuseBytes, ReturnBytes
  <1>3. ASSUME NEW t \in Transfers,
               \/ TakeBytes(t) \/ TakeClaim(t) \/ LockFile(t) \/ Receive(t) \/ Store(t)
               \/ Unlink(t) \/ ReturnClaim(t) \/ ReturnSlot(t)
        PROVE  SpoolTypes'
    <2>1. PICK p \in Phases : Go(t, p)
      BY <1>3 DEF TakeBytes, TakeClaim, LockFile, Receive, Store, Unlink, ReturnClaim, ReturnSlot,
                  Phases
    <2>2. Others(t)
      BY <1>0, <2>1, GoMoves
    <2>3. Units(transfer[t].size) \in Nat /\ transfer[t].size \in Nat
      BY <1>0, UnitsTyped DEF SpoolTypes
    <2>4. slots' \in Nat /\ bytes' \in Nat /\ claims' \in Nat
      BY <1>0, <1>3, <2>3 DEF SpoolTypes, TakeBytes, TakeClaim, LockFile, Receive, Store, Unlink,
                              ReturnClaim, ReturnSlot
    <2>5. disk' \in [Transfers -> Nat]
      BY <1>0, <1>3, <2>3 DEF SpoolTypes, TakeBytes, TakeClaim, LockFile, Receive, Store, Unlink,
                              ReturnClaim, ReturnSlot
    <2> QED BY <2>2, <2>4, <2>5 DEF SpoolTypes, Others, Rows
  <1>4. CASE Restarted
    <2>1. transfer' \in [Transfers -> Rows]
      BY <1>4, IdleRow DEF Restarted
    <2> QED BY <1>4, <2>1, CapacityTyped, SpoolAssumption DEF Restarted, SpoolTypes, Rows
  <1>5. CASE UNCHANGED spool
    BY <1>0, <1>5 DEF SpoolTypes, spool
  <1> QED BY <1>1, <1>2, <1>3, <1>4, <1>5 DEF SpoolStep, Proceed

LEMMA KeepsDeclared ==
  ASSUME SpoolInv, SpoolStep
  PROVE  DiskDeclared'
  <1>0. SpoolTypes /\ DiskDeclared
    BY DEF SpoolInv
  <1>1. ASSUME NEW t \in Transfers, Others(t),
               \A u \in Transfers \ {t} : disk'[u] = disk[u],
               disk'[t] # 0 => /\ disk'[t] = transfer'[t].size
                               /\ transfer'[t].pc \in {"receiving", "storing"}
        PROVE  DiskDeclared'
    BY <1>0, <1>1 DEF DiskDeclared, Others
  <1>2. ASSUME NEW t \in Transfers, disk' = disk, Others(t),
               transfer[t].pc \notin {"receiving", "storing"}
        PROVE  DiskDeclared'
    <2>1. disk'[t] = 0
      BY <1>0, <1>2 DEF DiskDeclared, SpoolTypes
    <2> QED BY <1>1, <1>2, <2>1
  <1>3. ASSUME NEW t \in Transfers, Request(t)
        PROVE  DiskDeclared'
    <2>1. PICK r \in Requests : TakeSlot(t, r)
      BY <1>3 DEF Request
    <2>2. Others(t)
      BY <1>0, <2>1, RequestRow, RowMoves DEF TakeSlot
    <2> QED BY <1>2, <2>1, <2>2 DEF TakeSlot
  <1>4. ASSUME NEW t \in Transfers, RefuseBytes(t) \/ ReturnBytes(t)
        PROVE  DiskDeclared'
    <2>1. Others(t)
      BY <1>0, <1>4, IdleRow, RowMoves DEF RefuseBytes, ReturnBytes
    <2> QED BY <1>2, <1>4, <2>1 DEF RefuseBytes, ReturnBytes
  <1>5. ASSUME NEW t \in Transfers,
               TakeBytes(t) \/ TakeClaim(t) \/ LockFile(t) \/ ReturnClaim(t) \/ ReturnSlot(t)
        PROVE  DiskDeclared'
    <2>1. /\ \E p \in Phases : Go(t, p)
          /\ disk' = disk /\ transfer[t].pc \notin {"receiving", "storing"}
      BY <1>5 DEF TakeBytes, TakeClaim, LockFile, ReturnClaim, ReturnSlot, Phases
    <2>2. Others(t)
      BY <1>0, <2>1, GoMoves
    <2> QED BY <1>2, <2>1, <2>2
  <1>6. ASSUME NEW t \in Transfers, Receive(t)
        PROVE  DiskDeclared'
    <2>1. Others(t) /\ transfer'[t].pc = "receiving" /\ transfer'[t].size = transfer[t].size
      BY <1>0, <1>6, GoMoves DEF Receive, Phases
    <2>2. /\ \A u \in Transfers \ {t} : disk'[u] = disk[u]
          /\ disk'[t] = transfer[t].size
      BY <1>0, <1>6 DEF Receive, SpoolTypes
    <2> QED BY <1>1, <2>1, <2>2
  <1>7. ASSUME NEW t \in Transfers, Store(t)
        PROVE  DiskDeclared'
    <2>1. Others(t) /\ transfer'[t].pc = "storing" /\ transfer'[t].size = transfer[t].size
      BY <1>0, <1>7, GoMoves DEF Store, Phases
    <2>2. disk' = disk
      BY <1>7 DEF Store
    <2> QED BY <1>0, <1>1, <2>1, <2>2 DEF DiskDeclared
  <1>8. ASSUME NEW t \in Transfers, Unlink(t)
        PROVE  DiskDeclared'
    <2>1. \E p \in Phases : Go(t, p)
      BY <1>8 DEF Unlink, Phases
    <2>2. Others(t)
      BY <1>0, <2>1, GoMoves
    <2>3. (\A u \in Transfers \ {t} : disk'[u] = disk[u]) /\ disk'[t] = 0
      BY <1>0, <1>8 DEF Unlink, SpoolTypes
    <2> QED BY <1>1, <2>2, <2>3
  <1>9. CASE Restarted
    BY <1>9 DEF Restarted, DiskDeclared
  <1>10. CASE UNCHANGED spool
    BY <1>0, <1>10 DEF DiskDeclared, spool
  <1> QED BY <1>3, <1>4, <1>5, <1>6, <1>7, <1>8, <1>9, <1>10 DEF SpoolStep, Proceed

LEMMA KeepsSlots ==
  ASSUME SpoolInv, SpoolStep
  PROVE  SlotsOK'
  <1>0. SpoolTypes /\ SlotsOK
    BY DEF SpoolInv
  <1>c. slots \in Nat /\ SlotLimit \in Nat /\ IsFiniteSet(Slotted) /\ Cardinality(Slotted) \in Nat
    BY <1>0, SpoolAssumption, FS_CardinalityType DEF SpoolTypes, SlotsOK
  <1>1. ASSUME NEW t \in Transfers, Request(t)
        PROVE  SlotsOK'
    <2>1. PICK r \in Requests : TakeSlot(t, r)
      BY <1>1 DEF Request
    <2>2. Others(t) /\ transfer'[t].pc = "slot"
      <3>1. Others(t) /\ transfer'[t] = [pc |-> "slot", file |-> r.file, size |-> r.size]
        BY <1>0, <2>1, RequestRow, RowMoves DEF TakeSlot
      <3> QED BY <3>1
    <2>3. Slotted' = Slotted \cup {t} /\ t \notin Slotted
      BY <1>0, <2>1, <2>2, SlottedMoves DEF Slotted, TakeSlot
    <2>4. IsFiniteSet(Slotted') /\ Cardinality(Slotted') = Cardinality(Slotted) + 1
      BY <1>c, <2>3, Joined
    <2>5. slots' = slots - 1
      BY <2>1 DEF TakeSlot
    <2> QED BY <1>0, <1>c, <2>4, <2>5 DEF SlotsOK
  <1>2. ASSUME NEW t \in Transfers, RefuseBytes(t) \/ ReturnSlot(t)
        PROVE  SlotsOK'
    <2>1. Others(t) /\ transfer'[t].pc \in {"idle", "last"}
      <3>1. CASE RefuseBytes(t)
        BY <1>0, <3>1, IdleRow, RowMoves DEF RefuseBytes
      <3>2. CASE ReturnSlot(t)
        BY <1>0, <3>2, GoMoves DEF ReturnSlot, Phases
      <3> QED BY <1>2, <3>1, <3>2
    <2>2. Slotted' = Slotted \ {t}
      BY <1>0, <2>1, SlottedMoves
    <2>3. t \in Slotted
      BY <1>2 DEF Slotted, RefuseBytes, ReturnSlot
    <2>4. IsFiniteSet(Slotted') /\ Cardinality(Slotted') = Cardinality(Slotted) - 1
      BY <1>c, <2>2, <2>3, Departed
    <2>5. slots' = slots + 1
      BY <1>2 DEF RefuseBytes, ReturnSlot
    <2> QED BY <1>0, <1>c, <2>4, <2>5 DEF SlotsOK
  <1>3. ASSUME NEW t \in Transfers, ReturnBytes(t)
        PROVE  SlotsOK'
    <2>1. Others(t) /\ transfer'[t].pc = "idle"
      BY <1>0, <1>3, IdleRow, RowMoves DEF ReturnBytes
    <2>2. Slotted' = Slotted /\ slots' = slots
      BY <1>0, <1>3, <2>1, SlottedMoves DEF Slotted, ReturnBytes
    <2> QED BY <1>0, <2>2 DEF SlotsOK
  <1>4. ASSUME NEW t \in Transfers,
               \/ TakeBytes(t) \/ TakeClaim(t) \/ LockFile(t) \/ Receive(t) \/ Store(t)
               \/ Unlink(t) \/ ReturnClaim(t)
        PROVE  SlotsOK'
    <2>1. /\ \E p \in Phases \ {"idle", "last"} : Go(t, p)
          /\ slots' = slots /\ transfer[t].pc \notin {"idle", "last"}
      BY <1>4 DEF TakeBytes, TakeClaim, LockFile, Receive, Store, Unlink, ReturnClaim, Phases, Put
    <2>2. Others(t) /\ transfer'[t].pc \notin {"idle", "last"}
      BY <1>0, <2>1, GoMoves
    <2>3. Slotted' = Slotted
      BY <1>0, <2>1, <2>2, SlottedMoves DEF Slotted
    <2> QED BY <1>0, <2>1, <2>3 DEF SlotsOK
  <1>5. CASE Restarted
    <2>1. Slotted' = {} /\ slots' = SlotLimit
      BY <1>5, IdleRow DEF Restarted, Slotted
    <2>2. IsFiniteSet(Slotted') /\ Cardinality(Slotted') = 0
      BY <2>1, FS_EmptySet
    <2> QED BY <2>1, <2>2, SpoolAssumption DEF SlotsOK
  <1>6. CASE UNCHANGED spool
    <2>1. Slotted' = Slotted /\ slots' = slots
      BY <1>6 DEF spool, Slotted
    <2> QED BY <1>0, <2>1 DEF SlotsOK
  <1> QED BY <1>1, <1>2, <1>3, <1>4, <1>5, <1>6 DEF SpoolStep, Proceed

LEMMA KeepsBytes ==
  ASSUME SpoolInv, SpoolStep
  PROVE  BytesOK'
  <1>0. SpoolTypes /\ BytesOK
    BY DEF SpoolInv
  <1>c. /\ bytes \in Nat /\ Capacity \in Nat /\ Capacity' = Capacity
        /\ IsFiniteSet(Taken) /\ Cardinality(Taken) \in Nat
    BY <1>0, CapacityTyped, FS_CardinalityType DEF SpoolTypes, BytesOK, Capacity
  <1>u. \A t \in Transfers : Units(transfer[t].size) \in Nat
    BY <1>0, UnitsTyped DEF SpoolTypes
  <1>1. ASSUME NEW t \in Transfers, TakeBytes(t)
        PROVE  BytesOK'
    <2>1. Others(t) /\ transfer'[t].pc = "admitted" /\ transfer'[t].size = transfer[t].size
      BY <1>0, <1>1, GoMoves DEF TakeBytes, Phases
    <2>2. Reserved(t)' /\ ~Reserved(t)
      BY <1>1, <2>1 DEF TakeBytes, Reserved
    <2>3. Taken' = Taken \cup Paid(t) /\ Paid(t) \cap Taken = {}
      BY <1>0, <2>1, <2>2, TakenMoves, TakenApart
    <2>4. IsFiniteSet(Paid(t)) /\ Cardinality(Paid(t)) = Units(transfer[t].size)
      BY <1>0, PaidCounted
    <2>5. /\ IsFiniteSet(Taken')
          /\ Cardinality(Taken') = Cardinality(Taken) + Cardinality(Paid(t))
      BY <1>c, <2>3, <2>4, JoinedMany
    <2>6. bytes' = bytes - Units(transfer[t].size)
      BY <1>1 DEF TakeBytes
    <2> QED BY <1>0, <1>c, <1>u, <2>4, <2>5, <2>6 DEF BytesOK
  <1>2. ASSUME NEW t \in Transfers, ReturnBytes(t)
        PROVE  BytesOK'
    <2>1. Others(t) /\ transfer'[t].pc = "idle"
      BY <1>0, <1>2, IdleRow, RowMoves DEF ReturnBytes
    <2>2. ~Reserved(t)' /\ Reserved(t)
      BY <1>2, <2>1 DEF ReturnBytes, Reserved
    <2>3. Taken' = Taken \ Paid(t) /\ Paid(t) \subseteq Taken
      BY <1>0, <2>1, <2>2, TakenMoves, TakenApart
    <2>4. IsFiniteSet(Paid(t)) /\ Cardinality(Paid(t)) = Units(transfer[t].size)
      BY <1>0, PaidCounted
    <2>5. /\ IsFiniteSet(Taken')
          /\ Cardinality(Taken') = Cardinality(Taken) - Cardinality(Paid(t))
      BY <1>c, <2>3, <2>4, DepartedMany
    <2>6. bytes' = bytes + Units(transfer[t].size)
      BY <1>2 DEF ReturnBytes
    <2> QED BY <1>0, <1>c, <1>u, <2>4, <2>5, <2>6 DEF BytesOK
  <1>3. ASSUME NEW t \in Transfers, Request(t) \/ RefuseBytes(t)
        PROVE  BytesOK'
    <2>1. /\ Others(t) /\ transfer'[t].pc \in {"idle", "slot"}
          /\ transfer[t].pc \in {"idle", "slot"} /\ bytes' = bytes
      <3>1. ASSUME NEW r \in Requests, TakeSlot(t, r)
            PROVE  /\ Others(t) /\ transfer'[t].pc = "slot"
                   /\ transfer[t].pc = "idle" /\ bytes' = bytes
        <4>1. Others(t) /\ transfer'[t] = [pc |-> "slot", file |-> r.file, size |-> r.size]
          BY <1>0, <3>1, RequestRow, RowMoves DEF TakeSlot
        <4> QED BY <3>1, <4>1 DEF TakeSlot
      <3>2. CASE RefuseBytes(t)
        BY <1>0, <3>2, IdleRow, RowMoves DEF RefuseBytes
      <3> QED BY <1>3, <3>1, <3>2 DEF Request
    <2>2. ~Reserved(t)' /\ ~Reserved(t)
      BY <2>1 DEF Reserved
    <2>3. Taken' = Taken
      BY <1>0, <2>1, <2>2, TakenMoves
    <2> QED BY <1>0, <1>c, <2>1, <2>3 DEF BytesOK
  <1>4. ASSUME NEW t \in Transfers,
               \/ TakeClaim(t) \/ LockFile(t) \/ Receive(t) \/ Store(t)
               \/ Unlink(t) \/ ReturnClaim(t) \/ ReturnSlot(t)
        PROVE  BytesOK'
    <2>1. /\ \E p \in Phases \ {"idle", "slot"} : Go(t, p)
          /\ bytes' = bytes /\ transfer[t].pc \notin {"idle", "slot"}
      BY <1>4 DEF TakeClaim, LockFile, Receive, Store, Unlink, ReturnClaim, ReturnSlot, Phases, Put
    <2>2. /\ Others(t) /\ transfer'[t].pc \notin {"idle", "slot"}
          /\ transfer'[t].size = transfer[t].size
      BY <1>0, <2>1, GoMoves
    <2>3. Reserved(t)' /\ Reserved(t)
      BY <2>1, <2>2 DEF Reserved
    <2>4. Taken' = Taken
      BY <1>0, <2>2, <2>3, TakenMoves
    <2> QED BY <1>0, <1>c, <2>1, <2>4 DEF BytesOK
  <1>5. CASE Restarted
    <2>1. Taken' = {} /\ bytes' = Capacity
      BY <1>5, IdleRow DEF Restarted, Taken, Reserved
    <2>2. IsFiniteSet(Taken') /\ Cardinality(Taken') = 0
      BY <2>1, FS_EmptySet
    <2> QED BY <1>c, <2>1, <2>2 DEF BytesOK
  <1>6. CASE UNCHANGED spool
    <2>1. Taken' = Taken /\ bytes' = bytes
      BY <1>6 DEF spool, Taken, Reserved, Units
    <2> QED BY <1>0, <1>c, <2>1 DEF BytesOK
  <1> QED BY <1>1, <1>2, <1>3, <1>4, <1>5, <1>6 DEF SpoolStep, Proceed

LEMMA KeepsClaims ==
  ASSUME SpoolInv, SpoolStep
  PROVE  ClaimsOK'
  <1>0. SpoolTypes /\ ClaimsOK
    BY DEF SpoolInv
  <1>c. /\ claims \in Nat /\ ClaimLimit \in Nat
        /\ IsFiniteSet(Claiming) /\ Cardinality(Claiming) \in Nat
    BY <1>0, SpoolAssumption, FS_CardinalityType DEF SpoolTypes, ClaimsOK
  <1> DEFINE Within == {"promoted", "locked", "receiving", "storing", "unlinked"}
  <1>1. ASSUME NEW t \in Transfers, TakeClaim(t)
        PROVE  ClaimsOK'
    <2>1. Others(t) /\ transfer'[t].pc = "promoted" /\ transfer'[t].file = transfer[t].file
      BY <1>0, <1>1, GoMoves DEF TakeClaim, Phases
    <2>2. Claiming' = Claiming \cup {t} /\ t \notin Claiming
      BY <1>0, <1>1, <2>1, ClaimingMoves DEF Claiming, TakeClaim, Put
    <2>3. IsFiniteSet(Claiming') /\ Cardinality(Claiming') = Cardinality(Claiming) + 1
      BY <1>c, <2>2, Joined
    <2>4. claims' = claims - 1
      BY <1>1 DEF TakeClaim
    <2> QED BY <1>0, <1>c, <2>3, <2>4 DEF ClaimsOK
  <1>2. ASSUME NEW t \in Transfers, ReturnClaim(t)
        PROVE  ClaimsOK'
    <2>1. Others(t) /\ transfer'[t].pc = "returning" /\ transfer'[t].file = transfer[t].file
      BY <1>0, <1>2, GoMoves DEF ReturnClaim, Phases
    <2>2. Claiming' = Claiming \ {t}
      BY <1>0, <2>1, ClaimingMoves
    <2>3. CASE Put(t)
      <3>1. t \in Claiming
        BY <1>2, <2>3 DEF Claiming, ReturnClaim
      <3>2. IsFiniteSet(Claiming') /\ Cardinality(Claiming') = Cardinality(Claiming) - 1
        BY <1>c, <2>2, <3>1, Departed
      <3>3. claims' = claims + 1
        BY <1>2, <2>3 DEF ReturnClaim
      <3> QED BY <1>0, <1>c, <3>2, <3>3 DEF ClaimsOK
    <2>4. CASE ~Put(t)
      <3>1. Claiming' = Claiming
        BY <2>2, <2>4 DEF Claiming
      <3>2. claims' = claims
        BY <1>c, <1>2, <2>4 DEF ReturnClaim
      <3> QED BY <1>0, <3>1, <3>2 DEF ClaimsOK
    <2> QED BY <2>3, <2>4
  <1>3. ASSUME NEW t \in Transfers, Others(t), claims' = claims,
               \/ transfer[t].pc \notin Within /\ transfer'[t].pc \notin Within
               \/ /\ transfer[t].pc \in Within /\ transfer'[t].pc \in Within
                  /\ transfer'[t].file = transfer[t].file
               \/ transfer[t].file = Nothing /\ transfer'[t].file = Nothing
        PROVE  ClaimsOK'
    <2>1. Claiming' = Claiming
      BY <1>0, <1>3, ClaimingMoves DEF Claiming, Put
    <2> QED BY <1>0, <1>3, <2>1 DEF ClaimsOK
  <1>4. ASSUME NEW t \in Transfers, Request(t)
        PROVE  ClaimsOK'
    <2>1. PICK r \in Requests : TakeSlot(t, r)
      BY <1>4 DEF Request
    <2>2. Others(t) /\ transfer'[t] = [pc |-> "slot", file |-> r.file, size |-> r.size]
      BY <1>0, <2>1, RequestRow, RowMoves DEF TakeSlot
    <2> QED BY <1>3, <2>1, <2>2 DEF TakeSlot
  <1>5. ASSUME NEW t \in Transfers, RefuseBytes(t) \/ ReturnBytes(t)
        PROVE  ClaimsOK'
    <2>1. Others(t) /\ transfer'[t].pc = "idle"
      BY <1>0, <1>5, IdleRow, RowMoves DEF RefuseBytes, ReturnBytes
    <2>2. claims' = claims /\ transfer[t].pc \notin Within
      BY <1>5 DEF RefuseBytes, ReturnBytes
    <2> QED BY <1>3, <2>1, <2>2
  <1>6. ASSUME NEW t \in Transfers, TakeBytes(t) \/ ReturnSlot(t)
        PROVE  ClaimsOK'
    <2>1. /\ \E p \in Phases \ Within : Go(t, p)
          /\ claims' = claims /\ transfer[t].pc \notin Within
      BY <1>6 DEF TakeBytes, ReturnSlot, Phases
    <2>2. Others(t) /\ transfer'[t].pc \notin Within
      BY <1>0, <2>1, GoMoves
    <2> QED BY <1>3, <2>1, <2>2
  <1>7. ASSUME NEW t \in Transfers, LockFile(t) \/ Store(t)
        PROVE  ClaimsOK'
    <2>1. /\ \E p \in Phases \cap Within : Go(t, p)
          /\ claims' = claims /\ transfer[t].pc \in Within
      BY <1>7 DEF LockFile, Store, Phases
    <2>2. Others(t) /\ transfer'[t].pc \in Within /\ transfer'[t].file = transfer[t].file
      BY <1>0, <2>1, GoMoves
    <2> QED BY <1>3, <2>1, <2>2
  <1>8. ASSUME NEW t \in Transfers, Receive(t)
        PROVE  ClaimsOK'
    <2>1. /\ Others(t) /\ transfer'[t].pc = "receiving" /\ transfer'[t].file = transfer[t].file
          /\ claims' = claims
      BY <1>0, <1>8, GoMoves DEF Receive, Phases
    <2>2. transfer[t].pc \in Within \/ transfer[t].file = Nothing
      BY <1>8 DEF Receive, Put
    <2> QED BY <1>3, <2>1, <2>2
  <1>9. ASSUME NEW t \in Transfers, Unlink(t)
        PROVE  ClaimsOK'
    <2>1. CASE transfer[t].pc = "admitted"
      <3>1. Others(t) /\ transfer'[t].pc = "returning" /\ claims' = claims
        BY <1>0, <1>9, <2>1, GoMoves DEF Unlink, Phases
      <3> QED BY <1>3, <2>1, <3>1
    <2>2. CASE transfer[t].pc # "admitted"
      <3>1. /\ Others(t) /\ transfer'[t].pc = "unlinked" /\ claims' = claims
            /\ transfer'[t].file = transfer[t].file
        BY <1>0, <1>9, <2>2, GoMoves DEF Unlink, Phases
      <3>2. transfer[t].pc \in Within
        BY <1>9, <2>2 DEF Unlink
      <3> QED BY <1>3, <3>1, <3>2
    <2> QED BY <2>1, <2>2
  <1>10. CASE Restarted
    <2>1. Claiming' = {} /\ claims' = ClaimLimit
      BY <1>10, IdleRow DEF Restarted, Claiming, Put
    <2>2. IsFiniteSet(Claiming') /\ Cardinality(Claiming') = 0
      BY <2>1, FS_EmptySet
    <2> QED BY <2>1, <2>2, SpoolAssumption DEF ClaimsOK
  <1>11. CASE UNCHANGED spool
    <2>1. Claiming' = Claiming /\ claims' = claims
      BY <1>11 DEF spool, Claiming, Put
    <2> QED BY <1>0, <2>1 DEF ClaimsOK
  <1> QED BY <1>1, <1>2, <1>4, <1>5, <1>6, <1>7, <1>8, <1>9, <1>10, <1>11 DEF SpoolStep, Proceed

-------------------------------------------------------------------------------
(* The theorem.                                                                *)

LEMMA InitSpool == ServerInit => SpoolInv
  <1> SUFFICES ASSUME ServerInit PROVE SpoolInv
    OBVIOUS
  <1>1. /\ slots = SlotLimit /\ bytes = Capacity /\ claims = ClaimLimit
        /\ transfer = [t \in Transfers |-> Idle] /\ disk = [t \in Transfers |-> 0]
    BY DEF ServerInit, Init
  <1>2. transfer \in [Transfers -> Rows]
    BY <1>1, IdleRow
  <1>3. SpoolTypes
    BY <1>1, <1>2, CapacityTyped, SpoolAssumption DEF SpoolTypes, Rows
  <1>4. Taken = {} /\ Slotted = {} /\ Claiming = {}
    BY <1>1, IdleRow DEF Taken, Reserved, Slotted, Claiming, Put
  <1>5. DiskDeclared
    BY <1>1 DEF DiskDeclared
  <1>6. BytesOK /\ SlotsOK /\ ClaimsOK
    BY <1>1, <1>4, FS_EmptySet, CapacityTyped, SpoolAssumption DEF BytesOK, SlotsOK, ClaimsOK
  <1> QED BY <1>3, <1>5, <1>6 DEF SpoolInv

LEMMA SpoolSteps == SpoolInv /\ [Next]_vars => SpoolInv'
  BY ServerSteps, KeepsTypes, KeepsDeclared, KeepsBytes, KeepsSlots, KeepsClaims DEF SpoolInv

(* What the temporary files hold stays within the configured budget, whatever  *)
(* uploads come, fail or are cut off and however often the process restarts,   *)
(* and every permit is either free or held by the one upload that took it      *)
(* (spool.rs, SpoolBudget).                                                    *)
THEOREM BudgetKept == Spec => []SpoolWithinBudget
  <1>1. SpoolInv => SpoolWithinBudget
    BY DiskCovered DEF SpoolInv, BytesOK, SlotsOK, ClaimsOK, SpoolWithinBudget
  <1> QED BY <1>1, InitSpool, SpoolSteps, PTL DEF Spec
===============================================================================
