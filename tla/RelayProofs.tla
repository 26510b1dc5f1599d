------------------------------ MODULE RelayProofs ------------------------------
(***************************************************************************)
(* The relay, for every set of connections, accounts, limits, chunk sizes  *)
(* and costs, and for both back ends.                                      *)
(*                                                                         *)
(* The inductive invariant is the type invariant and, for every pump,      *)
(* `PumpInv`: it is alive exactly while its connection relays, has no      *)
(* history before that, reports only for an account, and owes at most the  *)
(* chunk in its hand, from the debit to the end of the write.  Over the    *)
(* in-memory back end the pumps of one relay report one at a time          *)
(* (StaticInv), and of a relay that ends without an error one write at     *)
(* most is cut short (CutShortInv).                                        *)
(*                                                                         *)
(* The ledger that relays implement has an invariant of its own (Sound,    *)
(* account by account): while a balance is positive, everything debited    *)
(* was granted and the balance is the limit less that; once it is not, the *)
(* total debited has reached the limit and the total granted no longer     *)
(* moves.  What pumps hand on, or may hand on next, was granted            *)
(* (EntitledInv).                                                          *)
(***************************************************************************)
EXTENDS Relay, FiniteSetTheorems, TLAPS

\* The balance b, total s and granted total g of an account with limit l.
Sound(l, b, s, g) ==
    IF l = Unlimited THEN b = Unlimited
    ELSE /\ b # Unlimited
         /\ AtLeastZero(b) = AtLeastZero(l - s)
         /\ b > 0 => g = s
         /\ g = 0 \/ g < l

\* A debit is a natural number no larger than the largest i64
\* (src/auth.rs:240-247).
LEMMA DebitType ==
    ASSUME NEW bytes \in Nat, NEW cost \in Costs
    PROVE  Debit(bytes, cost) \in Debits /\ Debit(bytes, cost) \in Nat
  <1> DEFINE exact == Rounded(bytes, cost)
  <1>1. cost.num \in Int /\ cost.den \in Nat \ {0}
    BY DEF Costs
  <1>2. exact \in Int
    BY <1>1 DEF Rounded
  <1> HIDE DEF exact
  <1>3. Debit(bytes, cost) = IF exact <= 0 THEN 0
                             ELSE IF exact > MaxDebit THEN MaxDebit ELSE exact
    BY DEF exact, Debit
  <1> QED
    BY <1>2, <1>3, MeteringAssumption DEF Debits

\* A debit leaves a balance: whole, and never the mark of an unlimited account
\* unless it was one (src/auth.rs:248-253).
LEMMA ChargedType ==
    ASSUME NEW b \in Balances, NEW d \in Debits
    PROVE  /\ Charged(b, d) \in Balances
           /\ Charged(b, d) = Unlimited <=> b = Unlimited
           /\ b # Unlimited => Charged(b, d) \in Nat
  BY MeteringAssumption DEF Charged, AtLeastZero, Balances, Debits

\* One debit keeps one account sound: the arithmetic of src/auth.rs:391-401 and
\* of the SQL statement at :257-267.
LEMMA DebitKeepsSound ==
    ASSUME NEW l \in Balances, NEW b \in Balances, NEW s \in Nat, NEW g \in Nat,
           NEW d \in Debits, Sound(l, b, s, g)
    PROVE  Sound(l, Charged(b, d), s + d,
                 IF Exhausted(Charged(b, d)) THEN g ELSE g + d)
  <1>1. CASE l = Unlimited
    BY <1>1 DEF Sound, Charged
  <1>2. CASE l # Unlimited
    <2>1. /\ b \in Int /\ l \in Int /\ d \in Nat
          /\ b # Unlimited
      BY <1>2 DEF Sound, Balances, Debits
    <2>2. Charged(b, d) = AtLeastZero(b - d) /\ AtLeastZero(b - d) # Unlimited
      BY <2>1, MeteringAssumption DEF Charged, AtLeastZero
    <2>3. AtLeastZero(AtLeastZero(b - d)) = AtLeastZero(l - (s + d))
      BY <1>2, <2>1 DEF Sound, AtLeastZero
    <2>4. ASSUME b - d > 0
          PROVE  g + d = s + d /\ g + d < l
      BY <1>2, <2>1, <2>4 DEF Sound, AtLeastZero
    <2> QED
      BY <1>2, <2>1, <2>2, <2>3, <2>4 DEF Sound, Exhausted, AtLeastZero
  <1> QED
    BY <1>1, <1>2

-------------------------------------------------------------------------------

\* Connection c with status s, one of its pumps p, and what that pump was
\* debited for, has handed on and has written.
PumpInv(c, s, p, debited, handedOn, done) ==
    /\ p.pc \in {"report", "answer", "orphan"} => Metered(c)
    /\ s = "relaying" <=> p.pc \notin {"stopped", "orphan"}
    /\ s = "accepted" => p.pc = "stopped" /\ debited = handedOn /\ handedOn = done
    /\ p.pc \in {"read", "report", "write", "orphan"} => debited = handedOn
    /\ p.pc = "answer" => debited = handedOn + Price(c, p.bytes)
    /\ p.pc \in {"read", "report", "answer", "orphan"} => handedOn = done
    /\ p.pc = "write" => IF Metered(c) THEN handedOn = done + Price(c, p.bytes)
                        ELSE handedOn = done
    /\ p.pc = "stopped" =>
          /\ debited = handedOn \/ handedOn = done
          /\ debited = handedOn \/ \E bytes \in Chunks : debited = handedOn + Price(c, bytes)
          /\ handedOn = done \/ \E bytes \in Chunks : handedOn = done + Price(c, bytes)

RelayInv ==
    /\ TypeOK
    /\ \A c \in Conns, d \in Dirs :
          PumpInv(c, status[c], pump[c][d], paid[c][d], passed[c][d], written[c][d])

-------------------------------------------------------------------------------

\* The price of a chunk is a debit.
LEMMA PriceType ==
    ASSUME NEW c \in Conns, NEW bytes \in Chunks
    PROVE  Price(c, bytes) \in Debits /\ Price(c, bytes) \in Nat
  BY DebitType, RelayAssumption DEF Price

\* The parts of a pump's record.
LEMMA PumpParts ==
    ASSUME NEW p \in Pumps
    PROVE  /\ p.pc \in {"report", "orphan", "write", "answer"} => p.bytes \in Chunks
           /\ p.pc = "answer" => p.left \in Nat \cup {Unlimited}
           /\ p.pc \in {"read", "stopped", "report", "orphan", "write", "answer"}
  BY DEF Pumps

\* The states a pump can be put in.
LEMMA PumpsMade ==
    /\ Reading \in Pumps /\ Reading.pc = "read"
    /\ Stopped \in Pumps /\ Stopped.pc = "stopped"
    /\ \A bytes \in Chunks, pc \in {"report", "orphan", "write"} :
          [pc |-> pc, bytes |-> bytes] \in Pumps
    /\ \A bytes \in Chunks, left \in Nat \cup {Unlimited} :
          [pc |-> "answer", bytes |-> bytes, left |-> left] \in Pumps
  BY DEF Reading, Stopped, Pumps

\* Only pump (c, d) moves: the invariant of all pumps follows from its own.
LEMMA OnePumpMoves ==
    ASSUME RelayInv, TypeOK', NEW c \in Conns, NEW d \in Dirs, NEW p,
           status' = status,
           pump' = [pump EXCEPT ![c][d] = p],
           \A b \in Conns, e \in Dirs : b # c \/ e # d =>
              /\ paid'[b][e] = paid[b][e] /\ passed'[b][e] = passed[b][e]
              /\ written'[b][e] = written[b][e],
           PumpInv(c, status[c], p, paid'[c][d], passed'[c][d], written'[c][d])
    PROVE  RelayInv'
  <1> SUFFICES ASSUME NEW b \in Conns, NEW e \in Dirs
               PROVE  PumpInv(b, status[b], pump[b][e], paid[b][e], passed[b][e], written[b][e])'
    BY DEF RelayInv
  <1>1. CASE b = c /\ e = d
    <2>1. pump'[b][e] = p
      BY <1>1 DEF RelayInv, TypeOK
    <2> QED
      BY <1>1, <2>1 DEF PumpInv
  <1>2. CASE b # c \/ e # d
    <2>1. pump'[b][e] = pump[b][e]
      BY <1>2 DEF RelayInv, TypeOK
    <2> QED
      BY <1>2, <2>1 DEF RelayInv, PumpInv
  <1> QED
    BY <1>1, <1>2

\* What Close leaves of one pump.
Dropped(p) == IF p.pc = "report" THEN [pc |-> "orphan", bytes |-> p.bytes] ELSE Stopped

\* Ending a relay drops both pumps and keeps the invariant
\* (src/protocols/proxy.rs:1024-1036).
LEMMA CloseKeepsInv ==
    ASSUME RelayInv, NEW c \in Conns, NEW why \in Endings, status[c] = "relaying",
           Close(c, why), UNCHANGED <<backend, counted, ledger, paid, passed, written>>
    PROVE  RelayInv'
  <1>1. \A e \in Dirs : pump[c][e] \in Pumps
    BY DEF RelayInv, TypeOK
  <1>2. \A e \in Dirs : Dropped(pump[c][e]) \in Pumps
    BY <1>1, PumpParts, PumpsMade DEF Dropped
  <1>3. pump' = [pump EXCEPT ![c] = [e \in Dirs |-> Dropped(pump[c][e])]]
    BY DEF Close, Dropped, RelayInv, TypeOK
  <1>4. status' = [status EXCEPT ![c] = why] /\ why \notin {"accepted", "relaying"}
    BY DEF Close, Endings
  <1>5. TypeOK'
    BY <1>2, <1>3, <1>4 DEF RelayInv, TypeOK, ledger
  <1>6. ASSUME NEW b \in Conns, NEW e \in Dirs
        PROVE  PumpInv(b, status[b], pump[b][e], paid[b][e], passed[b][e], written[b][e])'
    <2>1. PumpInv(b, status[b], pump[b][e], paid[b][e], passed[b][e], written[b][e])
      BY DEF RelayInv
    <2>2. CASE b = c
      <3>1. pump'[b][e] = Dropped(pump[c][e]) /\ status'[b] = why
        BY <1>3, <1>4, <2>2 DEF RelayInv, TypeOK
      <3>2. CASE pump[c][e].pc = "report"
        BY <1>4, <2>1, <2>2, <3>1, <3>2 DEF PumpInv, Dropped
      <3>3. CASE pump[c][e].pc # "report"
        BY <1>1, <1>4, <2>1, <2>2, <3>1, <3>3, PumpParts, PumpsMade
        DEF PumpInv, Dropped
      <3> QED
        BY <3>2, <3>3
    <2>3. CASE b # c
      <3>1. pump'[b][e] = pump[b][e] /\ status'[b] = status[b]
        BY <1>3, <1>4, <2>3 DEF RelayInv, TypeOK
      <3> QED
        BY <2>1, <3>1 DEF PumpInv
    <2> QED
      BY <2>2, <2>3
  <1> QED
    BY <1>5, <1>6 DEF RelayInv

-------------------------------------------------------------------------------

\* A debit keeps the types of the ledger and is added to what its pump paid.
LEMMA DebitedType ==
    ASSUME RelayInv, NEW c \in Conns, NEW d \in Dirs, Metered(c),
           pump[c][d].pc \in {"report", "orphan"}, Debited(c, d)
    PROVE  /\ Price(c, pump[c][d].bytes) \in Nat
           /\ Balance(c, d) \in Nat \cup {Unlimited}
           /\ remaining' \in [Accounts -> Balances]
           /\ spent' \in [Accounts -> Nat]
           /\ granted' \in [Accounts -> Nat]
           /\ paid' = [paid EXCEPT ![c][d] = @ + Price(c, pump[c][d].bytes)]
           /\ paid' \in [Conns -> [Dirs -> Nat]]
  <1> DEFINE price == Price(c, pump[c][d].bytes)
  <1>1. Owner[c] \in Accounts
    BY RelayAssumption DEF Metered
  <1>2. pump[c][d].bytes \in Chunks
    BY PumpParts DEF RelayInv, TypeOK
  <1>3. price \in Debits /\ price \in Nat
    BY <1>2, PriceType
  <1>4. Balance(c, d) \in Nat \cup {Unlimited}
    BY <1>1, <1>3, ChargedType DEF Balance, RelayInv, TypeOK
  <1>5. Balance(c, d) \in Balances
    BY <1>4 DEF Balances
  <1> HIDE DEF price
  <1>6. paid' = [paid EXCEPT ![c][d] = @ + price]
    BY DEF Debited, price
  <1>7. paid' \in [Conns -> [Dirs -> Nat]]
    BY <1>3, <1>6 DEF RelayInv, TypeOK
  <1>8. remaining' \in [Accounts -> Balances]
    BY <1>5 DEF Debited, RelayInv, TypeOK
  <1>9. spent' \in [Accounts -> Nat] /\ granted' \in [Accounts -> Nat]
    BY <1>1, <1>3 DEF Debited, RelayInv, TypeOK, price
  <1> QED
    BY <1>3, <1>4, <1>6, <1>7, <1>8, <1>9 DEF price

\* A debit changes what pump (c, d) paid and nothing else of any pump.
LEMMA CommitKeepsInv ==
    ASSUME RelayInv, NEW c \in Conns, NEW d \in Dirs, Commit(c, d)
    PROVE  RelayInv'
  <1> DEFINE price == Price(c, pump[c][d].bytes)
             next  == [pc |-> "answer", bytes |-> pump[c][d].bytes,
                       left |-> Balance(c, d)]
  <1>1. /\ pump[c][d] \in Pumps
        /\ PumpInv(c, status[c], pump[c][d], paid[c][d], passed[c][d], written[c][d])
    BY DEF RelayInv, TypeOK
  <1>2. pump[c][d].pc = "report" /\ status[c] = "relaying" /\ Metered(c)
    BY <1>1 DEF Commit, At, PumpInv
  <1>3. /\ price \in Nat
        /\ Balance(c, d) \in Nat \cup {Unlimited}
        /\ remaining' \in [Accounts -> Balances]
        /\ spent' \in [Accounts -> Nat]
        /\ granted' \in [Accounts -> Nat]
        /\ paid' = [paid EXCEPT ![c][d] = @ + price]
        /\ paid' \in [Conns -> [Dirs -> Nat]]
    BY <1>2, DebitedType DEF Commit
  <1>4. pump[c][d].bytes \in Chunks
    BY <1>1, <1>2, PumpParts
  <1>5. next \in Pumps
    BY <1>3, <1>4, PumpsMade
  <1>6. pump' = [pump EXCEPT ![c][d] = next]
    BY DEF Commit, RelayInv, TypeOK
  <1>7. TypeOK'
    BY <1>3, <1>5, <1>6 DEF Commit, RelayInv, TypeOK
  <1>8. /\ paid'[c][d] = paid[c][d] + price
        /\ passed'[c][d] = passed[c][d] /\ written'[c][d] = written[c][d]
        /\ \A b \in Conns, e \in Dirs : b # c \/ e # d =>
              /\ paid'[b][e] = paid[b][e] /\ passed'[b][e] = passed[b][e]
              /\ written'[b][e] = written[b][e]
    BY <1>3 DEF Commit, RelayInv, TypeOK
  <1>9. PumpInv(c, status[c], next, paid'[c][d], passed'[c][d], written'[c][d])
    BY <1>1, <1>2, <1>8 DEF PumpInv
  <1>10. status' = status
    BY DEF Commit
  <1> HIDE DEF next
  <1> QED
    BY <1>6, <1>7, <1>8, <1>9, <1>10, OnePumpMoves

\* The same for a query whose pump is gone: one chunk is lost.
LEMMA CommitLateKeepsInv ==
    ASSUME RelayInv, NEW c \in Conns, NEW d \in Dirs, CommitLate(c, d)
    PROVE  RelayInv'
  <1> DEFINE price == Price(c, pump[c][d].bytes)
  <1>1. /\ pump[c][d] \in Pumps
        /\ PumpInv(c, status[c], pump[c][d], paid[c][d], passed[c][d], written[c][d])
    BY DEF RelayInv, TypeOK
  <1>2. pump[c][d].pc = "orphan" /\ status[c] # "relaying" /\ Metered(c)
    BY <1>1 DEF CommitLate, PumpInv
  <1>3. /\ price \in Nat
        /\ remaining' \in [Accounts -> Balances]
        /\ spent' \in [Accounts -> Nat]
        /\ granted' \in [Accounts -> Nat]
        /\ paid' = [paid EXCEPT ![c][d] = @ + price]
        /\ paid' \in [Conns -> [Dirs -> Nat]]
    BY <1>2, DebitedType DEF CommitLate
  <1>4. pump[c][d].bytes \in Chunks
    BY <1>1, <1>2, PumpParts
  <1>5. TypeOK'
    BY <1>3, PumpsMade DEF CommitLate, RelayInv, TypeOK
  <1>6. /\ paid'[c][d] = paid[c][d] + price
        /\ passed'[c][d] = passed[c][d] /\ written'[c][d] = written[c][d]
        /\ \A b \in Conns, e \in Dirs : b # c \/ e # d =>
              /\ paid'[b][e] = paid[b][e] /\ passed'[b][e] = passed[b][e]
              /\ written'[b][e] = written[b][e]
    BY <1>3 DEF CommitLate, RelayInv, TypeOK
  <1>7. PumpInv(c, status[c], Stopped, paid'[c][d], passed'[c][d], written'[c][d])
    BY <1>1, <1>2, <1>4, <1>6, PumpsMade DEF PumpInv
  <1> QED
    BY <1>5, <1>6, <1>7, OnePumpMoves DEF CommitLate

\* Handing a chunk on settles what its pump owes.
LEMMA GrantedKeepsInv ==
    ASSUME RelayInv, NEW c \in Conns, NEW d \in Dirs, Granted(c, d)
    PROVE  RelayInv'
  <1> DEFINE price == Price(c, pump[c][d].bytes)
             next  == [pc |-> "write", bytes |-> pump[c][d].bytes]
  <1>1. /\ pump[c][d] \in Pumps
        /\ PumpInv(c, status[c], pump[c][d], paid[c][d], passed[c][d], written[c][d])
    BY DEF RelayInv, TypeOK
  <1>2. pump[c][d].pc = "answer" /\ status[c] = "relaying"
    BY DEF Granted, At
  <1>3. pump[c][d].bytes \in Chunks
    BY <1>1, <1>2, PumpParts
  <1>4. price \in Nat
    BY <1>3, PriceType
  <1>5. next \in Pumps
    BY <1>3, PumpsMade
  <1>6. pump' = [pump EXCEPT ![c][d] = next]
    BY DEF Granted, RelayInv, TypeOK
  <1> HIDE DEF price
  <1>7. passed' = [passed EXCEPT ![c][d] = @ + price]
    BY DEF Granted, price
  <1>8. TypeOK'
    BY <1>4, <1>5, <1>6, <1>7 DEF Granted, ledger, RelayInv, TypeOK
  <1>9. /\ paid'[c][d] = paid[c][d]
        /\ passed'[c][d] = passed[c][d] + price /\ written'[c][d] = written[c][d]
        /\ \A b \in Conns, e \in Dirs : b # c \/ e # d =>
              /\ paid'[b][e] = paid[b][e] /\ passed'[b][e] = passed[b][e]
              /\ written'[b][e] = written[b][e]
    BY <1>7 DEF Granted, RelayInv, TypeOK
  <1>10. PumpInv(c, status[c], next, paid'[c][d], passed'[c][d], written'[c][d])
    <2>1. Metered(c) /\ next.pc = "write" /\ next.bytes = pump[c][d].bytes
      BY <1>1, <1>2 DEF PumpInv
    <2> HIDE DEF next
    <2>2. paid[c][d] = passed[c][d] + price /\ passed[c][d] = written[c][d]
      BY <1>1, <1>2 DEF PumpInv, price
    <2> QED
      BY <1>2, <1>9, <2>1, <2>2 DEF PumpInv, price
  <1>11. status' = status
    BY DEF Granted
  <1> HIDE DEF next
  <1> QED
    BY <1>6, <1>8, <1>9, <1>10, <1>11, OnePumpMoves

\* Reads and completed writes move one pump and no money.
LEMMA ReadKeepsInv ==
    ASSUME RelayInv, NEW c \in Conns, NEW d \in Dirs, NEW bytes \in Chunks,
           Read(c, d, bytes)
    PROVE  RelayInv'
  <1> DEFINE next == [pc |-> IF Metered(c) THEN "report" ELSE "write", bytes |-> bytes]
  <1>1. PumpInv(c, status[c], pump[c][d], paid[c][d], passed[c][d], written[c][d])
    BY DEF RelayInv
  <1>2. pump[c][d].pc = "read" /\ status[c] = "relaying"
    BY DEF Read, At
  <1>3. next \in Pumps
    BY PumpsMade
  <1>4. pump' = [pump EXCEPT ![c][d] = next]
    BY DEF Read
  <1>5. counted' \in [Dirs -> 0 .. MaxBytes]
    BY RelayAssumption DEF Read, RelayInv, TypeOK
  <1>6. TypeOK'
    BY <1>3, <1>4, <1>5 DEF Read, ledger, RelayInv, TypeOK
  <1>7. PumpInv(c, status[c], next, paid[c][d], passed[c][d], written[c][d])
    BY <1>1, <1>2 DEF PumpInv
  <1> HIDE DEF next
  <1> QED
    BY <1>4, <1>6, <1>7, OnePumpMoves DEF Read

LEMMA WrittenKeepsInv ==
    ASSUME RelayInv, NEW c \in Conns, NEW d \in Dirs, Written(c, d)
    PROVE  RelayInv'
  <1> DEFINE price == Price(c, pump[c][d].bytes)
  <1>1. /\ pump[c][d] \in Pumps
        /\ PumpInv(c, status[c], pump[c][d], paid[c][d], passed[c][d], written[c][d])
    BY DEF RelayInv, TypeOK
  <1>2. pump[c][d].pc = "write" /\ status[c] = "relaying"
    BY DEF Written, At
  <1>3. price \in Nat
    BY <1>1, <1>2, PumpParts, PriceType
  <1> HIDE DEF price
  <1>4. written' = IF Metered(c) THEN [written EXCEPT ![c][d] = @ + price] ELSE written
    BY DEF Written, price
  <1>5. UNCHANGED <<backend, status, counted, ledger, paid, passed>>
    BY DEF Written
  <1>6. pump' = [pump EXCEPT ![c][d] = Reading]
    BY DEF Written
  <1>7. written' \in [Conns -> [Dirs -> Nat]]
    BY <1>3, <1>4 DEF RelayInv, TypeOK
  <1>8. TypeOK'
    BY <1>5, <1>6, <1>7, PumpsMade DEF ledger, RelayInv, TypeOK
  <1>9. /\ written'[c][d] = IF Metered(c) THEN written[c][d] + price ELSE written[c][d]
        /\ \A b \in Conns, e \in Dirs : b # c \/ e # d => written'[b][e] = written[b][e]
    BY <1>4 DEF RelayInv, TypeOK
  <1>10. paid[c][d] = passed[c][d] /\ passed[c][d] = written'[c][d]
    BY <1>1, <1>2, <1>9 DEF PumpInv, price
  <1>11. PumpInv(c, status[c], Reading, paid'[c][d], passed'[c][d], written'[c][d])
    BY <1>2, <1>5, <1>10, PumpsMade DEF PumpInv
  <1> QED
    BY <1>5, <1>6, <1>8, <1>9, <1>11, OnePumpMoves

LEMMA OrphanIsLostKeepsInv ==
    ASSUME RelayInv, NEW c \in Conns, NEW d \in Dirs, OrphanIsLost(c, d)
    PROVE  RelayInv'
  <1>1. PumpInv(c, status[c], pump[c][d], paid[c][d], passed[c][d], written[c][d])
    BY DEF RelayInv
  <1>2. pump[c][d].pc = "orphan"
    BY DEF OrphanIsLost
  <1>3. TypeOK'
    BY PumpsMade DEF OrphanIsLost, ledger, RelayInv, TypeOK
  <1>4. PumpInv(c, status[c], Stopped, paid[c][d], passed[c][d], written[c][d])
    BY <1>1, <1>2, PumpsMade DEF PumpInv
  <1> QED
    BY <1>3, <1>4, OnePumpMoves DEF OrphanIsLost

\* Admission starts both pumps; refusal starts none.
LEMMA AdmissionKeepsInv ==
    ASSUME RelayInv, NEW c \in Conns, Admit(c) \/ Refuse(c)
    PROVE  RelayInv'
  <1>1. \A e \in Dirs : PumpInv(c, status[c], pump[c][e], paid[c][e], passed[c][e], written[c][e])
    BY DEF RelayInv
  <1>2. \A e \in Dirs : pump[c][e] \in Pumps
    BY DEF RelayInv, TypeOK
  <1>3. CASE Admit(c)
    <2>1. TypeOK'
      BY <1>3, PumpsMade DEF Admit, ledger, RelayInv, TypeOK
    <2>2. ASSUME NEW b \in Conns, NEW e \in Dirs
          PROVE  PumpInv(b, status[b], pump[b][e], paid[b][e], passed[b][e], written[b][e])'
      <3>1. PumpInv(b, status[b], pump[b][e], paid[b][e], passed[b][e], written[b][e])
        BY DEF RelayInv
      <3>2. CASE b = c
        <4>1. pump'[b][e] = Reading /\ status'[b] = "relaying"
          BY <1>3, <3>2 DEF Admit, RelayInv, TypeOK
        <4>2. paid[b][e] = passed[b][e] /\ passed[b][e] = written[b][e]
          BY <1>3, <3>1, <3>2 DEF Admit, PumpInv
        <4> QED
          BY <1>3, <4>1, <4>2, PumpsMade DEF Admit, PumpInv
      <3>3. CASE b # c
        <4>1. pump'[b][e] = pump[b][e] /\ status'[b] = status[b]
          BY <1>3, <3>3 DEF Admit, RelayInv, TypeOK
        <4> QED
          BY <1>3, <3>1, <4>1 DEF Admit, PumpInv
      <3> QED
        BY <3>2, <3>3
    <2> QED
      BY <2>1, <2>2 DEF RelayInv
  <1>4. CASE Refuse(c)
    <2>1. TypeOK'
      BY <1>4 DEF Refuse, ledger, RelayInv, TypeOK
    <2>2. \A b \in Conns : status'[b] = "relaying" <=> status[b] = "relaying"
      BY <1>4 DEF Refuse, RelayInv, TypeOK
    <2> QED
      BY <1>4, <2>1, <2>2 DEF Refuse, RelayInv, PumpInv
  <1> QED
    BY <1>3, <1>4

\* Every step keeps the inductive invariant.
LEMMA RelayStep ==
    ASSUME RelayInv, [Next]_vars
    PROVE  RelayInv'
  <1>1. ASSUME NEW c \in Conns, Admit(c) \/ Refuse(c)
        PROVE  RelayInv'
    BY <1>1, AdmissionKeepsInv
  <1>2. ASSUME NEW c \in Conns, NEW d \in Dirs, NEW bytes \in Chunks, Read(c, d, bytes)
        PROVE  RelayInv'
    BY <1>2, ReadKeepsInv
  <1>3. ASSUME NEW c \in Conns, NEW d \in Dirs, Commit(c, d)
        PROVE  RelayInv'
    BY <1>3, CommitKeepsInv
  <1>4. ASSUME NEW c \in Conns, NEW d \in Dirs, CommitLate(c, d)
        PROVE  RelayInv'
    BY <1>4, CommitLateKeepsInv
  <1>5. ASSUME NEW c \in Conns, NEW d \in Dirs, Granted(c, d)
        PROVE  RelayInv'
    BY <1>5, GrantedKeepsInv
  <1>6. ASSUME NEW c \in Conns, NEW d \in Dirs, Written(c, d)
        PROVE  RelayInv'
    BY <1>6, WrittenKeepsInv
  <1>7. ASSUME NEW c \in Conns, NEW d \in Dirs, OrphanIsLost(c, d)
        PROVE  RelayInv'
    BY <1>7, OrphanIsLostKeepsInv
  <1>8. ASSUME NEW c \in Conns, NEW d \in Dirs,
               CutOff(c, d) \/ Eof(c, d) \/ IoFails(c, d) \/ QueryFails(c, d)
        PROVE  RelayInv'
    <2>1. /\ status[c] = "relaying"
          /\ UNCHANGED <<backend, counted, ledger, paid, passed, written>>
          /\ \E why \in Endings : Close(c, why)
      BY <1>8 DEF CutOff, Eof, IoFails, QueryFails, At, Endings
    <2> QED
      BY <2>1, CloseKeepsInv
  <1>9. CASE UNCHANGED vars
    BY <1>9 DEF RelayInv, TypeOK, PumpInv, vars, ledger
  <1> QED
    BY <1>1, <1>2, <1>3, <1>4, <1>5, <1>6, <1>7, <1>8, <1>9 DEF Next

LEMMA RelayInit ==
    ASSUME Init
    PROVE  RelayInv
  BY PumpsMade, RelayAssumption, LedgerAssumption DEF Init, RelayInv, TypeOK, PumpInv

THEOREM RelayInvariant == Spec => []RelayInv
  BY RelayInit, RelayStep, PTL DEF Spec

\* Every variable keeps its type.
THEOREM RelayTypeOK == Spec => []TypeOK
  <1>1. RelayInv => TypeOK
    BY DEF RelayInv
  <1> QED
    BY <1>1, RelayInvariant, PTL

\* A pump is alive exactly while its connection relays: select! leaves no pump
\* behind (src/protocols/proxy.rs:1024-1029).
THEOREM RelayPumpsMatchStatus == Spec => []PumpsMatchStatus
  <1>1. RelayInv => PumpsMatchStatus
    BY DEF RelayInv, PumpInv, PumpsMatchStatus
  <1> QED
    BY <1>1, RelayInvariant, PTL

\* "bounding overage to the chunk already in flight"
\* (src/protocols/proxy.rs:935-936), for either back end.
THEOREM RelayRisksOneChunk == Spec => []OneChunkAtRisk
  <1>1. ASSUME RelayInv
        PROVE  OneChunkAtRisk
    <2> SUFFICES ASSUME NEW c \in Conns, NEW d \in Dirs
                 PROVE  LET owing == paid[c][d] - written[c][d]
                        IN  /\ pump[c][d].pc \in {"read", "report", "orphan"} => owing = 0
                            /\ pump[c][d].pc = "answer"
                                  => owing = Price(c, pump[c][d].bytes)
                            /\ pump[c][d].pc = "write" /\ Metered(c)
                                  => owing = Price(c, pump[c][d].bytes)
                            /\ pump[c][d].pc = "stopped" =>
                                  owing = 0 \/ \E bytes \in Chunks : owing = Price(c, bytes)
      BY DEF OneChunkAtRisk
    <2>1. /\ PumpInv(c, status[c], pump[c][d], paid[c][d], passed[c][d], written[c][d])
          /\ pump[c][d] \in Pumps
          /\ paid[c][d] \in Nat /\ passed[c][d] \in Nat /\ written[c][d] \in Nat
      BY <1>1 DEF RelayInv, TypeOK
    <2>2. pump[c][d].pc \in {"answer", "write"} => Price(c, pump[c][d].bytes) \in Nat
      BY <2>1, PumpParts, PriceType
    <2>3. \A bytes \in Chunks : Price(c, bytes) \in Nat
      BY PriceType
    <2> QED
      BY <2>1, <2>2, <2>3 DEF PumpInv
  <1> QED
    BY <1>1, RelayInvariant, PTL

-------------------------------------------------------------------------------

\* A debit, on time or late, is one step of the ledger; every other step of the
\* relay leaves the ledger alone.
LEMMA LedgerStep ==
    ASSUME RelayInv, [Next]_vars
    PROVE  [Ledger!Next]_(Ledger!ledgerVars)
  <1>1. ASSUME NEW c \in Conns, NEW d \in Dirs, Commit(c, d) \/ CommitLate(c, d)
        PROVE  Ledger!Next
    <2>1. /\ PumpInv(c, status[c], pump[c][d], paid[c][d], passed[c][d], written[c][d])
          /\ pump[c][d] \in Pumps
      BY DEF RelayInv, TypeOK
    <2>2. Owner[c] \in Accounts /\ pump[c][d].bytes \in Chunks /\ Debited(c, d)
      BY <1>1, <2>1, PumpParts, RelayAssumption
      DEF Commit, CommitLate, At, PumpInv, Metered
    <2>3. Price(c, pump[c][d].bytes) \in Debits
      BY <2>2, PriceType
    <2>4. Ledger!Apply(Owner[c], Price(c, pump[c][d].bytes))
      BY <2>2 DEF Debited, Balance, Ledger!Apply, Charged, Ledger!Charged, AtLeastZero,
                  Ledger!AtLeastZero, Exhausted, Ledger!Exhausted
    <2> QED
      BY <2>2, <2>3, <2>4 DEF Ledger!Next, Ledger!Debits, Debits
  <1>2. CASE UNCHANGED ledger
    BY <1>2 DEF ledger, Ledger!ledgerVars
  <1>3. (\E c \in Conns, d \in Dirs : Commit(c, d) \/ CommitLate(c, d)) \/ UNCHANGED ledger
    BY DEF Next, Admit, Refuse, Read, Granted, CutOff, Written, Eof, IoFails,
           QueryFails, OrphanIsLost, vars, ledger
  <1> QED
    BY <1>1, <1>2, <1>3

\* Relays implement the ledger: every debit takes effect once and in one step,
\* whatever becomes of the connection (src/protocols/proxy.rs:930-940).
THEOREM RelayImplementsLedger == Spec => LedgerSpec
  <1>1. Init => Ledger!Init
    BY DEF Init, Ledger!Init
  <1> QED
    BY <1>1, RelayInvariant, LedgerStep, PTL DEF Spec, Ledger!Spec, LedgerSpec

\* The balance and totals of every account are in the relation that debits keep.
AccountsSound ==
    \A a \in Accounts : Sound(Limit[a], remaining[a], spent[a], granted[a])

LedgerInv == Ledger!TypeOK /\ AccountsSound

\* A step of the ledger keeps it.
LEMMA AccountsStaySound ==
    ASSUME LedgerInv, [Ledger!Next]_(Ledger!ledgerVars)
    PROVE  LedgerInv'
  <1>1. ASSUME NEW a \in Accounts, NEW debit \in Debits, Ledger!Apply(a, debit)
        PROVE  LedgerInv'
    <2> DEFINE left == Charged(remaining[a], debit)
    <2>1. /\ remaining[a] \in Balances /\ Limit[a] \in Balances
          /\ spent[a] \in Nat /\ granted[a] \in Nat /\ debit \in Nat
      BY LedgerAssumption DEF LedgerInv, Ledger!TypeOK, Ledger!Balances, Balances, Debits
    <2>2. Sound(Limit[a], left, spent[a] + debit,
                IF Exhausted(left) THEN granted[a] ELSE granted[a] + debit)
      BY <2>1, DebitKeepsSound DEF LedgerInv, AccountsSound
    <2>3. /\ remaining' = [remaining EXCEPT ![a] = left]
          /\ spent' = [spent EXCEPT ![a] = @ + debit]
          /\ granted' = IF Exhausted(left) THEN granted
                        ELSE [granted EXCEPT ![a] = @ + debit]
      BY <1>1 DEF Ledger!Apply, Charged, Ledger!Charged, AtLeastZero,
                  Ledger!AtLeastZero, Exhausted, Ledger!Exhausted
    <2>4. left \in Balances
      BY <2>1, ChargedType
    <2> HIDE DEF left
    <2>5. Ledger!TypeOK'
      BY <2>1, <2>3, <2>4 DEF LedgerInv, Ledger!TypeOK, Ledger!Balances, Balances
    <2>6. /\ remaining'[a] = left
          /\ spent'[a] = spent[a] + debit
          /\ granted'[a] = IF Exhausted(left) THEN granted[a] ELSE granted[a] + debit
      BY <2>3 DEF LedgerInv, Ledger!TypeOK
    <2>7. \A b \in Accounts : b # a => /\ remaining'[b] = remaining[b]
                                       /\ spent'[b] = spent[b]
                                       /\ granted'[b] = granted[b]
      BY <2>3 DEF LedgerInv, Ledger!TypeOK
    <2>8. Sound(Limit[a], remaining'[a], spent'[a], granted'[a])
      BY <2>2, <2>6
    <2>9. \A b \in Accounts : b # a =>
             Sound(Limit[b], remaining'[b], spent'[b], granted'[b])
      BY <2>7 DEF LedgerInv, AccountsSound
    <2> QED
      BY <2>5, <2>8, <2>9 DEF LedgerInv, AccountsSound, Sound
  <1>2. CASE UNCHANGED Ledger!ledgerVars
    BY <1>2 DEF LedgerInv, Ledger!TypeOK, AccountsSound, Sound, Ledger!ledgerVars
  <1> QED
    BY <1>1, <1>2 DEF Ledger!Next, Ledger!Debits, Debits

THEOREM LedgerInvariant == Ledger!Spec => []LedgerInv
  <1>1. Ledger!Init => LedgerInv
    BY LedgerAssumption, MeteringAssumption
    DEF Ledger!Init, LedgerInv, Ledger!TypeOK, Ledger!Balances, AccountsSound, Sound,
        AtLeastZero, Balances
  <1> QED
    BY <1>1, AccountsStaySound, PTL DEF Ledger!Spec

\* Floored debits never let a balance drift from the total debited
\* (src/auth.rs:265, :393), and an unlimited account stays unlimited.
THEOREM LedgerIsExact == Ledger!Spec => []Ledger!LedgerExact
  <1>1. LedgerInv => Ledger!LedgerExact
    BY DEF LedgerInv, AccountsSound, Sound, Ledger!LedgerExact, AtLeastZero,
           Ledger!AtLeastZero
  <1> QED
    BY <1>1, LedgerInvariant, PTL

\* What is granted against a limit stays below it (src/auth.rs:248-253,
\* src/protocols/proxy.rs:935-939).
THEOREM LedgerGrantsWithinLimit == Ledger!Spec => []Ledger!GrantedWithinLimit
  <1>1. LedgerInv => Ledger!GrantedWithinLimit
    BY MeteringAssumption DEF LedgerInv, AccountsSound, Sound, Ledger!GrantedWithinLimit
  <1> QED
    BY <1>1, LedgerInvariant, PTL

\* Whatever relays do, every balance is exactly the limit less the debits, and
\* the chunks that were granted cost less than the limit
\* (src/auth.rs:248-253, src/protocols/proxy.rs:935-939): relays implement the
\* ledger, and the ledger keeps both.
THEOREM RelayKeepsBalances == Spec => []BalancesHold
  <1>1. Ledger!LedgerExact /\ Ledger!GrantedWithinLimit => BalancesHold
    BY DEF BalancesHold
  <1>2. Spec => Ledger!Spec
    BY RelayImplementsLedger DEF LedgerSpec
  <1> QED
    BY <1>1, <1>2, LedgerIsExact, LedgerGrantsWithinLimit, PTL

-------------------------------------------------------------------------------

\* One connection over the in-memory back end, with status s and pumps p: no
\* query outlives its pump, one pump at most is between its read and its answer,
\* and one at most has lost a chunk, to the cut-off.
Alone(s, p, debited, handedOn) ==
    LET lost(d) == p[d].pc = "stopped" /\ debited[d] # handedOn[d]
    IN  \A d, e \in Dirs :
            /\ p[d].pc # "orphan"
            /\ p[d].pc \in {"report", "answer"} /\ p[e].pc \in {"report", "answer"} => d = e
            /\ lost(d) => s = "exhausted"
            /\ lost(d) /\ lost(e) => d = e

StaticInv ==
    backend = "static" => \A c \in Conns : Alone(status[c], pump[c], paid[c], passed[c])

\* Steps move one connection only.
LEMMA OneConnectionMoves ==
    ASSUME RelayInv, StaticInv, NEW c \in Conns, backend' = backend,
           \A b \in Conns : b # c => UNCHANGED <<status[b], pump[b], paid[b], passed[b]>>,
           backend = "static" => Alone(status'[c], pump'[c], paid'[c], passed'[c])
    PROVE  StaticInv'
  <1>1. ASSUME backend = "static", NEW b \in Conns
        PROVE  Alone(status'[b], pump'[b], paid'[b], passed'[b])
    BY <1>1 DEF StaticInv
  <1> QED
    BY <1>1 DEF StaticInv, Alone

\* A relay that ends while no pump waits for an answer has lost nothing, and one
\* that is cut off has lost the chunk of one pump.
LEMMA EndingsKeepStaticInv ==
    ASSUME RelayInv, StaticInv, NEW c \in Conns, NEW d \in Dirs,
           CutOff(c, d) \/ Eof(c, d) \/ IoFails(c, d) \/ QueryFails(c, d)
    PROVE  StaticInv'
  <1>1. /\ status[c] = "relaying"
        /\ UNCHANGED <<backend, paid, passed>>
        /\ \E why \in Endings : Close(c, why)
    BY DEF CutOff, Eof, IoFails, QueryFails, At, Endings
  <1>2. \A b \in Conns : b # c => UNCHANGED <<status[b], pump[b], paid[b], passed[b]>>
    BY <1>1 DEF Close, RelayInv, TypeOK
  <1>3. SUFFICES ASSUME backend = "static"
                 PROVE  Alone(status'[c], pump'[c], paid'[c], passed'[c])
    BY <1>1, <1>2, OneConnectionMoves
  <1>4. Alone(status[c], pump[c], paid[c], passed[c])
    BY <1>3 DEF StaticInv
  <1>5. \A e \in Dirs : pump[c][e].pc # "report"
    BY <1>3, <1>4 DEF CutOff, Eof, IoFails, QueryFails, At, TaskIsFree, Alone
  <1>6. \A e \in Dirs : pump'[c][e] = Stopped
    BY <1>1, <1>5 DEF Close, RelayInv, TypeOK
  <1>7. \A e \in Dirs : paid[c][e] # passed[c][e] => pump[c][e].pc = "answer"
    BY <1>1, PumpParts DEF RelayInv, PumpInv, TypeOK
  <1>8. CASE CutOff(c, d)
    <2>1. status'[c] = "exhausted" /\ pump[c][d].pc = "answer"
      BY <1>8 DEF CutOff, Close, At, RelayInv, TypeOK
    <2>2. \A e \in Dirs : paid[c][e] # passed[c][e] => e = d
      BY <1>4, <1>7, <2>1 DEF Alone
    <2> QED
      BY <1>1, <1>6, <2>1, <2>2 DEF Alone, Stopped
  <1>9. CASE Eof(c, d) \/ IoFails(c, d)
    <2>1. \A e \in Dirs : paid[c][e] = passed[c][e]
      BY <1>3, <1>7, <1>9 DEF Eof, IoFails, TaskIsFree
    <2> QED
      BY <1>1, <1>6, <2>1 DEF Alone, Stopped
  <1> QED
    BY <1>3, <1>8, <1>9 DEF QueryFails

\* A pump that goes on keeps it: it becomes busy only when its sibling is not.
LEMMA GoingOnKeepsStaticInv ==
    ASSUME RelayInv, StaticInv, NEW c \in Conns, NEW d \in Dirs, NEW p,
           UNCHANGED <<backend, status>>,
           pump' = [pump EXCEPT ![c][d] = p],
           \A b \in Conns, e \in Dirs : b # c \/ e # d =>
              paid'[b][e] = paid[b][e] /\ passed'[b][e] = passed[b][e],
           \A b \in Conns : b # c => UNCHANGED <<paid[b], passed[b]>>,
           p.pc \notin {"stopped", "orphan"},
           \/ p.pc \in {"read", "write"}
           \/ p.pc = "answer" /\ pump[c][d].pc = "report"
           \/ p.pc = "report" /\ TaskIsFree(c)
    PROVE  StaticInv'
  <1>1. \A b \in Conns : b # c => UNCHANGED <<status[b], pump[b], paid[b], passed[b]>>
    BY DEF RelayInv, TypeOK
  <1>2. pump'[c][d] = p /\ \A e \in Dirs : e # d => pump'[c][e] = pump[c][e]
    BY DEF RelayInv, TypeOK
  <1>3. ASSUME backend = "static"
        PROVE  Alone(status'[c], pump'[c], paid'[c], passed'[c])
    <2>1. Alone(status[c], pump[c], paid[c], passed[c])
      BY <1>3 DEF StaticInv
    <2>2. \A e \in Dirs : e # d => paid'[c][e] = paid[c][e] /\ passed'[c][e] = passed[c][e]
      OBVIOUS
    <2>3. p.pc \in {"report", "answer"} =>
             \A e \in Dirs : e # d => pump[c][e].pc \notin {"report", "answer"}
      BY <1>3, <2>1 DEF Alone, TaskIsFree
    <2> QED
      BY <1>2, <2>1, <2>2, <2>3 DEF Alone
  <1> QED
    BY <1>1, <1>3, OneConnectionMoves

\* Every step keeps it.
LEMMA StaticStep ==
    ASSUME RelayInv, StaticInv, [Next]_vars
    PROVE  StaticInv'
  <1>1. ASSUME NEW c \in Conns, Admit(c) \/ Refuse(c)
        PROVE  StaticInv'
    <2>1. UNCHANGED <<backend, paid, passed>> /\ status[c] = "accepted"
      BY <1>1 DEF Admit, Refuse
    <2>2. \A b \in Conns : b # c => UNCHANGED <<status[b], pump[b], paid[b], passed[b]>>
      BY <1>1, <2>1 DEF Admit, Refuse, RelayInv, TypeOK
    <2>3. \A d \in Dirs : /\ paid'[c][d] = passed'[c][d]
                          /\ pump'[c][d].pc \in {"read", "stopped"}
      BY <1>1, <2>1 DEF Admit, Refuse, RelayInv, TypeOK, PumpInv, Reading
    <2> QED
      BY <2>1, <2>2, <2>3, OneConnectionMoves DEF Alone
  <1>3. ASSUME NEW c \in Conns, NEW d \in Dirs, NEW bytes \in Chunks, Read(c, d, bytes)
        PROVE  StaticInv'
    <2> DEFINE p == [pc |-> IF Metered(c) THEN "report" ELSE "write", bytes |-> bytes]
    <2>1. /\ UNCHANGED <<backend, status, paid, passed>>
          /\ pump' = [pump EXCEPT ![c][d] = p]
          /\ TaskIsFree(c)
      BY <1>3 DEF Read
    <2>2. p.pc \in {"report", "write"}
      OBVIOUS
    <2> HIDE DEF p
    <2> QED
      BY <2>1, <2>2, GoingOnKeepsStaticInv
  <1>4. ASSUME NEW c \in Conns, NEW d \in Dirs, Commit(c, d) \/ Granted(c, d) \/ Written(c, d)
        PROVE  StaticInv'
    <2>1. /\ UNCHANGED <<backend, status>>
          /\ \A b \in Conns, e \in Dirs : b # c \/ e # d =>
                paid'[b][e] = paid[b][e] /\ passed'[b][e] = passed[b][e]
          /\ \A b \in Conns : b # c => UNCHANGED <<paid[b], passed[b]>>
      BY <1>4 DEF Commit, Granted, Written, Debited, RelayInv, TypeOK
    <2>2. CASE Commit(c, d)
      <3> DEFINE p == [pc |-> "answer", bytes |-> pump[c][d].bytes, left |-> Balance(c, d)]
      <3>1. pump' = [pump EXCEPT ![c][d] = p] /\ pump[c][d].pc = "report"
        BY <2>2 DEF Commit, At
      <3>2. p.pc = "answer"
        OBVIOUS
      <3> HIDE DEF p
      <3> QED
        BY <2>1, <3>1, <3>2, GoingOnKeepsStaticInv
    <2>3. CASE Granted(c, d)
      <3> DEFINE p == [pc |-> "write", bytes |-> pump[c][d].bytes]
      <3>1. pump' = [pump EXCEPT ![c][d] = p]
        BY <2>3 DEF Granted
      <3>2. p.pc = "write"
        OBVIOUS
      <3> HIDE DEF p
      <3> QED
        BY <2>1, <3>1, <3>2, GoingOnKeepsStaticInv
    <2>4. CASE Written(c, d)
      <3>1. pump' = [pump EXCEPT ![c][d] = Reading] /\ Reading.pc = "read"
        BY <2>4 DEF Written, Reading
      <3> QED
        BY <2>1, <3>1, GoingOnKeepsStaticInv
    <2> QED
      BY <1>4, <2>2, <2>3, <2>4
  <1>5. ASSUME NEW c \in Conns, NEW d \in Dirs, CommitLate(c, d) \/ OrphanIsLost(c, d)
        PROVE  StaticInv'
    BY <1>5 DEF CommitLate, OrphanIsLost, StaticInv, Alone
  <1>6. ASSUME NEW c \in Conns, NEW d \in Dirs,
               CutOff(c, d) \/ Eof(c, d) \/ IoFails(c, d) \/ QueryFails(c, d)
        PROVE  StaticInv'
    BY <1>6, EndingsKeepStaticInv
  <1>7. CASE UNCHANGED vars
    BY <1>7 DEF StaticInv, Alone, vars
  <1> QED
    BY <1>1, <1>3, <1>4, <1>5, <1>6, <1>7 DEF Next

\* Of a relay that ended with an end of file or the cut-off, one write at most was
\* cut short.
CutShort(c, d) == passed[c][d] # written[c][d]

CutShortInv ==
    \A c \in Conns, d, e \in Dirs :
        status[c] \in {"eof", "exhausted"} /\ CutShort(c, d) /\ CutShort(c, e) => d = e

\* The pump that ends the relay is not writing, and afterwards nothing is written.
LEMMA CutShortStep ==
    ASSUME RelayInv, CutShortInv, [Next]_vars
    PROVE  CutShortInv'
  <1> SUFFICES ASSUME NEW c \in Conns, NEW d \in Dirs, NEW e \in Dirs,
                      status'[c] \in {"eof", "exhausted"},
                      passed'[c][d] # written'[c][d], passed'[c][e] # written'[c][e]
               PROVE  d = e
    BY DEF CutShortInv, CutShort
  <1>1. CASE \E f \in Dirs : CutOff(c, f) \/ Eof(c, f)
    <2>1. PICK f \in Dirs : CutOff(c, f) \/ Eof(c, f)
      BY <1>1
    <2>2. pump[c][f].pc \in {"answer", "read"} /\ UNCHANGED <<passed, written>>
      BY <2>1 DEF CutOff, Eof, At
    <2>3. passed[c][f] = written[c][f]
      BY <2>2 DEF RelayInv, PumpInv
    <2> QED
      BY <2>2, <2>3 DEF Dirs
  <1>2. CASE ~\E f \in Dirs : CutOff(c, f) \/ Eof(c, f)
    <2>1. status'[c] = status[c]
      <3>1. ASSUME NEW b \in Conns, NEW why \in Endings, Close(b, why),
                   b # c \/ why \notin {"eof", "exhausted"}
            PROVE  status'[c] = status[c]
        BY <3>1 DEF Close, RelayInv, TypeOK
      <3>2. ASSUME NEW b \in Conns, Admit(b) \/ Refuse(b)
            PROVE  status'[c] = status[c]
        BY <3>2 DEF Admit, Refuse, RelayInv, TypeOK
      <3>3. ASSUME NEW b \in Conns, NEW f \in Dirs, CutOff(b, f) \/ Eof(b, f)
            PROVE  status'[c] = status[c]
        BY <1>2, <3>1, <3>3 DEF CutOff, Eof, Endings
      <3>4. ASSUME NEW b \in Conns, NEW f \in Dirs, IoFails(b, f) \/ QueryFails(b, f)
            PROVE  status'[c] = status[c]
        BY <3>1, <3>4 DEF IoFails, QueryFails, Endings
      <3> QED
        BY <3>2, <3>3, <3>4
        DEF Next, vars, Read, Commit, CommitLate, Granted, Written, OrphanIsLost
    <2>2. /\ passed'[c] = passed[c]
          /\ written'[c] = written[c]
      <3>1. ASSUME NEW b \in Conns, NEW f \in Dirs, Granted(b, f) \/ Written(b, f)
            PROVE  passed'[c] = passed[c] /\ written'[c] = written[c]
        <4>1. b # c
          BY <2>1, <3>1 DEF Granted, Written, At
        <4> QED
          BY <3>1, <4>1 DEF Granted, Written, RelayInv, TypeOK
      <3> QED
        BY <3>1
        DEF Next, vars, Admit, Refuse, Read, Commit, CommitLate, CutOff, Eof, IoFails,
            QueryFails, OrphanIsLost
    <2> QED
      BY <2>1, <2>2 DEF CutShortInv, CutShort
  <1> QED
    BY <1>1, <1>2

\* A charged chunk is lost between debit and write, over the in-memory back end
\* only to the cut-off and by one pump, or in its write, by one pump of a relay that
\* ends without an error of its own (src/auth.rs:374-403 contains no await;
\* src/protocols/proxy.rs:941, :992, :1024-1029).
THEOREM RelayLosesToCutOffOrWrite == Spec => []OnlyCutOffOrWriteLosesAChunk
  <1>1. Init => StaticInv /\ CutShortInv
    BY DEF Init, StaticInv, Alone, Stopped, CutShortInv, CutShort
  <1>2. ASSUME StaticInv, backend = "static", NEW c \in Conns,
               NEW losers, losers # {},
               \A d \in losers : /\ d \in Dirs /\ pump[c][d].pc = "stopped"
                                 /\ paid[c][d] # passed[c][d]
        PROVE  status[c] = "exhausted" /\ Cardinality(losers) = 1
    <2>1. Alone(status[c], pump[c], paid[c], passed[c])
      BY <1>2 DEF StaticInv
    <2>2. PICK d \in losers : TRUE
      BY <1>2
    <2>3. status[c] = "exhausted" /\ losers = {d}
      BY <1>2, <2>1, <2>2 DEF Alone
    <2> QED
      BY <2>3, FS_Singleton
  <1>3. ASSUME CutShortInv, NEW c \in Conns, status[c] \in {"eof", "exhausted"},
               NEW losers, \A d \in losers : d \in Dirs /\ passed[c][d] # written[c][d]
        PROVE  Cardinality(losers) <= 1
    <2>1. CASE losers = {}
      BY <2>1, FS_EmptySet
    <2>2. CASE losers # {}
      <3>1. PICK d \in losers : TRUE
        BY <2>2
      <3>2. losers = {d}
        BY <1>3, <3>1 DEF CutShortInv, CutShort
      <3> QED
        BY <3>2, FS_Singleton
    <2> QED
      BY <2>1, <2>2
  <1>4. ASSUME RelayInv, StaticInv, CutShortInv
        PROVE  OnlyCutOffOrWriteLosesAChunk
    <2> SUFFICES ASSUME NEW c \in Conns
                 PROVE  LET stopped  == {d \in Dirs : pump[c][d].pc = "stopped"}
                            withheld == {d \in stopped : paid[c][d] # passed[c][d]}
                            cutShort == {d \in stopped : passed[c][d] # written[c][d]}
                        IN  /\ backend = "static" /\ withheld # {} =>
                                  status[c] = "exhausted" /\ Cardinality(withheld) = 1
                            /\ status[c] \in {"eof", "exhausted"} =>
                                  Cardinality(cutShort) <= 1
                            /\ withheld \cap cutShort = {}
      BY DEF OnlyCutOffOrWriteLosesAChunk
    <2> DEFINE stopped  == {d \in Dirs : pump[c][d].pc = "stopped"}
               withheld == {d \in stopped : paid[c][d] # passed[c][d]}
               cutShort == {d \in stopped : passed[c][d] # written[c][d]}
    <2>1. \A d \in withheld : /\ d \in Dirs /\ pump[c][d].pc = "stopped"
                              /\ paid[c][d] # passed[c][d]
      OBVIOUS
    <2>2. \A d \in cutShort : d \in Dirs /\ passed[c][d] # written[c][d]
      OBVIOUS
    <2>3. withheld \cap cutShort = {}
      BY <1>4 DEF RelayInv, PumpInv
    <2> HIDE DEF withheld, cutShort
    <2>4. backend = "static" /\ withheld # {} =>
             status[c] = "exhausted" /\ Cardinality(withheld) = 1
      BY <1>2, <1>4, <2>1
    <2>5. status[c] \in {"eof", "exhausted"} => Cardinality(cutShort) <= 1
      BY <1>3, <1>4, <2>2
    <2> QED
      BY <2>3, <2>4, <2>5 DEF withheld, cutShort
  <1> QED
    BY <1>1, <1>4, RelayInit, RelayStep, StaticStep, CutShortStep, PTL DEF Spec

-------------------------------------------------------------------------------

\* What pump p of connection c has been granted and has not handed on yet.
Due(c, p) == IF p.pc = "answer" /\ ~Exhausted(p.left) THEN Price(c, p.bytes) ELSE 0

\* The units of allowance that f counts for the pumps of account a.
Units(a, f) ==
    UNION {{<<c, d>>} \X (1 .. f[c][d]) : c \in {b \in Conns : Owner[b] = a}, d \in Dirs}

Entitled == [c \in Conns |-> [d \in Dirs |-> passed[c][d] + Due(c, pump[c][d])]]

\* What has been handed on and what may be handed on next was granted.
EntitledInv ==
    \A a \in Accounts :
        /\ IsFiniteSet(Units(a, Entitled))
        /\ Cardinality(Units(a, Entitled)) <= granted[a]

LEMMA UnitsMember ==
    ASSUME NEW a, NEW f \in [Conns -> [Dirs -> Nat]], NEW u
    PROVE  u \in Units(a, f) <=>
              \E c \in Conns, d \in Dirs, k \in Nat :
                 k \in 1 .. f[c][d] /\ Owner[c] = a /\ u = <<<<c, d>>, k>>
  <1> DEFINE Of(c, d) == {<<c, d>>} \X (1 .. f[c][d])
  <1>1. u \in Units(a, f) <=>
           \E c \in Conns, d \in Dirs : Owner[c] = a /\ u \in Of(c, d)
    <2>1. Units(a, f) = UNION {Of(c, d) : c \in {b \in Conns : Owner[b] = a}, d \in Dirs}
      BY DEF Units
    <2> HIDE DEF Of
    <2>2. u \in UNION {Of(c, d) : c \in {b \in Conns : Owner[b] = a}, d \in Dirs} <=>
             \E c \in Conns, d \in Dirs : Owner[c] = a /\ u \in Of(c, d)
      OBVIOUS
    <2> QED
      BY <2>1, <2>2
  <1>2. \A c \in Conns, d \in Dirs :
           u \in Of(c, d) <=> \E k \in 1 .. f[c][d] : u = <<<<c, d>>, k>>
    OBVIOUS
  <1>3. \A c \in Conns, d \in Dirs : \A k \in 1 .. f[c][d] : k \in Nat
    OBVIOUS
  <1> HIDE DEF Of
  <1> QED
    BY <1>1, <1>2, <1>3

\* Fewer units for every pump of the account are a subset.
LEMMA UnitsGrow ==
    ASSUME NEW a, NEW f \in [Conns -> [Dirs -> Nat]], NEW g \in [Conns -> [Dirs -> Nat]],
           \A c \in Conns, d \in Dirs : Owner[c] = a => f[c][d] <= g[c][d]
    PROVE  Units(a, f) \subseteq Units(a, g)
  <1> SUFFICES ASSUME NEW u, u \in Units(a, f)
               PROVE  u \in Units(a, g)
    OBVIOUS
  <1>1. PICK c \in Conns, d \in Dirs, k \in Nat :
           k \in 1 .. f[c][d] /\ Owner[c] = a /\ u = <<<<c, d>>, k>>
    BY UnitsMember
  <1>2. f[c][d] \in Nat /\ g[c][d] \in Nat /\ f[c][d] <= g[c][d]
    BY <1>1
  <1>3. k \in 1 .. g[c][d]
    BY <1>1, <1>2
  <1> QED
    BY <1>1, <1>3, UnitsMember

LEMMA Successors ==
    ASSUME NEW m \in Nat, NEW p \in Nat
    PROVE  IsFiniteSet(m + 1 .. m + p) /\ Cardinality(m + 1 .. m + p) = p
  <1> DEFINE from == m + 1
             to   == m + p
  <1>1. from \in Int /\ to \in Int
    OBVIOUS
  <1> HIDE DEF from, to
  <1>2. /\ IsFiniteSet(from .. to)
        /\ Cardinality(from .. to) = IF from > to THEN 0 ELSE to - from + 1
    BY <1>1, FS_Interval
  <1> USE DEF from, to
  <1> QED
    BY <1>2

\* p more units for one pump are at most p more.
LEMMA UnitsAdded ==
    ASSUME NEW a, NEW f \in [Conns -> [Dirs -> Nat]], NEW g \in [Conns -> [Dirs -> Nat]],
           NEW c \in Conns, NEW d \in Dirs, NEW p \in Nat,
           g[c][d] = f[c][d] + p,
           \A b \in Conns, e \in Dirs : b # c \/ e # d => g[b][e] = f[b][e],
           IsFiniteSet(Units(a, f))
    PROVE  /\ IsFiniteSet(Units(a, g))
           /\ Cardinality(Units(a, g)) <= Cardinality(Units(a, f)) + p
  <1> DEFINE more == {<<c, d>>} \X (f[c][d] + 1 .. f[c][d] + p)
  <1>1. f[c][d] \in Nat
    OBVIOUS
  <1>2. IsFiniteSet(more) /\ Cardinality(more) = p
    <2>1. IsFiniteSet(f[c][d] + 1 .. f[c][d] + p) /\ Cardinality(f[c][d] + 1 .. f[c][d] + p) = p
      BY <1>1, Successors
    <2>2. IsFiniteSet({<<c, d>>}) /\ Cardinality({<<c, d>>}) = 1
      BY FS_Singleton
    <2> DEFINE one  == {<<c, d>>}
               next == f[c][d] + 1 .. f[c][d] + p
    <2>3. IsFiniteSet(one) /\ IsFiniteSet(next) /\ Cardinality(one) = 1 /\ Cardinality(next) = p
      BY <2>1, <2>2
    <2> HIDE DEF one, next
    <2>4. IsFiniteSet(one \X next) /\ Cardinality(one \X next) = Cardinality(one) * Cardinality(next)
      BY <2>3, FS_Product
    <2>5. Cardinality(one \X next) = p
      BY <2>3, <2>4
    <2> QED
      BY <2>4, <2>5 DEF one, next
  <1>3. ASSUME NEW u, u \in Units(a, g)
        PROVE  u \in Units(a, f) \cup more
    <2>1. PICK b \in Conns, e \in Dirs, k \in Nat :
             k \in 1 .. g[b][e] /\ Owner[b] = a /\ u = <<<<b, e>>, k>>
      BY <1>3, UnitsMember
    <2>2. CASE b = c /\ e = d /\ k > f[c][d]
      <3>1. k \in f[c][d] + 1 .. f[c][d] + p
        BY <1>1, <2>1, <2>2
      <3> QED
        BY <2>1, <2>2, <3>1
    <2>3. CASE ~(b = c /\ e = d /\ k > f[c][d])
      <3>1. f[b][e] \in Nat /\ k \in 1 .. f[b][e]
        BY <1>1, <2>1, <2>3
      <3> QED
        BY <2>1, <3>1, UnitsMember
    <2> QED
      BY <2>2, <2>3
  <1> HIDE DEF more
  <1>4. /\ IsFiniteSet(Units(a, f) \cup more)
        /\ Cardinality(Units(a, f) \cup more) <= Cardinality(Units(a, f)) + p
    <2>1. IsFiniteSet(Units(a, f) \cap more)
      BY <1>2, FS_Subset
    <2>2. /\ Cardinality(Units(a, f)) \in Nat /\ Cardinality(more) \in Nat
          /\ Cardinality(Units(a, f) \cap more) \in Nat
      BY <1>2, <2>1, FS_CardinalityType
    <2>3. /\ IsFiniteSet(Units(a, f) \cup more)
          /\ Cardinality(Units(a, f) \cup more) =
                Cardinality(Units(a, f)) + Cardinality(more) - Cardinality(Units(a, f) \cap more)
      BY <1>2, FS_Union
    <2> QED
      BY <1>2, <2>2, <2>3
  <1>5. Units(a, g) \in SUBSET (Units(a, f) \cup more)
    BY <1>3
  <1>6. /\ IsFiniteSet(Units(a, g))
        /\ Cardinality(Units(a, g)) <= Cardinality(Units(a, f) \cup more)
    BY <1>4, <1>5, FS_Subset
  <1>7. /\ Cardinality(Units(a, g)) \in Nat /\ Cardinality(Units(a, f)) \in Nat
        /\ Cardinality(Units(a, f) \cup more) \in Nat
    BY <1>4, <1>6, FS_CardinalityType
  <1> QED
    BY <1>4, <1>6, <1>7

\* What pumps are entitled to is a number.
LEMMA EntitledType ==
    ASSUME TypeOK
    PROVE  /\ \A c \in Conns, d \in Dirs : Due(c, pump[c][d]) \in Nat
           /\ Entitled \in [Conns -> [Dirs -> Nat]]
           /\ \A c \in Conns, d \in Dirs :
                 Entitled[c][d] = passed[c][d] + Due(c, pump[c][d])
  <1>1. \A c \in Conns, d \in Dirs : Due(c, pump[c][d]) \in Nat
    BY PumpParts, PriceType DEF Due, TypeOK
  <1> QED
    BY <1>1 DEF Entitled, TypeOK

LEMMA EntitledTypeNext ==
    ASSUME RelayInv'
    PROVE  /\ Entitled' \in [Conns -> [Dirs -> Nat]]
           /\ \A c \in Conns, d \in Dirs :
                 Entitled'[c][d] = passed'[c][d] + Due(c, pump'[c][d])
  <1>1. \A c \in Conns, d \in Dirs : Due(c, pump'[c][d]) \in Nat
    BY PumpParts, PriceType DEF Due, RelayInv, TypeOK
  <1> QED
    BY <1>1 DEF Entitled, RelayInv, TypeOK, Due, Price

\* A step after which no pump is entitled to more keeps EntitledInv.
LEMMA NoMoreEntitled ==
    ASSUME RelayInv, RelayInv', EntitledInv,
           \A a \in Accounts : granted[a] <= granted'[a],
           \A c \in Conns, d \in Dirs :
              passed'[c][d] + Due(c, pump'[c][d]) <= passed[c][d] + Due(c, pump[c][d])
    PROVE  EntitledInv'
  <1> DEFINE f == Entitled
             g == Entitled'
  <1>1. /\ f \in [Conns -> [Dirs -> Nat]]
        /\ \A c \in Conns, d \in Dirs : f[c][d] = passed[c][d] + Due(c, pump[c][d])
    BY EntitledType DEF RelayInv
  <1>2. /\ g \in [Conns -> [Dirs -> Nat]]
        /\ \A c \in Conns, d \in Dirs : g[c][d] = passed'[c][d] + Due(c, pump'[c][d])
    BY EntitledTypeNext
  <1> SUFFICES ASSUME NEW a \in Accounts
               PROVE  IsFiniteSet(Units(a, g)) /\ Cardinality(Units(a, g)) <= granted'[a]
    BY Zenon DEF EntitledInv
  <1>3. IsFiniteSet(Units(a, f)) /\ Cardinality(Units(a, f)) <= granted[a]
    BY DEF EntitledInv
  <1>4. granted[a] \in Nat /\ granted'[a] \in Nat
    BY DEF RelayInv, TypeOK
  <1> HIDE DEF f, g
  <1>5. Units(a, g) \in SUBSET Units(a, f)
    <2>1. \A c \in Conns, d \in Dirs : Owner[c] = a => g[c][d] <= f[c][d]
      BY <1>1, <1>2
    <2>2. f \in [Conns -> [Dirs -> Nat]] /\ g \in [Conns -> [Dirs -> Nat]]
      BY <1>1, <1>2
    <2>3. Units(a, g) \subseteq Units(a, f)
      BY <2>1, <2>2, UnitsGrow
    <2> QED
      BY <2>3
  <1>6. /\ IsFiniteSet(Units(a, g)) /\ Cardinality(Units(a, g)) \in Nat
        /\ Cardinality(Units(a, f)) \in Nat
        /\ Cardinality(Units(a, g)) <= Cardinality(Units(a, f))
    BY <1>3, <1>5, FS_Subset, FS_CardinalityType
  <1> QED
    BY <1>3, <1>4, <1>6

\* A debit that leaves a positive balance entitles its pump to what it grants.
LEMMA CommitKeepsEntitledInv ==
    ASSUME RelayInv, RelayInv', EntitledInv, NEW c \in Conns, NEW d \in Dirs, Commit(c, d)
    PROVE  EntitledInv'
  <1> DEFINE price == Price(c, pump[c][d].bytes)
  <1>1. /\ pump[c][d] \in Pumps /\ pump[c][d].pc = "report" /\ Metered(c)
        /\ passed' = passed /\ Debited(c, d)
    BY DEF Commit, At, RelayInv, TypeOK, PumpInv
  <1>2. pump'[c][d] = [pc |-> "answer", bytes |-> pump[c][d].bytes, left |-> Balance(c, d)]
    BY DEF Commit, RelayInv, TypeOK
  <1>3. \A b \in Conns, e \in Dirs : b # c \/ e # d => pump'[b][e] = pump[b][e]
    BY DEF Commit, RelayInv, TypeOK
  <1>4. price \in Nat
    BY <1>1, PumpParts, PriceType
  <1>5. Owner[c] \in Accounts
    BY <1>1, RelayAssumption DEF Metered
  <1>6. Due(c, pump[c][d]) = 0
    BY <1>1 DEF Due
  <1>7. Due(c, pump'[c][d]) = IF Exhausted(Balance(c, d)) THEN 0 ELSE price
    BY <1>2 DEF Due
  <1> HIDE DEF price
  <1>8. granted' = IF Exhausted(Balance(c, d)) THEN granted
                   ELSE [granted EXCEPT ![Owner[c]] = @ + price]
    BY <1>1 DEF Debited, price
  <1>9. CASE Exhausted(Balance(c, d))
    <2>1. \A b \in Conns, e \in Dirs : Due(b, pump'[b][e]) = Due(b, pump[b][e])
      BY <1>3, <1>6, <1>7, <1>9 DEF Due
    <2>2. \A b \in Conns, e \in Dirs : Due(b, pump[b][e]) \in Nat /\ passed[b][e] \in Nat
      BY EntitledType DEF RelayInv, TypeOK
    <2>3. \A a \in Accounts : granted[a] \in Nat
      BY DEF RelayInv, TypeOK
    <2>4. \A b \in Conns, e \in Dirs :
             passed'[b][e] + Due(b, pump'[b][e]) <= passed[b][e] + Due(b, pump[b][e])
      BY <1>1, <2>1, <2>2
    <2>5. \A a \in Accounts : granted[a] <= granted'[a]
      BY <1>8, <1>9, <2>3
    <2> QED
      BY <2>4, <2>5, NoMoreEntitled
  <1>10. CASE ~Exhausted(Balance(c, d))
    <2> DEFINE f == Entitled
               g == Entitled'
    <2>1. /\ f \in [Conns -> [Dirs -> Nat]] /\ g \in [Conns -> [Dirs -> Nat]]
          /\ \A b \in Conns, e \in Dirs : f[b][e] = passed[b][e] + Due(b, pump[b][e])
          /\ \A b \in Conns, e \in Dirs : g[b][e] = passed[b][e] + Due(b, pump'[b][e])
      BY <1>1, EntitledType, EntitledTypeNext DEF RelayInv
    <2>2. SUFFICES ASSUME NEW a \in Accounts
                   PROVE  IsFiniteSet(Units(a, g)) /\ Cardinality(Units(a, g)) <= granted'[a]
      BY Zenon DEF EntitledInv
    <2>3. IsFiniteSet(Units(a, f)) /\ Cardinality(Units(a, f)) <= granted[a]
      BY DEF EntitledInv
    <2> HIDE DEF f, g
    <2>4. passed[c][d] \in Nat /\ granted[a] \in Nat
      BY DEF RelayInv, TypeOK
    <2>5. g[c][d] = f[c][d] + price
      BY <1>4, <1>6, <1>7, <1>10, <2>1, <2>4
    <2>6. \A b \in Conns, e \in Dirs : b # c \/ e # d => g[b][e] = f[b][e]
      BY <1>3, <2>1 DEF Due
    <2>7. CASE a = Owner[c]
      <3>1. /\ IsFiniteSet(Units(a, g))
            /\ Cardinality(Units(a, g)) <= Cardinality(Units(a, f)) + price
        BY <1>4, <2>1, <2>3, <2>5, <2>6, UnitsAdded
      <3>2. granted'[a] = granted[a] + price
        BY <1>5, <1>8, <1>10, <2>7 DEF RelayInv, TypeOK
      <3>3. Cardinality(Units(a, g)) \in Nat /\ Cardinality(Units(a, f)) \in Nat
        BY <2>3, <3>1, FS_CardinalityType
      <3> QED
        BY <1>4, <2>3, <2>4, <3>1, <3>2, <3>3
    <2>8. CASE a # Owner[c]
      <3>1. \A b \in Conns, e \in Dirs : Owner[b] = a => g[b][e] <= f[b][e]
        BY <2>1, <2>6, <2>8
      <3>2. Units(a, g) \in SUBSET Units(a, f)
        BY <2>1, <3>1, UnitsGrow
      <3>3. /\ IsFiniteSet(Units(a, g)) /\ Cardinality(Units(a, g)) \in Nat
            /\ Cardinality(Units(a, f)) \in Nat
            /\ Cardinality(Units(a, g)) <= Cardinality(Units(a, f))
        BY <2>3, <3>2, FS_Subset, FS_CardinalityType
      <3>4. granted'[a] = granted[a]
        BY <1>8, <1>10, <2>8 DEF RelayInv, TypeOK
      <3> QED
        BY <2>3, <2>4, <3>3, <3>4
    <2> QED
      BY <2>7, <2>8
  <1> QED
    BY <1>9, <1>10

\* No other step entitles a pump to more: a late debit has nobody to answer, and
\* handing on uses up what was due.
LEMMA EntitledStep ==
    ASSUME RelayInv, RelayInv', EntitledInv, [Next]_vars
    PROVE  EntitledInv'
  <1>1. \A c \in Conns, d \in Dirs : /\ Due(c, pump[c][d]) \in Nat
                                     /\ passed[c][d] \in Nat
    BY EntitledType DEF RelayInv, TypeOK
  <1>2. \A a \in Accounts : granted[a] \in Nat
    BY DEF RelayInv, TypeOK
  <1>3. ASSUME NEW c \in Conns, NEW d \in Dirs, NEW p, Due(c, p) = 0,
               pump' = [pump EXCEPT ![c][d] = p], passed' = passed,
               \A a \in Accounts : granted[a] <= granted'[a]
        PROVE  EntitledInv'
    <2>1. \A b \in Conns, e \in Dirs :
             pump'[b][e] = IF b = c /\ e = d THEN p ELSE pump[b][e]
      BY <1>3 DEF RelayInv, TypeOK
    <2>2. \A b \in Conns, e \in Dirs :
             Due(b, pump'[b][e]) = IF b = c /\ e = d THEN 0 ELSE Due(b, pump[b][e])
      BY <1>3, <2>1 DEF Due
    <2>3. \A b \in Conns, e \in Dirs :
             passed'[b][e] + Due(b, pump'[b][e]) <= passed[b][e] + Due(b, pump[b][e])
      BY <1>1, <1>3, <2>2
    <2> QED
      BY <1>3, <2>3, NoMoreEntitled
  <1>4. \A c \in Conns : Due(c, Reading) = 0 /\ Due(c, Stopped) = 0
    BY DEF Due, Reading, Stopped
  <1>5. ASSUME NEW c \in Conns, Admit(c)
        PROVE  EntitledInv'
    <2>1. passed' = passed /\ granted' = granted
      BY <1>5 DEF Admit, ledger
    <2>2. \A b \in Conns, e \in Dirs :
             pump'[b][e] = IF b = c THEN Reading ELSE pump[b][e]
      BY <1>5 DEF Admit, RelayInv, TypeOK
    <2>3. \A b \in Conns, e \in Dirs :
             Due(b, pump'[b][e]) = IF b = c THEN 0 ELSE Due(b, pump[b][e])
      BY <1>4, <2>2 DEF Due
    <2>4. \A b \in Conns, e \in Dirs :
             passed'[b][e] + Due(b, pump'[b][e]) <= passed[b][e] + Due(b, pump[b][e])
      BY <1>1, <2>1, <2>3
    <2>5. \A a \in Accounts : granted[a] <= granted'[a]
      BY <1>2, <2>1
    <2> QED
      BY <2>4, <2>5, NoMoreEntitled
  <1>6. ASSUME NEW c \in Conns,
               \/ Refuse(c)
               \/ \E d \in Dirs :
                     \/ \E bytes \in Chunks : Read(c, d, bytes)
                     \/ Written(c, d) \/ OrphanIsLost(c, d)
        PROVE  EntitledInv'
    <2>1. passed' = passed /\ granted' = granted
      BY <1>6 DEF Refuse, Read, Written, OrphanIsLost, ledger
    <2>2. \A a \in Accounts : granted[a] <= granted'[a]
      BY <1>2, <2>1
    <2>3. CASE Refuse(c)
      <3>1. pump' = pump
        BY <2>3 DEF Refuse
      <3>2. \A b \in Conns, e \in Dirs :
               passed'[b][e] + Due(b, pump'[b][e]) <= passed[b][e] + Due(b, pump[b][e])
        BY <1>1, <2>1, <3>1
      <3> QED
        BY <2>2, <3>2, NoMoreEntitled
    <2>4. ASSUME NEW d \in Dirs, NEW bytes \in Chunks, Read(c, d, bytes)
          PROVE  EntitledInv'
      <3> DEFINE p == [pc |-> IF Metered(c) THEN "report" ELSE "write", bytes |-> bytes]
      <3>1. pump' = [pump EXCEPT ![c][d] = p]
        BY <2>4 DEF Read
      <3>2. Due(c, p) = 0
        BY DEF Due
      <3> HIDE DEF p
      <3> QED
        BY <1>3, <2>1, <2>2, <3>1, <3>2
    <2>5. ASSUME NEW d \in Dirs, Written(c, d) \/ OrphanIsLost(c, d)
          PROVE  EntitledInv'
      <3>1. \/ pump' = [pump EXCEPT ![c][d] = Reading]
            \/ pump' = [pump EXCEPT ![c][d] = Stopped]
        BY <2>5 DEF Written, OrphanIsLost
      <3> QED
        BY <1>3, <1>4, <2>1, <2>2, <3>1
    <2> QED
      BY <1>6, <2>3, <2>4, <2>5
  <1>7. ASSUME NEW c \in Conns, NEW d \in Dirs, CommitLate(c, d)
        PROVE  EntitledInv'
    <2> DEFINE price == Price(c, pump[c][d].bytes)
    <2>1. /\ pump[c][d] \in Pumps /\ pump[c][d].pc = "orphan" /\ Metered(c)
          /\ passed' = passed /\ pump' = [pump EXCEPT ![c][d] = Stopped] /\ Debited(c, d)
      BY <1>7 DEF CommitLate, RelayInv, TypeOK, PumpInv
    <2>2. price \in Nat
      BY <2>1, PumpParts, PriceType
    <2>3. Owner[c] \in Accounts
      BY <2>1, RelayAssumption DEF Metered
    <2>4. \/ granted' = granted
          \/ granted' = [granted EXCEPT ![Owner[c]] = @ + price]
      BY <2>1 DEF Debited
    <2> HIDE DEF price
    <2>5. \A a \in Accounts : granted'[a] = granted[a] \/ granted'[a] = granted[a] + price
      BY <2>4 DEF RelayInv, TypeOK
    <2>6. \A a \in Accounts : granted[a] <= granted'[a]
      BY <1>2, <2>2, <2>5
    <2> QED
      BY <1>3, <1>4, <2>1, <2>6
  <1>8. ASSUME NEW c \in Conns, NEW d \in Dirs, Granted(c, d)
        PROVE  EntitledInv'
    <2> DEFINE price == Price(c, pump[c][d].bytes)
    <2>1. /\ pump[c][d] \in Pumps /\ pump[c][d].pc = "answer"
          /\ ~Exhausted(pump[c][d].left) /\ granted' = granted
      BY <1>8 DEF Granted, At, ledger, RelayInv, TypeOK
    <2>2. price \in Nat
      BY <2>1, PumpParts, PriceType
    <2>3. Due(c, pump[c][d]) = price
      BY <2>1 DEF Due
    <2>4. \A b \in Conns, e \in Dirs :
             pump'[b][e] = IF b = c /\ e = d THEN [pc |-> "write", bytes |-> pump[c][d].bytes]
                           ELSE pump[b][e]
      BY <1>8 DEF Granted, RelayInv, TypeOK
    <2>5. passed' = [passed EXCEPT ![c][d] = @ + price]
      BY <1>8 DEF Granted
    <2> HIDE DEF price
    <2>6. \A b \in Conns, e \in Dirs :
             passed'[b][e] = IF b = c /\ e = d THEN passed[c][d] + price ELSE passed[b][e]
      BY <2>5 DEF RelayInv, TypeOK
    <2>7. \A b \in Conns, e \in Dirs :
             Due(b, pump'[b][e]) = IF b = c /\ e = d THEN 0 ELSE Due(b, pump[b][e])
      BY <2>4 DEF Due
    <2>8. \A b \in Conns, e \in Dirs :
             passed'[b][e] + Due(b, pump'[b][e]) <= passed[b][e] + Due(b, pump[b][e])
      BY <1>1, <2>2, <2>3, <2>6, <2>7
    <2>9. \A a \in Accounts : granted[a] <= granted'[a]
      BY <1>2, <2>1
    <2> QED
      BY <2>8, <2>9, NoMoreEntitled
  <1>9. ASSUME NEW c \in Conns, NEW d \in Dirs,
               CutOff(c, d) \/ Eof(c, d) \/ IoFails(c, d) \/ QueryFails(c, d)
        PROVE  EntitledInv'
    <2>1. /\ UNCHANGED <<granted, passed>>
          /\ \E why \in Endings : Close(c, why)
      BY <1>9 DEF CutOff, Eof, IoFails, QueryFails, At, Endings, ledger
    <2>2. \A b \in Conns, e \in Dirs :
             pump'[b][e] = IF b = c THEN Dropped(pump[b][e]) ELSE pump[b][e]
      BY <2>1 DEF Close, Dropped, RelayInv, TypeOK
    <2>3. \A b \in Conns, e \in Dirs : Due(b, Dropped(pump[b][e])) = 0
      BY <1>4 DEF Due, Dropped
    <2>4. \A b \in Conns, e \in Dirs :
             Due(b, pump'[b][e]) = IF b = c THEN 0 ELSE Due(b, pump[b][e])
      BY <2>2, <2>3 DEF Due
    <2>5. \A b \in Conns, e \in Dirs :
             passed'[b][e] + Due(b, pump'[b][e]) <= passed[b][e] + Due(b, pump[b][e])
      BY <1>1, <2>1, <2>4
    <2>6. \A a \in Accounts : granted[a] <= granted'[a]
      BY <1>2, <2>1
    <2> QED
      BY <2>5, <2>6, NoMoreEntitled
  <1>10. CASE UNCHANGED vars
    <2>1. UNCHANGED <<pump, passed, granted>>
      BY <1>10 DEF vars, ledger
    <2>2. \A b \in Conns, e \in Dirs :
             passed'[b][e] + Due(b, pump'[b][e]) <= passed[b][e] + Due(b, pump[b][e])
      BY <1>1, <2>1
    <2>3. \A a \in Accounts : granted[a] <= granted'[a]
      BY <1>2, <2>1
    <2> QED
      BY <2>2, <2>3, NoMoreEntitled
  <1> QED
    BY <1>5, <1>6, <1>7, <1>8, <1>9, <1>10, CommitKeepsEntitledInv DEF Next

\* However many connections one account has, whatever the order of their reports
\* and however they end, what they hand on together stays below its limit
\* (src/protocols/proxy.rs:935-939).
THEOREM RelayHandsOnWithinLimit == Spec => []HandedOnWithinLimit
  <1>1. ASSUME Init
        PROVE  EntitledInv
    <2>1. /\ RelayInv
          /\ \A c \in Conns, d \in Dirs : passed[c][d] = 0 /\ pump[c][d] = Stopped
          /\ \A a \in Accounts : granted[a] = 0
      BY <1>1, RelayInit DEF Init
    <2>2. \A c \in Conns, d \in Dirs : Due(c, pump[c][d]) = 0
      BY <2>1 DEF Due, Stopped
    <2>3. Entitled \in [Conns -> [Dirs -> Nat]]
      BY <2>1, EntitledType DEF RelayInv
    <2>4. \A c \in Conns, d \in Dirs : Entitled[c][d] = 0
      BY <2>1, <2>2 DEF Entitled
    <2>5. ASSUME NEW a \in Accounts
          PROVE  Units(a, Entitled) = {}
      <3> SUFFICES ASSUME NEW u, u \in Units(a, Entitled)
                   PROVE  FALSE
        OBVIOUS
      <3> DEFINE f == Entitled
      <3>1. f \in [Conns -> [Dirs -> Nat]] /\ \A c \in Conns, d \in Dirs : f[c][d] = 0
        BY <2>3, <2>4
      <3> HIDE DEF f
      <3>2. u \in Units(a, f)
        BY DEF f
      <3>3. PICK c \in Conns, d \in Dirs, k \in Nat : k \in 1 .. f[c][d]
        BY <3>1, <3>2, UnitsMember
      <3> QED
        BY <3>1, <3>3
    <2> QED
      BY <2>1, <2>5, FS_EmptySet DEF EntitledInv
  <1>2. RelayInv /\ RelayInv' /\ EntitledInv /\ [Next]_vars => EntitledInv'
    BY EntitledStep
  <1>3. ASSUME RelayInv, EntitledInv, BalancesHold
        PROVE  HandedOnWithinLimit
    <2> DEFINE f == passed
               g == Entitled
    <2>1. /\ f \in [Conns -> [Dirs -> Nat]] /\ g \in [Conns -> [Dirs -> Nat]]
          /\ \A c \in Conns, d \in Dirs : f[c][d] <= g[c][d]
      <3>1. g \in [Conns -> [Dirs -> Nat]]
        BY <1>3, EntitledType DEF RelayInv
      <3>2. f \in [Conns -> [Dirs -> Nat]]
        BY <1>3 DEF RelayInv, TypeOK
      <3>3. \A c \in Conns, d \in Dirs : /\ g[c][d] = passed[c][d] + Due(c, pump[c][d])
                                         /\ Due(c, pump[c][d]) \in Nat
        BY <1>3, EntitledType DEF RelayInv
      <3> QED
        BY <3>1, <3>2, <3>3
    <2> SUFFICES ASSUME NEW a \in Accounts, Limit[a] # Unlimited
                 PROVE  \/ Cardinality(Units(a, f)) = 0
                        \/ Cardinality(Units(a, f)) < Limit[a]
      BY DEF HandedOnWithinLimit, Units
    <2>2. /\ IsFiniteSet(Units(a, g)) /\ Cardinality(Units(a, g)) <= granted[a]
          /\ granted[a] \in Nat /\ Limit[a] \in Int
      BY <1>3, LedgerAssumption DEF EntitledInv, RelayInv, TypeOK, Balances
    <2>3. granted[a] = 0 \/ granted[a] < Limit[a]
      BY <1>3 DEF BalancesHold, Ledger!GrantedWithinLimit
    <2> HIDE DEF f, g
    <2>4. Units(a, f) \in SUBSET Units(a, g)
      BY <2>1, UnitsGrow
    <2>5. /\ IsFiniteSet(Units(a, f)) /\ Cardinality(Units(a, f)) \in Nat
          /\ Cardinality(Units(a, g)) \in Nat
          /\ Cardinality(Units(a, f)) <= Cardinality(Units(a, g))
      BY <2>2, <2>4, FS_Subset, FS_CardinalityType
    <2> QED
      BY <2>2, <2>3, <2>5
  <1> QED
    BY <1>1, <1>2, <1>3, RelayInvariant, RelayKeepsBalances, PTL DEF Spec
===============================================================================
