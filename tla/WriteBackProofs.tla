--------------------------- MODULE WriteBackProofs ---------------------------
(***************************************************************************)
(* The write-back buffer implements the ledger in place, for every set of  *)
(* users and tokens, every set of amounts and every largest quantity.      *)
(***************************************************************************)
EXTENDS WriteBack, TLAPS

\* What holds between any two steps.
IInv == TypeOK /\ BufferCoherent

\* The row an operation sees is a row, whether it was buffered or loaded.
LEMMA RowTyped ==
    ASSUME TypeOK, NEW k \in BalanceKey
    PROVE  /\ Row(k) \in BalanceRow
           /\ Row(k).balance \in Balance
           /\ Row(k).existed \in BOOLEAN
           /\ Row(k).balance.free \in Quantity
           /\ Row(k).balance.reserved \in Quantity
<1>1. ZERO \in Balance
  BY AmountsAssumption DEF ZERO, Balance, Quantity
<1>2. load(k) \in BalanceRow
  BY <1>1 DEF TypeOK, load, BalanceRow
<1>3. Row(k) \in BalanceRow
  BY <1>2 DEF TypeOK, Row
<1>4. QED
  BY <1>3 DEF BalanceRow, Balance

\* A buffered row is no None.
LEMMA RowIsSome ==
    ASSUME NEW r \in BalanceRow
    PROVE  r # None
BY NoneAssumption

\* What an operation that leaves k at b does to the buffer, to the rows seen
\* through it and to the coherence of the buffer.
LEMMA PutRow ==
    ASSUME IInv, NEW k \in BalanceKey, NEW b \in Balance,
           buffer' = Put(k, b), balances' = balances
    PROVE  /\ buffer' \in [BalanceKey -> BalanceRow \cup {None}]
           /\ BufferCoherent'
           /\ Visible' = [Visible EXCEPT ![k] = b]
<1> DEFINE r == [balance |-> b, existed |-> Row(k).existed]
<1>1. r \in BalanceRow
  BY RowTyped DEF IInv, BalanceRow
<1>2. r # None
  BY <1>1, RowIsSome
<1>3. buffer \in [BalanceKey -> BalanceRow \cup {None}]
  BY DEF IInv, TypeOK
<1>4. buffer' = [buffer EXCEPT ![k] = r]
  BY DEF Put
<1>5. buffer' \in [BalanceKey -> BalanceRow \cup {None}]
  BY <1>1, <1>3, <1>4
<1>6. \A j \in BalanceKey : buffer'[j] = IF j = k THEN r ELSE buffer[j]
  BY <1>3, <1>4
<1>7. Row(k).existed <=> balances[k] # None
  <2>1. CASE buffer[k] = None
    BY <2>1 DEF Row, load
  <2>2. CASE buffer[k] # None
    BY <2>2 DEF Row, IInv, BufferCoherent
  <2>3. QED  BY <2>1, <2>2
<1>8. BufferCoherent'
  <2> SUFFICES ASSUME NEW j \in BalanceKey, buffer'[j] # None
               PROVE  buffer'[j].existed <=> balances'[j] # None
    BY DEF BufferCoherent
  <2>1. CASE j = k
    BY <2>1, <1>6, <1>7
  <2>2. CASE j # k
    BY <2>2, <1>6 DEF IInv, BufferCoherent
  <2>3. QED  BY <2>1, <2>2
<1>9. \A j \in BalanceKey : Row(j)'.balance = IF j = k THEN b ELSE Row(j).balance
  <2> TAKE j \in BalanceKey
  <2>1. CASE j = k
    BY <2>1, <1>2, <1>6 DEF Row
  <2>2. CASE j # k
    BY <2>2, <1>6 DEF Row, load
  <2>3. QED  BY <2>1, <2>2
<1>10. Visible' = [Visible EXCEPT ![k] = b]
  BY <1>9 DEF Visible
<1>11. QED
  BY <1>5, <1>8, <1>10

\* A transfer between two rows: the debtor's reserved part and the creditor's
\* free part change, in the buffer and as seen through it.
LEMMA TransferRows ==
    ASSUME IInv, NEW d \in BalanceKey, NEW c \in BalanceKey,
           NEW gross \in Nat, NEW net \in Nat, net <= gross,
           gross <= Row(d).balance.reserved,
           Row(c).balance.free + net <= MaxQuantity,
           buffer' = Transferred(d, c, gross, net), balances' = balances
    PROVE  /\ buffer' \in [BalanceKey -> BalanceRow \cup {None}]
           /\ BufferCoherent'
           /\ Visible' =
                [k \in BalanceKey |->
                    [free |-> IF k = c THEN Visible[k].free + net
                              ELSE Visible[k].free,
                     reserved |-> IF k = d THEN Visible[k].reserved - gross
                                  ELSE Visible[k].reserved]]
<1> USE AmountsAssumption
<1>0. \A k \in BalanceKey : Visible[k] = Row(k).balance
  BY DEF Visible
<1>d. /\ Row(d).balance.free \in Quantity
      /\ Row(d).balance.reserved \in Quantity
      /\ Row(d).existed \in BOOLEAN
  BY RowTyped DEF IInv
<1>c. /\ Row(c).balance.free \in Quantity
      /\ Row(c).balance.reserved \in Quantity
      /\ Row(c).existed \in BOOLEAN
  BY RowTyped DEF IInv
<1>v. \A k \in BalanceKey :
        Visible[k] = [free |-> Visible[k].free,
                      reserved |-> Visible[k].reserved]
  BY <1>0, RowTyped DEF IInv, Balance
<1>1. CASE d = c
  <2> DEFINE b == deposit(debit_reserved(Row(d).balance, gross), net)
  <2>1. b = [free |-> Row(d).balance.free + net,
             reserved |-> Row(d).balance.reserved - gross]
    BY DEF deposit, debit_reserved
  <2>2. /\ Row(d).balance.free + net \in Quantity
        /\ Row(d).balance.reserved - gross \in Quantity
    BY <1>1, <1>d DEF Quantity
  <2>3. b \in Balance
    BY <2>1, <2>2 DEF Balance
  <2>4. buffer' = Put(d, b)
    BY <1>1 DEF Transferred
  <2> HIDE DEF b
  <2>5. /\ buffer' \in [BalanceKey -> BalanceRow \cup {None}]
        /\ BufferCoherent'
        /\ Visible' = [Visible EXCEPT ![d] = b]
    BY <2>3, <2>4, PutRow
  <2>6. Visible' =
          [k \in BalanceKey |->
              [free |-> IF k = c THEN Visible[k].free + net
                        ELSE Visible[k].free,
               reserved |-> IF k = d THEN Visible[k].reserved - gross
                            ELSE Visible[k].reserved]]
    <3>1. Visible = [k \in BalanceKey |-> Visible[k]]
      BY DEF Visible
    <3>2. Visible' = [k \in BalanceKey |-> IF k = d THEN b ELSE Visible[k]]
      BY <2>5, <3>1
    <3>3. b = [free |-> Visible[d].free + net,
               reserved |-> Visible[d].reserved - gross]
      BY <2>1, <1>0
    <3>4. QED
      BY <3>2, <3>3, <1>1, <1>v
  <2>7. QED
    BY <2>5, <2>6
<1>2. CASE d # c
  <2> DEFINE b == debit_reserved(Row(d).balance, gross)
             e == deposit(Row(c).balance, net)
             rd == [balance |-> b, existed |-> Row(d).existed]
             rc == [balance |-> e, existed |-> Row(c).existed]
  <2>1. /\ b = [free |-> Row(d).balance.free,
                reserved |-> Row(d).balance.reserved - gross]
        /\ e = [free |-> Row(c).balance.free + net,
                reserved |-> Row(c).balance.reserved]
    BY DEF deposit, debit_reserved
  <2>2. /\ Row(d).balance.reserved - gross \in Quantity
        /\ Row(c).balance.free + net \in Quantity
    BY <1>d, <1>c DEF Quantity
  <2>3. b \in Balance /\ e \in Balance
    BY <2>1, <2>2, <1>d, <1>c DEF Balance
  <2>4. buffer' = [[buffer EXCEPT ![d] = rd] EXCEPT ![c] = rc]
    BY <1>2 DEF Transferred, Put
  <2> HIDE DEF b, e
  <2>5. rd \in BalanceRow /\ rc \in BalanceRow
    BY <2>3, <1>d, <1>c DEF BalanceRow
  <2>6. rd # None /\ rc # None
    BY <2>5, RowIsSome
  <2>7. /\ rd.balance = b /\ rd.existed = Row(d).existed
        /\ rc.balance = e /\ rc.existed = Row(c).existed
    OBVIOUS
  <2> HIDE DEF rd, rc
  <2>8. buffer \in [BalanceKey -> BalanceRow \cup {None}]
    BY DEF IInv, TypeOK
  <2>9. buffer' \in [BalanceKey -> BalanceRow \cup {None}]
    BY <2>4, <2>5, <2>8
  <2>10. \A j \in BalanceKey :
            buffer'[j] = IF j = c THEN rc ELSE IF j = d THEN rd ELSE buffer[j]
    BY <2>4, <2>8
  <2>11. \A j \in BalanceKey : Row(j).existed <=> balances[j] # None
    BY DEF Row, load, IInv, BufferCoherent
  <2>12. BufferCoherent'
    <3> SUFFICES ASSUME NEW j \in BalanceKey, buffer'[j] # None
                 PROVE  buffer'[j].existed <=> balances'[j] # None
      BY DEF BufferCoherent
    <3>1. CASE j = c
      BY <3>1, <2>7, <2>10, <2>11
    <3>2. CASE j # c /\ j = d
      BY <3>2, <2>7, <2>10, <2>11
    <3>3. CASE j # c /\ j # d
      BY <3>3, <2>10 DEF IInv, BufferCoherent
    <3>4. QED  BY <3>1, <3>2, <3>3
  <2>13. \A j \in BalanceKey :
            Row(j)'.balance =
                IF j = c THEN e ELSE IF j = d THEN b ELSE Row(j).balance
    <3> TAKE j \in BalanceKey
    <3>1. CASE j = c
      BY <3>1, <2>6, <2>7, <2>10 DEF Row
    <3>2. CASE j # c /\ j = d
      BY <3>2, <2>6, <2>7, <2>10 DEF Row
    <3>3. CASE j # c /\ j # d
      BY <3>3, <2>10 DEF Row, load
    <3>4. QED  BY <3>1, <3>2, <3>3
  <2>14. Visible' =
            [j \in BalanceKey |->
                IF j = c THEN e ELSE IF j = d THEN b ELSE Visible[j]]
    BY <2>13, <1>0 DEF Visible
  <2>15. /\ b = [free |-> Visible[d].free,
                 reserved |-> Visible[d].reserved - gross]
         /\ e = [free |-> Visible[c].free + net,
                 reserved |-> Visible[c].reserved]
    BY <2>1, <1>0
  <2>16. Visible' =
          [k \in BalanceKey |->
              [free |-> IF k = c THEN Visible[k].free + net
                        ELSE Visible[k].free,
               reserved |-> IF k = d THEN Visible[k].reserved - gross
                            ELSE Visible[k].reserved]]
    BY <2>14, <2>15, <1>2, <1>v
  <2>17. QED
    BY <2>9, <2>12, <2>16
<1>3. QED
  BY <1>1, <1>2

\* Withholding a fee keeps the pool a pool and adds the fee to its token.
LEMMA WithholdFee ==
    ASSUME TypeOK, NEW t \in Tokens, NEW fee \in Quantity,
           accrued(t) + fee <= MaxQuantity,
           fee_pool' = withhold(t, fee)
    PROVE  /\ fee_pool' \in [Tokens -> Quantity \cup {None}]
           /\ Fees(fee_pool)' = [Fees(fee_pool) EXCEPT
                                    ![t] = Fees(fee_pool)[t] + fee]
<1> USE AmountsAssumption
<1>1. fee_pool \in [Tokens -> Quantity \cup {None}]
  BY DEF TypeOK
<1>2. accrued(t) \in Quantity /\ Fees(fee_pool)[t] = accrued(t)
  BY <1>1 DEF accrued, Fees, Quantity
<1>3. accrued(t) + fee \in Quantity
  BY <1>2 DEF Quantity
<1>4. CASE fee = 0
  <2>1. fee_pool' = fee_pool
    BY <1>4 DEF withhold
  <2>2. Fees(fee_pool)[t] + fee = Fees(fee_pool)[t]
    BY <1>2, <1>4 DEF Quantity
  <2>3. Fees(fee_pool) = [Fees(fee_pool) EXCEPT ![t] = Fees(fee_pool)[t]]
    BY DEF Fees
  <2>4. Fees(fee_pool)' = Fees(fee_pool)
    BY <2>1 DEF Fees
  <2>5. QED
    BY <1>1, <2>1, <2>2, <2>3, <2>4
<1>5. CASE fee # 0
  <2>1. fee_pool' = [fee_pool EXCEPT ![t] = accrued(t) + fee]
    BY <1>5 DEF withhold
  <2>2. fee_pool' \in [Tokens -> Quantity \cup {None}]
    BY <1>1, <1>3, <2>1
  <2>3. accrued(t) + fee # None
    BY <1>3, NoneAssumption
  <2>4. \A u \in Tokens :
          fee_pool'[u] = IF u = t THEN accrued(t) + fee ELSE fee_pool[u]
    BY <1>1, <2>1
  <2>5. Fees(fee_pool)' =
          [u \in Tokens |-> IF u = t THEN accrued(t) + fee
                            ELSE Fees(fee_pool)[u]]
    BY <2>3, <2>4 DEF Fees
  <2>6. QED
    BY <1>2, <2>2, <2>5 DEF Fees
<1>6. QED
  BY <1>4, <1>5

\* The fee pool that post_upgrade restores is the one pre_upgrade saved.
LEMMA RestoreInverts ==
    ASSUME NEW pool \in [Tokens -> Quantity \cup {None}]
    PROVE  restore(snapshot(pool)) = pool
<1>1. ASSUME NEW t \in Tokens, NEW a
      PROVE  <<t, a>> \in snapshot(pool) <=> pool[t] # None /\ a = pool[t]
  BY DEF snapshot
<1>2. ASSUME NEW t \in Tokens
      PROVE  restore(snapshot(pool))[t] = pool[t]
  <2>1. CASE pool[t] = None
    <3>1. ~ \E a \in Quantity : <<t, a>> \in snapshot(pool)
      BY <1>1, <2>1
    <3>2. QED
      BY <2>1, <3>1 DEF restore
  <2>2. CASE pool[t] # None
    <3>1. pool[t] \in Quantity /\ <<t, pool[t]>> \in snapshot(pool)
      BY <1>1, <2>2
    <3>2. (CHOOSE a \in Quantity : <<t, a>> \in snapshot(pool)) = pool[t]
      BY <1>1, <3>1
    <3>3. QED
      BY <3>1, <3>2 DEF restore
  <2>3. QED  BY <2>1, <2>2
<1>3. restore(snapshot(pool)) = [t \in Tokens |-> restore(snapshot(pool))[t]]
  BY DEF restore
<1>4. QED
  BY <1>2, <1>3

\* An operation that leaves one row k at b and nothing else keeps the
\* invariant, the fees and what was committed, and changes one balance.
LEMMA OperationOnRow ==
    ASSUME IInv, NEW k \in BalanceKey, NEW b \in Balance,
           buffer' = Put(k, b), UNCHANGED <<balances, fee_pool, before>>
    PROVE  /\ IInv'
           /\ Visible' = [Visible EXCEPT ![k] = b]
           /\ Fees(fee_pool)' = Fees(fee_pool)
           /\ Committed' = Committed
<1>1. /\ buffer' \in [BalanceKey -> BalanceRow \cup {None}]
      /\ BufferCoherent'
      /\ Visible' = [Visible EXCEPT ![k] = b]
  BY PutRow
<1>2. IInv'
  BY <1>1 DEF IInv, TypeOK
<1>3. QED
  BY <1>1, <1>2 DEF Fees, Committed, Stored

\* The initial state is an initial state of the ledger.
LEMMA InitSimulates ==
    Init => IInv /\ Ledger!Init
<1> SUFFICES ASSUME Init PROVE IInv /\ Ledger!Init
  OBVIOUS
<1> USE AmountsAssumption, NoneAssumption
<1>1. buffer = [k \in BalanceKey |-> None]
  BY DEF Init, Untouched
<1>2. IInv
  BY <1>1 DEF Init, IInv, TypeOK, BufferCoherent
<1>3. Visible = [k \in BalanceKey |-> ZERO]
  BY <1>1 DEF Init, Visible, Row, load
<1>4. Fees(fee_pool) = [t \in Tokens |-> 0]
  BY DEF Init, Fees
<1>5. Stored(before.balances) = [k \in BalanceKey |-> ZERO]
  BY DEF Init, Stored
<1>6. Fees(before.fee_pool) = [t \in Tokens |-> 0]
  BY DEF Init, Fees
<1>7. Committed = [balance |-> Visible, fees |-> Fees(fee_pool)]
  BY <1>3, <1>4, <1>5, <1>6 DEF Committed
<1>8. QED
  BY <1>2, <1>3, <1>4, <1>7 DEF Ledger!Init, Ledger!Keys, BalanceKey, ZERO

\* Every step keeps the invariant and is a step of the ledger or none.
LEMMA StepSimulates ==
    ASSUME IInv, [Next]_vars
    PROVE  IInv' /\ [Ledger!Next]_(Ledger!vars)
<1> USE AmountsAssumption
<1>keys. Ledger!Keys = BalanceKey
  BY DEF Ledger!Keys, BalanceKey
<1>see. \A k \in BalanceKey : Visible[k] = Row(k).balance
  BY DEF Visible
<1>stutter. ASSUME Visible' = Visible, Fees(fee_pool)' = Fees(fee_pool),
                   Committed' = Committed
            PROVE  [Ledger!Next]_(Ledger!vars)
  BY <1>stutter DEF Ledger!vars
<1>same. ASSUME UNCHANGED vars
         PROVE  IInv' /\ [Ledger!Next]_(Ledger!vars)
  <2>1. IInv'
    BY <1>same DEF vars, IInv, TypeOK, BufferCoherent
  <2>2. /\ Visible' = Visible
        /\ Fees(fee_pool)' = Fees(fee_pool)
        /\ Committed' = Committed
    BY <1>same DEF vars, Visible, Row, load, Fees, Committed, Stored
  <2>3. QED
    BY <2>1, <2>2, <1>stutter
<1>1. ASSUME NEW k \in BalanceKey, NEW a \in Amounts, Deposit(k, a)
      PROVE  IInv' /\ [Ledger!Next]_(Ledger!vars)
  <2> DEFINE b == deposit(Row(k).balance, a)
  <2>1. /\ Row(k).balance.free \in Quantity
        /\ Row(k).balance.reserved \in Quantity
    BY RowTyped DEF IInv
  <2>2. Row(k).balance.free + a \in Quantity
    BY <1>1, <2>1 DEF Deposit, Quantity
  <2>3. b \in Balance
    BY <2>1, <2>2 DEF deposit, Balance
  <2>4. buffer' = Put(k, b) /\ UNCHANGED <<balances, fee_pool, before>>
    BY <1>1 DEF Deposit
  <2>5. b = [free |-> Visible[k].free + a, reserved |-> Visible[k].reserved]
    BY <1>see DEF deposit
  <2>6. Visible[k].free + a <= MaxQuantity
    BY <1>1, <1>see DEF Deposit
  <2> HIDE DEF b
  <2>7. /\ IInv'
        /\ Visible' = [Visible EXCEPT ![k] = b]
        /\ Fees(fee_pool)' = Fees(fee_pool)
        /\ Committed' = Committed
    BY <2>3, <2>4, OperationOnRow
  <2>8. Ledger!Deposit(k, a)
    BY <2>5, <2>6, <2>7 DEF Ledger!Deposit, Ledger!Free
  <2>9. QED
    BY <2>7, <2>8, <1>keys DEF Ledger!Next
<1>2. ASSUME NEW k \in BalanceKey, NEW a \in Amounts, Withdraw(k, a)
      PROVE  IInv' /\ [Ledger!Next]_(Ledger!vars)
  <2>1. CASE a <= Row(k).balance.free /\ buffer' = Put(k, withdraw(Row(k).balance, a))
    <3> DEFINE b == withdraw(Row(k).balance, a)
    <3>1. /\ Row(k).balance.free \in Quantity
          /\ Row(k).balance.reserved \in Quantity
      BY RowTyped DEF IInv
    <3>2. Row(k).balance.free - a \in Quantity
      BY <2>1, <3>1 DEF Quantity
    <3>3. b \in Balance
      BY <3>1, <3>2 DEF withdraw, Balance
    <3>4. buffer' = Put(k, b) /\ UNCHANGED <<balances, fee_pool, before>>
      BY <1>2, <2>1 DEF Withdraw
    <3>5. b = [free |-> Visible[k].free - a, reserved |-> Visible[k].reserved]
      BY <1>see DEF withdraw
    <3>6. a <= Visible[k].free
      BY <2>1, <1>see
    <3> HIDE DEF b
    <3>7. /\ IInv'
          /\ Visible' = [Visible EXCEPT ![k] = b]
          /\ Fees(fee_pool)' = Fees(fee_pool)
          /\ Committed' = Committed
      BY <3>3, <3>4, OperationOnRow
    <3>8. Ledger!Withdraw(k, a)
      BY <3>5, <3>6, <3>7 DEF Ledger!Withdraw, Ledger!Free
    <3>9. QED
      BY <3>7, <3>8, <1>keys DEF Ledger!Next
  <2>2. CASE UNCHANGED buffer
    BY <1>2, <2>2, <1>same DEF Withdraw, vars
  <2>3. QED
    BY <1>2, <2>1, <2>2 DEF Withdraw
<1>3. ASSUME NEW k \in BalanceKey, NEW a \in Amounts, Reserve(k, a)
      PROVE  IInv' /\ [Ledger!Next]_(Ledger!vars)
  <2>1. CASE /\ a <= Row(k).balance.free
             /\ Row(k).balance.reserved + a <= MaxQuantity
             /\ buffer' = Put(k, reserve(Row(k).balance, a))
    <3> DEFINE b == reserve(Row(k).balance, a)
    <3>1. /\ Row(k).balance.free \in Quantity
          /\ Row(k).balance.reserved \in Quantity
      BY RowTyped DEF IInv
    <3>2. /\ Row(k).balance.free - a \in Quantity
          /\ Row(k).balance.reserved + a \in Quantity
      BY <2>1, <3>1 DEF Quantity
    <3>3. b \in Balance
      BY <3>2 DEF reserve, Balance
    <3>4. buffer' = Put(k, b) /\ UNCHANGED <<balances, fee_pool, before>>
      BY <1>3, <2>1 DEF Reserve
    <3>5. b = [free |-> Visible[k].free - a,
               reserved |-> Visible[k].reserved + a]
      BY <1>see DEF reserve
    <3>6. a <= Visible[k].free /\ Visible[k].reserved + a <= MaxQuantity
      BY <2>1, <1>see
    <3> HIDE DEF b
    <3>7. /\ IInv'
          /\ Visible' = [Visible EXCEPT ![k] = b]
          /\ Fees(fee_pool)' = Fees(fee_pool)
          /\ Committed' = Committed
      BY <3>3, <3>4, OperationOnRow
    <3>8. Ledger!Reserve(k, a)
      BY <3>5, <3>6, <3>7 DEF Ledger!Reserve, Ledger!Move
    <3>9. QED
      BY <3>7, <3>8, <1>keys DEF Ledger!Next
  <2>2. CASE UNCHANGED buffer
    BY <1>3, <2>2, <1>same DEF Reserve, vars
  <2>3. QED
    BY <1>3, <2>1, <2>2 DEF Reserve
<1>4. ASSUME NEW k \in BalanceKey, NEW a \in Amounts, Unreserve(k, a)
      PROVE  IInv' /\ [Ledger!Next]_(Ledger!vars)
  <2> DEFINE b == unreserve(Row(k).balance, a)
  <2>1. /\ Row(k).balance.free \in Quantity
        /\ Row(k).balance.reserved \in Quantity
    BY RowTyped DEF IInv
  <2>2. /\ Row(k).balance.free + a \in Quantity
        /\ Row(k).balance.reserved - a \in Quantity
    BY <1>4, <2>1 DEF Unreserve, Quantity
  <2>3. b \in Balance
    BY <2>2 DEF unreserve, Balance
  <2>4. buffer' = Put(k, b) /\ UNCHANGED <<balances, fee_pool, before>>
    BY <1>4 DEF Unreserve
  <2>5. b = [free |-> Visible[k].free + a,
             reserved |-> Visible[k].reserved - a]
    BY <1>see DEF unreserve
  <2>6. a <= Visible[k].reserved /\ Visible[k].free + a <= MaxQuantity
    BY <1>4, <1>see DEF Unreserve
  <2> HIDE DEF b
  <2>7. /\ IInv'
        /\ Visible' = [Visible EXCEPT ![k] = b]
        /\ Fees(fee_pool)' = Fees(fee_pool)
        /\ Committed' = Committed
    BY <2>3, <2>4, OperationOnRow
  <2>8. Ledger!Unreserve(k, a)
    BY <2>5, <2>6, <2>7 DEF Ledger!Unreserve, Ledger!Move
  <2>9. QED
    BY <2>7, <2>8, <1>keys DEF Ledger!Next
<1>5. ASSUME NEW debtor \in Users, NEW creditor \in Users, NEW t \in Tokens,
             NEW gross \in Amounts, NEW fee \in Amounts,
             Transfer(debtor, creditor, t, gross, fee)
      PROVE  IInv' /\ [Ledger!Next]_(Ledger!vars)
  <2> DEFINE d == <<t, debtor>>
             c == <<t, creditor>>
  <2>1. d \in BalanceKey /\ c \in BalanceKey /\ d[1] = t /\ c[1] = t
    BY DEF BalanceKey
  <2>2. /\ fee <= gross
        /\ accrued(t) + fee <= MaxQuantity
        /\ gross <= Row(d).balance.reserved
        /\ Row(c).balance.free + (gross - fee) <= MaxQuantity
        /\ fee_pool' = withhold(t, fee)
        /\ buffer' = Transferred(d, c, gross, gross - fee)
        /\ UNCHANGED <<balances, before>>
    BY <1>5 DEF Transfer
  <2>3. gross \in Nat /\ fee \in Quantity
    BY DEF Quantity
  <2>4. gross - fee \in Nat /\ gross - fee <= gross
    BY <2>2, <2>3 DEF Quantity
  <2> HIDE DEF d, c
  <2>5. /\ buffer' \in [BalanceKey -> BalanceRow \cup {None}]
        /\ BufferCoherent'
        /\ Visible' =
              [k \in BalanceKey |->
                  [free |-> IF k = c THEN Visible[k].free + (gross - fee)
                            ELSE Visible[k].free,
                   reserved |-> IF k = d THEN Visible[k].reserved - gross
                                ELSE Visible[k].reserved]]
    BY <2>1, <2>2, <2>3, <2>4, TransferRows
  <2>6. /\ fee_pool' \in [Tokens -> Quantity \cup {None}]
        /\ Fees(fee_pool)' = [Fees(fee_pool) EXCEPT
                                 ![t] = Fees(fee_pool)[t] + fee]
    BY <2>2, <2>3, WithholdFee DEF IInv
  <2>7. IInv'
    BY <2>2, <2>5, <2>6 DEF IInv, TypeOK
  <2>8. Committed' = Committed
    BY <2>2 DEF Committed, Stored, Fees
  <2>9. Fees(fee_pool)[t] + fee <= MaxQuantity
    BY <2>2 DEF Fees, accrued
  <2>10. /\ gross <= Visible[d].reserved
         /\ Visible[c].free + (gross - fee) <= MaxQuantity
    BY <2>1, <2>2, <1>see
  <2>11. Ledger!Transfer(d, c, t, gross, fee)
    BY <2>1, <2>2, <2>5, <2>6, <2>8, <2>9, <2>10, <1>keys
       DEF Ledger!Transfer
  <2>12. Ledger!Next
    BY <2>1, <2>11, <1>keys DEF Ledger!Next
  <2>13. QED
    BY <2>7, <2>12
<1>6. ASSUME Flush
      PROVE  IInv' /\ [Ledger!Next]_(Ledger!vars)
  <2>1. buffer' = [k \in BalanceKey |-> None]
    BY <1>6 DEF Flush, Untouched
  <2>2. \A k \in BalanceKey :
          balances'[k] = IF buffer[k] # None /\ worth_persisting(buffer[k])
                         THEN buffer[k].balance ELSE balances[k]
    BY <1>6 DEF Flush
  <2>3. balances' \in [BalanceKey -> Balance \cup {None}]
    <3>1. ASSUME NEW k \in BalanceKey
          PROVE  (IF buffer[k] # None /\ worth_persisting(buffer[k])
                  THEN buffer[k].balance ELSE balances[k])
                     \in Balance \cup {None}
      BY DEF IInv, TypeOK, BalanceRow
    <3>2. QED
      BY <1>6, <3>1 DEF Flush
  <2>4. IInv'
    BY <1>6, <2>1, <2>3 DEF Flush, IInv, TypeOK, BufferCoherent
  <2>5. ASSUME NEW k \in BalanceKey
        PROVE  Row(k)'.balance = Row(k).balance
    <3>1. Row(k)'.balance =
             IF balances'[k] = None THEN ZERO ELSE balances'[k]
      BY <2>1 DEF Row, load
    <3>2. CASE buffer[k] = None
      BY <3>1, <3>2, <2>2 DEF Row, load
    <3>3. CASE buffer[k] # None /\ worth_persisting(buffer[k])
      <4>1. buffer[k].balance \in Balance
        BY <3>3 DEF IInv, TypeOK, BalanceRow
      <4>2. buffer[k].balance # None
        BY <4>1, NoneAssumption
      <4>3. QED
        BY <3>1, <3>3, <4>2, <2>2 DEF Row
    <3>4. CASE buffer[k] # None /\ ~worth_persisting(buffer[k])
      <4>1. buffer[k].balance = ZERO /\ balances[k] = None
        BY <3>4 DEF worth_persisting, IInv, BufferCoherent
      <4>2. QED
        BY <3>1, <3>4, <4>1, <2>2 DEF Row
    <3>5. QED
      BY <3>2, <3>3, <3>4
  <2>6. Visible' = Visible
    BY <2>5 DEF Visible
  <2>7. Fees(fee_pool)' = Fees(fee_pool) /\ Committed' = Committed
    BY <1>6 DEF Flush, Fees, Committed, Stored
  <2>8. QED
    BY <2>4, <2>6, <2>7, <1>stutter
<1>7. ASSUME End
      PROVE  IInv' /\ [Ledger!Next]_(Ledger!vars)
  <2>1. IInv'
    BY <1>7 DEF End, IInv, TypeOK, BufferCoherent
  <2>2. Visible' = Visible /\ Fees(fee_pool)' = Fees(fee_pool)
    BY <1>7 DEF End, Visible, Row, load, Fees
  <2>3. /\ before'.balances = balances
        /\ before'.fee_pool = fee_pool
        /\ \A k \in BalanceKey : buffer[k] = None
    BY <1>7 DEF End, Untouched
  <2>4. Stored(before.balances)' = Visible
    BY <2>3 DEF Stored, Visible, Row, load
  <2>5. Committed' = [balance |-> Visible, fees |-> Fees(fee_pool)]
    BY <2>3, <2>4 DEF Committed, Fees
  <2>6. Ledger!Commit
    BY <2>2, <2>5 DEF Ledger!Commit
  <2>7. QED
    BY <2>1, <2>6 DEF Ledger!Next
<1>8. ASSUME Trap
      PROVE  IInv' /\ [Ledger!Next]_(Ledger!vars)
  <2>1. /\ balances' = before.balances
        /\ fee_pool' = before.fee_pool
        /\ before' = before
        /\ \A k \in BalanceKey : buffer'[k] = None
        /\ buffer' = [k \in BalanceKey |-> None]
    BY <1>8 DEF Trap, Untouched
  <2>2. IInv'
    BY <2>1 DEF IInv, TypeOK, BufferCoherent
  <2>3. Visible' = Stored(before.balances)
    BY <2>1 DEF Visible, Stored, Row, load
  <2>4. Fees(fee_pool)' = Fees(before.fee_pool) /\ Committed' = Committed
    BY <2>1 DEF Fees, Committed, Stored
  <2>5. Ledger!Abort
    BY <2>3, <2>4 DEF Ledger!Abort, Committed
  <2>6. QED
    BY <2>2, <2>5 DEF Ledger!Next
<1>9. ASSUME Upgrade
      PROVE  IInv' /\ [Ledger!Next]_(Ledger!vars)
  <2>1. fee_pool' = fee_pool
    BY <1>9, RestoreInverts DEF Upgrade, IInv, TypeOK
  <2>2. UNCHANGED vars
    BY <1>9, <2>1 DEF Upgrade, vars
  <2>3. QED
    BY <2>2, <1>same
<1>10. QED
  BY <1>1, <1>2, <1>3, <1>4, <1>5, <1>6, <1>7, <1>8, <1>9, <1>same DEF Next

\* The buffer always remembers correctly which of its rows the stable map
\* holds, so that load_existing never refuses a row that is there and never
\* debits one that is not.
THEOREM BufferAlwaysCoherent == Spec => []BufferCoherent
<1>1. Init => IInv
  BY InitSimulates
<1>2. IInv /\ [Next]_vars => IInv'
  BY StepSimulates
<1>3. IInv => BufferCoherent
  BY DEF IInv
<1>4. QED
  BY <1>1, <1>2, <1>3, PTL DEF Spec

\* The write-back buffer implements the ledger whose operations change the
\* balances in place and whose messages commit or abort as a whole.
THEOREM WriteBackImplementsLedger == Spec => WriteBackIsTransparent
<1>1. Init => IInv /\ Ledger!Init
  BY InitSimulates
<1>2. IInv /\ [Next]_vars => IInv' /\ [Ledger!Next]_(Ledger!vars)
  BY StepSimulates
<1>3. QED
  BY <1>1, <1>2, PTL DEF Spec, WriteBackIsTransparent, Ledger!Spec
=============================================================================
