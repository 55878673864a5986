---------------------------- MODULE FundingProofs ----------------------------
(***************************************************************************)
(* Proofs about Funding, for every set of principals, tokens and call      *)
(* contexts and every amount, fee and bound.                               *)
(***************************************************************************)
EXTENDS Funding, TLAPS

\* What the record of an open call says of the call: who made it, and that
\* amount and fee of the transfer a withdrawal asks for add up to its amount.
Shaped(k) ==
    /\ k.caller \in Principals
    /\ k.token \in Tokens
    /\ k.op \in {"deposit", "withdraw"}
    /\ k.op = "deposit" => k.transfer_amount = k.amount
    /\ k.op = "withdraw" => /\ k.caller \in users
                            /\ k.transfer_amount > 0
                            /\ k.transfer_amount + k.fee = k.amount

CallShape == \A c \in Calls : Live(c) => Shaped(calls[c])

Typed == TypeOK /\ CallShape

\* The type invariant in four parts, of which an action changes one or two.
RegistryTyped ==
    /\ users \subseteq Principals
    /\ trading_accounts \in [Principals -> Principals \cup {None}]
    /\ trading_accounts_by_funding \in
          [Principals -> [accounts : SUBSET Principals,
                          last_granted_at : Nat \cup {None}]]

SheetsTyped ==
    /\ free \in PerToken(Nat) /\ reserved \in PerToken(Nat)
    /\ fee_pool \in [Tokens -> Nat]
    /\ held \in PerToken(Int) /\ lost \in PerToken(Nat)

CallsTyped ==
    /\ now \in Nat
    /\ in_flight_user_ops \subseteq Principals \X Tokens
    /\ ledger_fee_cache \in [Tokens -> Nat]
    /\ calls \in [Calls -> Call]

LedgersTyped ==
    /\ ledger_fee \in [Tokens -> LedgerFees]
    /\ wallet \in PerToken(Nat)
    /\ custody \in [Tokens -> Int]

sheetVars == <<balanceVars, held, lost>>

USE FundingAssumption DEF FundingAssumption

\* The parts make up the type invariant.
LEMMA TypeParts ==
    /\ TypeOK <=> RegistryTyped /\ SheetsTyped /\ CallsTyped /\ LedgersTyped
    /\ Typed => RegistryTyped /\ SheetsTyped /\ CallsTyped /\ LedgersTyped
<1>1. TypeOK <=> RegistryTyped /\ SheetsTyped /\ CallsTyped /\ LedgersTyped
  BY Zenon DEF TypeOK, RegistryTyped, SheetsTyped, CallsTyped, LedgersTyped
<1> QED BY <1>1 DEF Typed

\* A part none of whose variables changes keeps its type.
LEMMA UnchangedTypes ==
    ASSUME Typed
    PROVE  /\ UNCHANGED registryVars => RegistryTyped'
           /\ UNCHANGED sheetVars => SheetsTyped'
           /\ UNCHANGED ledgerVars => LedgersTyped'
           /\ UNCHANGED <<now, in_flight_user_ops, ledger_fee_cache, calls>>
                 => CallsTyped'
<1>1. RegistryTyped /\ SheetsTyped /\ CallsTyped /\ LedgersTyped
  BY TypeParts
<1>2. UNCHANGED registryVars => RegistryTyped'
  BY <1>1 DEF RegistryTyped, registryVars
<1>3. UNCHANGED sheetVars => SheetsTyped'
  BY <1>1 DEF SheetsTyped, sheetVars, balanceVars
<1>4. UNCHANGED ledgerVars => LedgersTyped'
  BY <1>1 DEF LedgersTyped, ledgerVars
<1>5. UNCHANGED <<now, in_flight_user_ops, ledger_fee_cache, calls>>
         => CallsTyped'
  BY <1>1 DEF CallsTyped
<1> QED BY <1>2, <1>3, <1>4, <1>5

\* The types after a step, part by part.
LEMMA PartsTyped ==
    ASSUME RegistryTyped', SheetsTyped', CallsTyped', LedgersTyped'
    PROVE  TypeOK'
BY Zenon DEF TypeOK, RegistryTyped, SheetsTyped, CallsTyped, LedgersTyped

USE DEF registryVars, balanceVars, ledgerVars

-----------------------------------------------------------------------------
(* Facts about the operators the actions are written with.                 *)

\* Adding to one entry of a balance sheet of integers gives such a sheet.
LEMMA AddInt ==
    ASSUME NEW f \in PerToken(Int), NEW p \in Principals, NEW t \in Tokens,
           NEW x \in Int
    PROVE  /\ Add(f, p, t, x) \in PerToken(Int)
           /\ Add(f, p, t, x)[p][t] = f[p][t] + x
           /\ \A q \in Principals, u \in Tokens :
                 q # p \/ u # t => Add(f, p, t, x)[q][u] = f[q][u]
BY DEF PerToken, Add

\* Adding to one entry keeps a sheet natural if that entry stays natural.
LEMMA AddNat ==
    ASSUME NEW f \in PerToken(Nat), NEW p \in Principals, NEW t \in Tokens,
           NEW x \in Int, f[p][t] + x >= 0
    PROVE  /\ Add(f, p, t, x) \in PerToken(Nat)
           /\ Add(f, p, t, x)[p][t] = f[p][t] + x
           /\ \A q \in Principals, u \in Tokens :
                 q # p \/ u # t => Add(f, p, t, x)[q][u] = f[q][u]
BY DEF PerToken, Add

\* Adding to the canister's ledger account of one token keeps it an integer.
LEMMA AddCustody ==
    ASSUME custody \in [Tokens -> Int], NEW t \in Tokens, NEW x \in Int,
           custody' = [custody EXCEPT ![t] = @ + x]
    PROVE  /\ custody' \in [Tokens -> Int]
           /\ custody'[t] = custody[t] + x
           /\ \A u \in Tokens : u # t => custody'[u] = custody[u]
OBVIOUS

\* Replacing one open call by a well-typed one keeps the calls well typed.
LEMMA CallUpdate ==
    ASSUME calls \in [Calls -> Call], NEW c \in Calls, NEW r \in Call,
           calls' = [calls EXCEPT ![c] = r]
    PROVE  /\ calls' \in [Calls -> Call]
           /\ calls'[c] = r
           /\ \A d \in Calls : d # c => calls'[d] = calls[d]
OBVIOUS

\* The call a handler opens before its await (LedgerCall) is well typed.
LEMMA NewCall ==
    ASSUME NEW op \in {"deposit", "withdraw"}, NEW p \in Principals,
           NEW t \in Tokens, NEW a \in Nat, NEW n \in 1..2, NEW x \in Nat,
           NEW f \in Nat
    PROVE  LedgerCall(op, p, t, a, n, x, f) \in Call
BY DEF LedgerCall, Call

\* A free call context is well typed.
LEMMA NoCallIsCall == NoCall \in Call
BY DEF NoCall, Call

\* A reply changes the phase of a call, and for BadFee the fee it expects.
LEMMA ReplyKeepsCall ==
    ASSUME NEW k \in Call, NEW s \in {"ok", "err", "badfee"}
    PROVE  /\ [k EXCEPT !.pc = s] \in Call
           /\ [k EXCEPT !.pc = s].pc = s
           /\ [k EXCEPT !.pc = s].op = k.op
           /\ [k EXCEPT !.pc = s].caller = k.caller
           /\ [k EXCEPT !.pc = s].token = k.token
           /\ [k EXCEPT !.pc = s].amount = k.amount
           /\ [k EXCEPT !.pc = s].fee = k.fee
           /\ [k EXCEPT !.pc = s].transfer_amount = k.transfer_amount
BY DEF Call

\* The same for a BadFee reply, which also names the fee it expects.
LEMMA BadFeeKeepsCall ==
    ASSUME NEW k \in Call, NEW x \in Nat
    PROVE  LET r == [k EXCEPT !.pc = "badfee", !.expected_fee = x]
           IN  /\ r \in Call /\ r.pc = "badfee" /\ r.op = k.op
               /\ r.caller = k.caller /\ r.token = k.token
               /\ r.amount = k.amount /\ r.fee = k.fee
               /\ r.transfer_amount = k.transfer_amount
BY Zenon DEF Call

\* What the type invariant says of an open call.
LEMMA OpenCall ==
    ASSUME Typed, NEW c \in Calls, Live(c)
    PROVE  /\ calls[c] \in Call
           /\ calls[c].caller \in Principals /\ calls[c].token \in Tokens
           /\ calls[c].op \in {"deposit", "withdraw"}
           /\ calls[c].amount \in Nat /\ calls[c].transfer_amount \in Nat
           /\ calls[c].fee \in Nat /\ calls[c].expected_fee \in Nat
           /\ ledger_fee[calls[c].token] \in Nat
<1>1. calls[c] \in Call
  BY DEF Typed, TypeOK
<1>2. /\ calls[c].caller \in Principals /\ calls[c].token \in Tokens
      /\ calls[c].op \in {"deposit", "withdraw"}
  BY DEF Typed, CallShape, Shaped
<1>3. /\ calls[c].amount \in Nat /\ calls[c].transfer_amount \in Nat
      /\ calls[c].fee \in Nat /\ calls[c].expected_fee \in Nat
  BY <1>1 DEF Call
<1>4. ledger_fee[calls[c].token] \in Nat
  BY Zenon, <1>2 DEF Typed, TypeOK
<1> QED BY <1>1, <1>2, <1>3, <1>4

\* A step that changes one call only keeps the shape of the others.
LEMMA OneCallShape ==
    ASSUME CallShape, users \subseteq users', NEW c \in Calls,
           \A d \in Calls : d # c => calls'[d] = calls[d],
           Live(c)' => Shaped(calls[c])'
    PROVE  CallShape'
<1> SUFFICES ASSUME NEW d \in Calls, Live(d)' PROVE Shaped(calls[d])'
  BY DEF CallShape
<1>1. CASE d = c
  BY <1>1
<1>2. CASE d # c
  BY <1>2 DEF CallShape, Live, Shaped
<1> QED BY <1>1, <1>2

-----------------------------------------------------------------------------
(* Every action preserves the types and the shape of the calls.            *)

\* deposit up to its await keeps the types.
LEMMA DepositTypes ==
    ASSUME Typed, NEW c \in Calls, NEW p \in Principals, NEW t \in Tokens,
           NEW a \in Amounts, Deposit(c, p, t, a)
    PROVE  Typed'
<1> DEFINE r == LedgerCall("deposit", p, t, a, 1, a, 0)
<1>1. a \in Nat /\ r \in Call
  BY NewCall
<1>2. /\ calls' \in [Calls -> Call] /\ calls'[c] = r
      /\ \A d \in Calls : d # c => calls'[d] = calls[d]
  BY <1>1, CallUpdate DEF Typed, TypeOK, Deposit
<1>3. in_flight_user_ops' \subseteq Principals \X Tokens
  BY DEF Typed, TypeOK, Deposit, UserOpGuard
<1>4. TypeOK'
  <2>1. /\ UNCHANGED registryVars /\ UNCHANGED sheetVars
        /\ UNCHANGED ledgerVars /\ UNCHANGED <<now, ledger_fee_cache>>
    BY Zenon DEF Deposit, sheetVars
  <2>2. CallsTyped'
    BY <1>2, <1>3, <2>1, TypeParts DEF CallsTyped
  <2> QED BY <2>1, <2>2, UnchangedTypes, PartsTyped
<1>5. Shaped(calls[c])'
  BY <1>2 DEF Shaped, LedgerCall
<1>6. CallShape'
  BY <1>2, <1>5, OneCallShape DEF Typed, Deposit
<1> QED BY <1>4, <1>6 DEF Typed

\* withdraw up to its await keeps the types: the debit is covered and the
\* capped fee leaves a positive transfer amount.
LEMMA WithdrawTypes ==
    ASSUME Typed, NEW c \in Calls, NEW p \in Principals, NEW t \in Tokens,
           NEW a \in Amounts, Withdraw(c, p, t, a)
    PROVE  Typed'
<1> DEFINE fee == capped_fee(t, a)
           r == LedgerCall("withdraw", p, t, a, 1, a - fee, fee)
<1>1. a \in Nat /\ a > 0 /\ p \in users /\ free[p][t] >= a
  BY Zenon DEF Withdraw, IsFunding
<1>2. fee \in Nat /\ a - fee \in Nat /\ a - fee > 0
  BY <1>1 DEF capped_fee, Typed, TypeOK
<1>3. r \in Call
  BY <1>1, <1>2, NewCall
<1>4. /\ calls' \in [Calls -> Call] /\ calls'[c] = r
      /\ \A d \in Calls : d # c => calls'[d] = calls[d]
  BY <1>3, CallUpdate DEF Typed, TypeOK, Withdraw
<1>5. in_flight_user_ops' \subseteq Principals \X Tokens
  BY DEF Typed, TypeOK, Withdraw, UserOpGuard
<1>6. free' \in PerToken(Nat)
  <2>1. free[p][t] + (-a) >= 0 /\ -a \in Int /\ free \in PerToken(Nat)
    BY <1>1 DEF Typed, TypeOK, PerToken
  <2> QED BY <2>1, AddNat DEF Withdraw
<1>7. TypeOK'
  <2>1. /\ UNCHANGED registryVars /\ UNCHANGED ledgerVars
        /\ UNCHANGED <<reserved, fee_pool, held, lost, now, ledger_fee_cache>>
    BY Zenon DEF Withdraw
  <2>2. CallsTyped'
    BY <1>4, <1>5, <2>1, TypeParts DEF CallsTyped
  <2>3. SheetsTyped'
    BY <1>6, <2>1, TypeParts DEF SheetsTyped
  <2> QED BY <2>1, <2>2, <2>3, UnchangedTypes, PartsTyped
<1>8. Shaped(calls[c])'
  BY <1>1, <1>2, <1>4 DEF Shaped, LedgerCall, Withdraw
<1>9. CallShape'
  BY <1>4, <1>8, OneCallShape DEF Typed, Withdraw
<1> QED BY <1>7, <1>9 DEF Typed

\* A successful icrc2_transfer_from keeps the types.
LEMMA TransferFromOkTypes ==
    ASSUME Typed, NEW c \in Calls, TransferFromOk(c)
    PROVE  Typed'
<1> DEFINE k == calls[c]
           r == [k EXCEPT !.pc = "ok"]
           n == k.amount + ledger_fee[k.token]
<1>1. Live(c) /\ Shaped(k)
  BY DEF Live, TransferFromOk, Typed, CallShape
<1>2. /\ k \in Call /\ k.caller \in Principals /\ k.token \in Tokens
      /\ k.transfer_amount \in Nat /\ n \in Nat
  BY <1>1, OpenCall
<1>3. /\ r \in Call /\ r.op = k.op /\ r.caller = k.caller
      /\ r.token = k.token /\ r.amount = k.amount /\ r.fee = k.fee
      /\ r.transfer_amount = k.transfer_amount
  BY Zenon, <1>2, ReplyKeepsCall
<1>4. /\ calls' \in [Calls -> Call] /\ calls'[c] = r
      /\ \A d \in Calls : d # c => calls'[d] = calls[d]
  <2>1. calls' = [calls EXCEPT ![c] = r]
    BY DEF TransferFromOk, Answer
  <2> HIDE DEF r
  <2> QED BY <1>3, <2>1, CallUpdate DEF Typed, TypeOK
<1>5. wallet' \in PerToken(Nat)
  <2>1. wallet[k.caller][k.token] + (-n) >= 0 /\ wallet \in PerToken(Nat)
    BY <1>2 DEF TransferFromOk, Typed, TypeOK, PerToken
  <2>2. wallet' = Add(wallet, k.caller, k.token, -n)
    BY DEF TransferFromOk
  <2> HIDE DEF k, n
  <2> QED BY <1>2, <2>1, <2>2, AddNat
<1>6. held' \in PerToken(Int)
  <2>1. held' = Add(held, k.caller, k.token, k.transfer_amount)
    BY DEF TransferFromOk
  <2> QED BY <1>2, <2>1, AddInt DEF Typed, TypeOK
<1>60. custody' \in [Tokens -> Int]
  <2>1. custody' = [custody EXCEPT ![k.token] = @ + k.transfer_amount]
    BY DEF TransferFromOk
  <2>2. custody \in [Tokens -> Int]
    BY TypeParts DEF LedgersTyped
  <2> HIDE DEF k, n
  <2> QED BY <1>2, <2>1, <2>2
<1>7. TypeOK'
  <2>1. /\ UNCHANGED registryVars
        /\ UNCHANGED <<free, reserved, fee_pool, lost, now,
                        in_flight_user_ops, ledger_fee_cache, ledger_fee>>
    BY Zenon DEF TransferFromOk
  <2>2. CallsTyped'
    BY <1>4, <2>1, TypeParts DEF CallsTyped
  <2>3. SheetsTyped'
    BY <1>6, <2>1, TypeParts DEF SheetsTyped
  <2>4. LedgersTyped'
    BY <1>5, <1>60, <2>1, TypeParts DEF LedgersTyped
  <2> QED BY <2>1, <2>2, <2>3, <2>4, UnchangedTypes, PartsTyped
<1>8. Shaped(calls[c])'
  BY <1>1, <1>3, <1>4 DEF Shaped, TransferFromOk
<1>9. CallShape'
  BY <1>4, <1>8, OneCallShape DEF Typed, TransferFromOk
<1> QED BY <1>7, <1>9 DEF Typed

\* A successful icrc1_transfer keeps the types.
LEMMA TransferOkTypes ==
    ASSUME Typed, NEW c \in Calls, TransferOk(c)
    PROVE  Typed'
<1> DEFINE k == calls[c]
           r == [k EXCEPT !.pc = "ok"]
           n == k.transfer_amount + k.fee
<1>1. Live(c) /\ Shaped(k)
  BY DEF Live, TransferOk, Typed, CallShape
<1>2. /\ k \in Call /\ k.caller \in Principals /\ k.token \in Tokens
      /\ k.transfer_amount \in Nat /\ n \in Nat
  BY <1>1, OpenCall
<1>3. /\ r \in Call /\ r.op = k.op /\ r.caller = k.caller
      /\ r.token = k.token /\ r.amount = k.amount /\ r.fee = k.fee
      /\ r.transfer_amount = k.transfer_amount
  BY Zenon, <1>2, ReplyKeepsCall
<1>4. /\ calls' \in [Calls -> Call] /\ calls'[c] = r
      /\ \A d \in Calls : d # c => calls'[d] = calls[d]
  <2>1. calls' = [calls EXCEPT ![c] = r]
    BY DEF TransferOk, Answer
  <2> HIDE DEF r
  <2> QED BY <1>3, <2>1, CallUpdate DEF Typed, TypeOK
<1>5. wallet' \in PerToken(Nat)
  <2>1. /\ wallet[k.caller][k.token] + k.transfer_amount >= 0
        /\ wallet \in PerToken(Nat)
    BY <1>2 DEF Typed, TypeOK, PerToken
  <2>2. wallet' = Add(wallet, k.caller, k.token, k.transfer_amount)
    BY DEF TransferOk
  <2> HIDE DEF k
  <2> QED BY <1>2, <2>1, <2>2, AddNat
<1>6. held' \in PerToken(Int)
  <2>1. held' = Add(held, k.caller, k.token, -n) /\ -n \in Int
    BY <1>2 DEF TransferOk
  <2> QED BY <1>2, <2>1, AddInt DEF Typed, TypeOK
<1>60. custody' \in [Tokens -> Int]
  <2>1. custody' = [custody EXCEPT ![k.token] = @ - n]
    BY DEF TransferOk
  <2>2. custody \in [Tokens -> Int]
    BY TypeParts DEF LedgersTyped
  <2> HIDE DEF k, n
  <2> QED BY <1>2, <2>1, <2>2
<1>7. TypeOK'
  <2>1. /\ UNCHANGED registryVars
        /\ UNCHANGED <<free, reserved, fee_pool, lost, now,
                        in_flight_user_ops, ledger_fee_cache, ledger_fee>>
    BY Zenon DEF TransferOk
  <2>2. CallsTyped'
    BY <1>4, <2>1, TypeParts DEF CallsTyped
  <2>3. SheetsTyped'
    BY <1>6, <2>1, TypeParts DEF SheetsTyped
  <2>4. LedgersTyped'
    BY <1>5, <1>60, <2>1, TypeParts DEF LedgersTyped
  <2> QED BY <2>1, <2>2, <2>3, <2>4, UnchangedTypes, PartsTyped
<1>8. Shaped(calls[c])'
  BY <1>1, <1>3, <1>4 DEF Shaped, TransferOk
<1>9. CallShape'
  BY <1>4, <1>8, OneCallShape DEF Typed, TransferOk
<1> QED BY <1>7, <1>9 DEF Typed

\* A BadFee reply keeps the types.
LEMMA TransferBadFeeTypes ==
    ASSUME Typed, NEW c \in Calls, TransferBadFee(c)
    PROVE  Typed'
<1> DEFINE k == calls[c]
           r == [k EXCEPT !.pc = "badfee", !.expected_fee = ledger_fee[k.token]]
<1>1. Live(c) /\ Shaped(k)
  BY DEF Live, TransferBadFee, Typed, CallShape
<1>2. k \in Call /\ ledger_fee[k.token] \in Nat
  BY <1>1, OpenCall
<1>3. /\ r \in Call /\ r.op = k.op /\ r.caller = k.caller
      /\ r.token = k.token /\ r.amount = k.amount /\ r.fee = k.fee
      /\ r.transfer_amount = k.transfer_amount
  BY Zenon, <1>2, BadFeeKeepsCall
<1>4. /\ calls' \in [Calls -> Call] /\ calls'[c] = r
      /\ \A d \in Calls : d # c => calls'[d] = calls[d]
  <2>1. calls' = [calls EXCEPT ![c] = r]
    BY DEF TransferBadFee, Answer
  <2> HIDE DEF r
  <2> QED BY <1>3, <2>1, CallUpdate DEF Typed, TypeOK
<1>5. TypeOK'
  <2>1. /\ UNCHANGED registryVars /\ UNCHANGED sheetVars
        /\ UNCHANGED ledgerVars
        /\ UNCHANGED <<now, in_flight_user_ops, ledger_fee_cache>>
    BY Zenon DEF TransferBadFee, sheetVars
  <2>2. CallsTyped'
    BY <1>4, <2>1, TypeParts DEF CallsTyped
  <2> QED BY <2>1, <2>2, UnchangedTypes, PartsTyped
<1>6. Shaped(calls[c])'
  BY <1>1, <1>3, <1>4 DEF Shaped, TransferBadFee
<1>7. CallShape'
  BY <1>4, <1>6, OneCallShape DEF Typed, TransferBadFee
<1> QED BY <1>5, <1>7 DEF Typed

\* A refusal of the ledger keeps the types.
LEMMA LedgerRefusesTypes ==
    ASSUME Typed, NEW c \in Calls, LedgerRefuses(c)
    PROVE  Typed'
<1> DEFINE k == calls[c]
           r == [k EXCEPT !.pc = "err"]
<1>1. Live(c) /\ Shaped(k)
  BY DEF Live, LedgerRefuses, Typed, CallShape
<1>2. k \in Call
  BY <1>1, OpenCall
<1>3. /\ r \in Call /\ r.op = k.op /\ r.caller = k.caller
      /\ r.token = k.token /\ r.amount = k.amount /\ r.fee = k.fee
      /\ r.transfer_amount = k.transfer_amount
  BY Zenon, <1>2, ReplyKeepsCall
<1>4. /\ calls' \in [Calls -> Call] /\ calls'[c] = r
      /\ \A d \in Calls : d # c => calls'[d] = calls[d]
  <2>1. calls' = [calls EXCEPT ![c] = r]
    BY DEF LedgerRefuses, Answer
  <2> HIDE DEF r
  <2> QED BY <1>3, <2>1, CallUpdate DEF Typed, TypeOK
<1>5. TypeOK'
  <2>1. /\ UNCHANGED registryVars /\ UNCHANGED sheetVars
        /\ UNCHANGED ledgerVars
        /\ UNCHANGED <<now, in_flight_user_ops, ledger_fee_cache>>
    BY Zenon DEF LedgerRefuses, sheetVars
  <2>2. CallsTyped'
    BY <1>4, <2>1, TypeParts DEF CallsTyped
  <2> QED BY <2>1, <2>2, UnchangedTypes, PartsTyped
<1>6. Shaped(calls[c])'
  BY <1>1, <1>3, <1>4 DEF Shaped, LedgerRefuses
<1>7. CallShape'
  BY <1>4, <1>6, OneCallShape DEF Typed, LedgerRefuses
<1> QED BY <1>5, <1>7 DEF Typed

\* A handler that returns frees its call context.
LEMMA CloseCall ==
    ASSUME Typed, users \subseteq users', NEW c \in Calls,
           calls' = [calls EXCEPT ![c] = NoCall]
    PROVE  /\ calls' \in [Calls -> Call] /\ ~Live(c)'
           /\ \A d \in Calls : d # c => calls'[d] = calls[d]
           /\ CallShape'
<1>1. /\ calls' \in [Calls -> Call] /\ calls'[c] = NoCall
      /\ \A d \in Calls : d # c => calls'[d] = calls[d]
  BY NoCallIsCall, CallUpdate DEF Typed, TypeOK
<1>2. ~Live(c)'
  BY <1>1 DEF Live, NoCall
<1> QED BY <1>1, <1>2, OneCallShape DEF Typed

\* What State::deposit leaves behind, whether it credits or traps.
LEMMA CreditTypes ==
    ASSUME Typed, NEW k \in Call, k.caller \in Principals, k.token \in Tokens,
           deposit(k)
    PROVE  /\ users' \subseteq Principals /\ users \subseteq users'
           /\ free' \in PerToken(Nat) /\ lost' \in PerToken(Nat)
<1>0. /\ k.amount \in Nat /\ k.amount \in Int
      /\ free \in PerToken(Nat) /\ lost \in PerToken(Nat)
      /\ users \subseteq Principals
  BY DEF Call, Typed, TypeOK
<1>1. CASE Fits(k)
  <2>1. free[k.caller][k.token] + k.amount >= 0
    BY <1>0 DEF PerToken
  <2>2. free' = Add(free, k.caller, k.token, k.amount)
    BY <1>1 DEF deposit
  <2>3. free' \in PerToken(Nat)
    BY <1>0, <2>1, <2>2, AddNat
  <2> QED BY <1>0, <1>1, <2>3 DEF deposit
<1>2. CASE ~Fits(k)
  <2>1. lost[k.caller][k.token] + k.amount >= 0
    BY <1>0 DEF PerToken
  <2>2. lost' = Add(lost, k.caller, k.token, k.amount)
    BY <1>2 DEF deposit
  <2>3. lost' \in PerToken(Nat)
    BY <1>0, <2>1, <2>2, AddNat
  <2> QED BY <1>0, <1>2, <2>3 DEF deposit
<1> QED BY <1>1, <1>2

\* The fee cache holds natural numbers (set_cached_ledger_fee).
LEMMA CacheTypes ==
    ASSUME Typed, NEW k \in Call, k.token \in Tokens, set_cached_ledger_fee(k)
    PROVE  ledger_fee_cache' \in [Tokens -> Nat]
<1>1. k.expected_fee \in Nat /\ k.fee \in Nat
  BY DEF Call
<1>2. ledger_fee_cache[k.token] \in Nat
  BY DEF Typed, TypeOK
<1> QED BY <1>1, <1>2 DEF Typed, TypeOK, set_cached_ledger_fee

\* The continuation of a deposit that succeeded keeps the types.
LEMMA DepositDoneTypes ==
    ASSUME Typed, NEW c \in Calls, DepositDone(c)
    PROVE  Typed'
<1> DEFINE k == calls[c]
<1>1. k \in Call /\ k.caller \in Principals /\ k.token \in Tokens
  <2>1. Live(c)
    BY DEF DepositDone, Live
  <2> QED BY <2>1, OpenCall
<1>2. /\ users' \subseteq Principals /\ users \subseteq users'
      /\ free' \in PerToken(Nat) /\ lost' \in PerToken(Nat)
  BY <1>1, CreditTypes DEF DepositDone
<1>3. calls' \in [Calls -> Call] /\ CallShape'
  BY Zenon, <1>2, CloseCall DEF DepositDone
<1>4. in_flight_user_ops' \subseteq Principals \X Tokens
  BY DEF DepositDone, DropGuard, Typed, TypeOK
<1>5. /\ UNCHANGED <<trading_accounts, trading_accounts_by_funding, reserved,
                      fee_pool, held, now, ledger_fee_cache>>
      /\ UNCHANGED ledgerVars
  BY Zenon DEF DepositDone
<1>6. CallsTyped'
  BY <1>3, <1>4, <1>5, TypeParts DEF CallsTyped
<1>7. SheetsTyped' /\ RegistryTyped'
  BY <1>2, <1>5, TypeParts DEF SheetsTyped, RegistryTyped
<1> QED BY <1>3, <1>5, <1>6, <1>7, UnchangedTypes, PartsTyped DEF Typed

\* The continuation of a deposit that failed keeps the types.
LEMMA DepositFailedTypes ==
    ASSUME Typed, NEW c \in Calls, DepositFailed(c)
    PROVE  Typed'
<1>1. calls' \in [Calls -> Call] /\ CallShape'
  BY Zenon, CloseCall DEF DepositFailed
<1>2. in_flight_user_ops' \subseteq Principals \X Tokens
  BY DEF DepositFailed, DropGuard, Typed, TypeOK
<1>3. /\ UNCHANGED registryVars /\ UNCHANGED sheetVars
      /\ UNCHANGED ledgerVars /\ UNCHANGED <<now, ledger_fee_cache>>
  BY Zenon DEF DepositFailed, sheetVars
<1>4. CallsTyped'
  BY <1>1, <1>2, <1>3, TypeParts DEF CallsTyped
<1> QED BY <1>1, <1>3, <1>4, UnchangedTypes, PartsTyped DEF Typed

\* The continuation of a withdrawal that succeeded keeps the types.
LEMMA WithdrawDoneTypes ==
    ASSUME Typed, NEW c \in Calls, WithdrawDone(c)
    PROVE  Typed'
<1> DEFINE k == calls[c]
<1>1. k \in Call /\ k.token \in Tokens
  <2>1. Live(c)
    BY DEF WithdrawDone, Live
  <2> QED BY <2>1, OpenCall
<1>2. calls' \in [Calls -> Call] /\ CallShape'
  BY Zenon, CloseCall DEF WithdrawDone
<1>3. in_flight_user_ops' \subseteq Principals \X Tokens
  BY DEF WithdrawDone, DropGuard, Typed, TypeOK
<1>4. ledger_fee_cache' \in [Tokens -> Nat]
  BY <1>1, CacheTypes DEF WithdrawDone
<1>5. /\ UNCHANGED registryVars /\ UNCHANGED sheetVars
      /\ UNCHANGED ledgerVars /\ UNCHANGED now
  BY Zenon DEF WithdrawDone, sheetVars
<1>6. CallsTyped'
  BY <1>2, <1>3, <1>4, <1>5, TypeParts DEF CallsTyped
<1> QED BY <1>2, <1>5, <1>6, UnchangedTypes, PartsTyped DEF Typed

\* The continuation of a withdrawal that failed keeps the types.
LEMMA WithdrawFailedTypes ==
    ASSUME Typed, NEW c \in Calls, WithdrawFailed(c)
    PROVE  Typed'
<1> DEFINE k == calls[c]
<1>1. k \in Call /\ k.caller \in Principals /\ k.token \in Tokens
  <2>1. Live(c)
    BY DEF WithdrawFailed, Live
  <2> QED BY <2>1, OpenCall
<1>2. /\ users' \subseteq Principals /\ users \subseteq users'
      /\ free' \in PerToken(Nat) /\ lost' \in PerToken(Nat)
  BY <1>1, CreditTypes DEF WithdrawFailed
<1>3. calls' \in [Calls -> Call] /\ CallShape'
  BY Zenon, <1>2, CloseCall DEF WithdrawFailed
<1>4. in_flight_user_ops' \subseteq Principals \X Tokens
  BY DEF WithdrawFailed, DropGuard, Typed, TypeOK
<1>5. ledger_fee_cache' \in [Tokens -> Nat]
  <2>1. CASE Fits(k)
    BY <1>1, <2>1, CacheTypes DEF WithdrawFailed
  <2>2. CASE ~Fits(k)
    BY <2>2 DEF WithdrawFailed, Typed, TypeOK
  <2> QED BY <2>1, <2>2
<1>6. /\ UNCHANGED <<trading_accounts, trading_accounts_by_funding, reserved,
                      fee_pool, held, now>>
      /\ UNCHANGED ledgerVars
  BY Zenon DEF WithdrawFailed
<1>7. CallsTyped'
  BY <1>3, <1>4, <1>5, <1>6, TypeParts DEF CallsTyped
<1>8. SheetsTyped' /\ RegistryTyped'
  BY <1>2, <1>6, TypeParts DEF SheetsTyped, RegistryTyped
<1> QED BY <1>3, <1>6, <1>7, <1>8, UnchangedTypes, PartsTyped DEF Typed

\* The retry keeps the types: its amount exceeds the fee it pays
\* (ledger::withdraw).
LEMMA WithdrawRetryTypes ==
    ASSUME Typed, NEW c \in Calls, WithdrawRetry(c)
    PROVE  Typed'
<1> DEFINE k == calls[c]
           r == LedgerCall("withdraw", k.caller, k.token, k.amount, 2,
                           k.amount - k.expected_fee, k.expected_fee)
<1>1. Live(c) /\ Shaped(k) /\ k.op = "withdraw" /\ k.amount > k.expected_fee
  BY DEF Live, WithdrawRetry, retries, Typed, CallShape
<1>2. /\ k.caller \in Principals /\ k.token \in Tokens
      /\ k.amount \in Nat /\ k.expected_fee \in Nat
      /\ k.amount - k.expected_fee \in Nat
  BY <1>1, OpenCall
<1>3. r \in Call
  BY <1>2, NewCall
<1>4. /\ calls' \in [Calls -> Call] /\ calls'[c] = r
      /\ \A d \in Calls : d # c => calls'[d] = calls[d]
  <2>1. calls' = [calls EXCEPT ![c] = r]
    BY DEF WithdrawRetry
  <2> HIDE DEF r
  <2> QED BY <1>3, <2>1, CallUpdate DEF Typed, TypeOK
<1>5. TypeOK'
  <2>1. /\ UNCHANGED registryVars /\ UNCHANGED sheetVars
        /\ UNCHANGED ledgerVars
        /\ UNCHANGED <<now, in_flight_user_ops, ledger_fee_cache>>
    BY Zenon DEF WithdrawRetry, sheetVars
  <2>2. CallsTyped'
    BY <1>4, <2>1, TypeParts DEF CallsTyped
  <2> QED BY <2>1, <2>2, UnchangedTypes, PartsTyped
<1>6. Shaped(calls[c])'
  BY <1>1, <1>2, <1>4 DEF Shaped, LedgerCall, WithdrawRetry
<1>7. CallShape'
  BY <1>4, <1>6, OneCallShape DEF Typed, WithdrawRetry
<1> QED BY <1>5, <1>7 DEF Typed

\* Steps that touch neither the calls nor the users keep CallShape.
LEMMA SameCallsShape ==
    ASSUME CallShape, UNCHANGED <<users, calls>>
    PROVE  CallShape'
BY DEF CallShape, Live, Shaped

\* Reserving, unreserving and transferring keep the types.
LEMMA TradingTypes ==
    ASSUME Typed, Trading
    PROVE  Typed'
<1>0. /\ free \in PerToken(Nat) /\ reserved \in PerToken(Nat)
      /\ held \in PerToken(Int)
      /\ trading_accounts \in [Principals -> Principals \cup {None}]
  BY DEF Typed, TypeOK
<1> PICK p \in Principals, t \in Tokens, x \in Amounts \ {0} :
        \/ Reserve(p, t, x)
        \/ Unreserve(p, t, x)
        \/ \E q \in Principals, fee \in 0 .. x : Transfer(p, q, t, x, fee)
  BY DEF Trading
<1>1. x \in Nat /\ x \in Int /\ -x \in Int
  OBVIOUS
<1>10. /\ UNCHANGED registryVars /\ UNCHANGED ledgerVars /\ UNCHANGED lost
       /\ UNCHANGED <<now, in_flight_user_ops, ledger_fee_cache, calls>>
  BY Zenon DEF Reserve, Unreserve, Transfer
<1>11. RegistryTyped' /\ LedgersTyped' /\ CallsTyped' /\ CallShape'
  <2>1. CallShape /\ UNCHANGED <<users, calls>>
    BY <1>10 DEF Typed
  <2> QED BY <1>10, <2>1, UnchangedTypes, SameCallsShape
<1>12. SUFFICES SheetsTyped'
  BY <1>11, PartsTyped DEF Typed
<1>2. CASE Reserve(p, t, x)
  <2> DEFINE owner == effective_account(p)
  <2>1. owner \in Principals
    BY <1>0 DEF effective_account, IsTrading
  <2>2. /\ free' = Add(free, owner, t, -x)
        /\ reserved' = Add(reserved, owner, t, x) /\ free[owner][t] >= x
    BY <1>2 DEF Reserve
  <2> HIDE DEF owner
  <2>3. free[owner][t] + (-x) >= 0 /\ reserved[owner][t] + x >= 0
    BY <1>0, <1>1, <2>1, <2>2 DEF PerToken
  <2>4. free' \in PerToken(Nat) /\ reserved' \in PerToken(Nat)
    BY <1>0, <1>1, <2>1, <2>2, <2>3, AddNat
  <2>5. UNCHANGED <<fee_pool, held>>
    BY <1>2 DEF Reserve
  <2> QED BY <2>4, <2>5, <1>10, TypeParts DEF SheetsTyped
<1>3. CASE Unreserve(p, t, x)
  <2>1. /\ free' = Add(free, p, t, x)
        /\ reserved' = Add(reserved, p, t, -x) /\ reserved[p][t] >= x
    BY <1>3 DEF Unreserve
  <2>2. free[p][t] + x >= 0 /\ reserved[p][t] + (-x) >= 0
    BY <1>0, <1>1, <2>1 DEF PerToken
  <2>3. free' \in PerToken(Nat) /\ reserved' \in PerToken(Nat)
    BY <1>0, <1>1, <2>1, <2>2, AddNat
  <2>5. UNCHANGED <<fee_pool, held>>
    BY <1>3 DEF Unreserve
  <2> QED BY <2>3, <2>5, <1>10, TypeParts DEF SheetsTyped
<1>4. ASSUME NEW q \in Principals, NEW fee \in 0 .. x, Transfer(p, q, t, x, fee)
      PROVE  SheetsTyped'
  <2>0. PICK net \in Nat : net = x - fee /\ fee \in Nat
    BY <1>1
  <2>1. /\ free' = Add(free, q, t, net)
        /\ reserved' = Add(reserved, p, t, -x) /\ reserved[p][t] >= x
        /\ held' = Add(Add(held, p, t, -x), q, t, net)
        /\ fee_pool' = [fee_pool EXCEPT ![t] = @ + fee]
    BY <1>4, <2>0 DEF Transfer
  <2>2. free[q][t] + net >= 0 /\ reserved[p][t] + (-x) >= 0
    BY <1>0, <1>1, <2>0, <2>1 DEF PerToken
  <2>3. free' \in PerToken(Nat) /\ reserved' \in PerToken(Nat)
    BY <1>0, <1>1, <2>0, <2>1, <2>2, AddNat
  <2>4. Add(held, p, t, -x) \in PerToken(Int)
    BY <1>0, <1>1, AddInt
  <2>5. held' \in PerToken(Int)
    BY <2>0, <2>1, <2>4, AddInt
  <2>6. fee_pool' \in [Tokens -> Nat]
    BY <2>0, <2>1 DEF Typed, TypeOK
  <2> QED BY <2>3, <2>5, <2>6, <1>10, TypeParts DEF SheetsTyped
<1> QED BY <1>2, <1>3, <1>4

\* Grants and revocations keep the types.
LEMMA DelegationTypes ==
    ASSUME Typed, Delegation
    PROVE  Typed'
<1> PICK f \in Principals, tr \in Principals :
        AddTradingAccount(f, tr) \/ RemoveTradingAccount(f, tr)
  BY DEF Delegation
<1> DEFINE Lists == [accounts : SUBSET Principals,
                     last_granted_at : Nat \cup {None}]
<1>0. /\ trading_accounts_by_funding \in [Principals -> Lists]
      /\ trading_accounts_by_funding[f].accounts \subseteq Principals
      /\ now \in Nat
  BY DEF Typed, TypeOK
<1>1. CASE AddTradingAccount(f, tr)
  <2>1. trading_accounts' \in [Principals -> Principals \cup {None}]
    BY <1>1 DEF AddTradingAccount, Typed, TypeOK
  <2>2. trading_accounts_by_funding' \in [Principals -> Lists]
    BY <1>0, <1>1 DEF AddTradingAccount
  <2>3. /\ UNCHANGED sheetVars /\ UNCHANGED ledgerVars /\ UNCHANGED users
        /\ UNCHANGED <<now, in_flight_user_ops, ledger_fee_cache, calls>>
    BY <1>1, Zenon DEF AddTradingAccount, sheetVars
  <2>4. RegistryTyped'
    BY <2>1, <2>2, <2>3, TypeParts DEF RegistryTyped
  <2> QED BY <2>3, <2>4, UnchangedTypes, PartsTyped, SameCallsShape DEF Typed
<1>2. CASE RemoveTradingAccount(f, tr)
  <2>1. trading_accounts' \in [Principals -> Principals \cup {None}]
    BY <1>2 DEF RemoveTradingAccount, Typed, TypeOK
  <2>2. trading_accounts_by_funding' \in [Principals -> Lists]
    BY <1>0, <1>2 DEF RemoveTradingAccount, record_remove_trading_account
  <2>3. /\ UNCHANGED sheetVars /\ UNCHANGED ledgerVars /\ UNCHANGED users
        /\ UNCHANGED <<now, in_flight_user_ops, ledger_fee_cache, calls>>
    BY <1>2, Zenon DEF RemoveTradingAccount, sheetVars
  <2>4. RegistryTyped'
    BY <2>1, <2>2, <2>3, TypeParts DEF RegistryTyped
  <2> QED BY <2>3, <2>4, UnchangedTypes, PartsTyped, SameCallsShape DEF Typed
<1> QED BY <1>1, <1>2

\* The initial state is well typed.
LEMMA TypedInit == Init => Typed
<1> SUFFICES ASSUME Init PROVE Typed
  OBVIOUS
<1>1. Zero \in PerToken(Nat) /\ Zero \in PerToken(Int)
  BY DEF Zero, PerToken
<1>2. \A c \in Calls : calls[c] = NoCall
  BY DEF Init
<1>3. calls \in [Calls -> Call]
  BY <1>2, NoCallIsCall DEF Init
<1>4. wallet \in PerToken(Nat)
  BY DEF Init, PerToken
<1>5. TypeOK
  <2>1. RegistryTyped
    BY DEF Init, RegistryTyped, NoList
  <2>2. SheetsTyped
    BY <1>1 DEF Init, SheetsTyped
  <2>3. CallsTyped
    BY <1>3 DEF Init, CallsTyped
  <2>4. LedgersTyped
    BY <1>4 DEF Init, LedgersTyped
  <2> QED BY <2>1, <2>2, <2>3, <2>4, TypeParts
<1>6. CallShape
  BY <1>2 DEF CallShape, Live, NoCall
<1> QED BY <1>5, <1>6 DEF Typed

\* Every step keeps the types and the shape of the open calls.
LEMMA TypedStep == Typed /\ [Next]_vars => Typed'
<1> SUFFICES ASSUME Typed, [Next]_vars PROVE Typed'
  OBVIOUS
<1>1. CASE Request
  BY <1>1, DepositTypes, WithdrawTypes DEF Request
<1>2. ASSUME NEW c \in Calls, Ledger(c) PROVE Typed'
  BY <1>2, TransferFromOkTypes, TransferOkTypes, TransferBadFeeTypes,
     LedgerRefusesTypes DEF Ledger
<1>3. ASSUME NEW c \in Calls, Callback(c) PROVE Typed'
  BY <1>3, DepositDoneTypes, DepositFailedTypes, WithdrawDoneTypes,
     WithdrawRetryTypes, WithdrawFailedTypes DEF Callback
<1>4. ASSUME NEW t \in Tokens, NEW f \in LedgerFees, LedgerFeeChange(t, f)
      PROVE  Typed'
  <2>1. /\ UNCHANGED registryVars /\ UNCHANGED sheetVars
        /\ UNCHANGED <<wallet, custody>>
        /\ UNCHANGED <<now, in_flight_user_ops, ledger_fee_cache, calls>>
        /\ ledger_fee' = [ledger_fee EXCEPT ![t] = f]
    BY <1>4, Zenon DEF LedgerFeeChange, sheetVars
  <2>2. LedgersTyped'
    BY <2>1, TypeParts DEF LedgersTyped
  <2> QED BY <2>1, <2>2, UnchangedTypes, PartsTyped, SameCallsShape DEF Typed
<1>5. CASE Trading
  BY <1>5, TradingTypes
<1>6. CASE Delegation
  BY <1>6, DelegationTypes
<1>7. CASE Tick
  <2>1. /\ UNCHANGED registryVars /\ UNCHANGED sheetVars /\ UNCHANGED ledgerVars
        /\ UNCHANGED <<in_flight_user_ops, ledger_fee_cache, calls>>
        /\ now' = now + 1
    BY <1>7, Zenon DEF Tick, sheetVars
  <2>2. CallsTyped'
    BY <2>1, TypeParts DEF CallsTyped
  <2> QED BY <2>1, <2>2, UnchangedTypes, PartsTyped, SameCallsShape DEF Typed
<1>8. CASE Upgrade
  <2>1. /\ UNCHANGED registryVars /\ UNCHANGED sheetVars /\ UNCHANGED ledgerVars
        /\ UNCHANGED <<now, ledger_fee_cache, calls>>
        /\ in_flight_user_ops' = {}
    BY <1>8, Zenon DEF Upgrade, sheetVars
  <2>2. CallsTyped'
    BY <2>1, TypeParts DEF CallsTyped
  <2> QED BY <2>1, <2>2, UnchangedTypes, PartsTyped, SameCallsShape DEF Typed
<1>9. CASE UNCHANGED vars
  <2>1. /\ UNCHANGED registryVars /\ UNCHANGED sheetVars /\ UNCHANGED ledgerVars
        /\ UNCHANGED <<now, in_flight_user_ops, ledger_fee_cache, calls>>
    BY <1>9, Zenon DEF vars, sheetVars
  <2> QED BY <2>1, UnchangedTypes, PartsTyped, SameCallsShape DEF Typed
<1> QED BY <1>1, <1>2, <1>3, <1>4, <1>5, <1>6, <1>7, <1>8, <1>9 DEF Next

\* The inductive type invariant holds in every reachable state.
LEMMA AlwaysTyped == Spec => []Typed
BY TypedInit, TypedStep, PTL DEF Spec

\* Type correctness: whatever the ledgers answer and however requests,
\* callbacks, trading and upgrades interleave, no balance goes negative and
\* the subtractions of ledger::withdraw (amount less fee) never underflow.
THEOREM TypeCorrect == Spec => []TypeOK
<1>1. Typed => TypeOK
  BY DEF Typed
<1> QED BY <1>1, AlwaysTyped, PTL

-----------------------------------------------------------------------------
(* The guard set is the set of open calls.  A step opens a call and takes   *)
(* its guard, ends a call and drops its guard, or leaves alone who the open *)
(* calls are for.                                                           *)

Others(c) == \A d \in Calls : d # c => calls'[d] = calls[d]

Opens(c, p, t) ==
    /\ ~Live(c)
    /\ Live(c)' /\ calls'[c].caller = p /\ calls'[c].token = t
    /\ Others(c)
    /\ UserOpGuard(p, t)

Closes(c) ==
    /\ Live(c)
    /\ ~Live(c)'
    /\ Others(c)
    /\ DropGuard(calls[c])

Keeps ==
    /\ UNCHANGED in_flight_user_ops
    /\ \A c \in Calls :
          /\ Live(c)' <=> Live(c)
          /\ Live(c) => /\ calls'[c].caller = calls[c].caller
                        /\ calls'[c].token = calls[c].token

\* A request opens one call under a guard that was free (UserOpGuard::new).
LEMMA RequestOpens ==
    ASSUME Typed, Request
    PROVE  \E c \in Calls, p \in Principals, t \in Tokens : Opens(c, p, t)
<1> PICK c \in Calls, p \in Principals, t \in Tokens, a \in Amounts :
        Deposit(c, p, t, a) \/ Withdraw(c, p, t, a)
  BY DEF Request
<1> SUFFICES Opens(c, p, t)
  OBVIOUS
<1>0. calls \in [Calls -> Call]
  BY DEF Typed, TypeOK
<1>1. CASE Deposit(c, p, t, a)
  BY <1>0, <1>1 DEF Deposit, Opens, Others, Live, LedgerCall
<1>2. CASE Withdraw(c, p, t, a)
  BY <1>0, <1>2 DEF Withdraw, Opens, Others, Live, LedgerCall
<1> QED BY <1>1, <1>2

\* An answer of a ledger leaves caller and token of its call, and the guards.
LEMMA LedgerKeeps ==
    ASSUME Typed, NEW c \in Calls, Ledger(c)
    PROVE  Keeps
<1>0. calls \in [Calls -> Call] /\ calls[c] \in Call
  BY DEF Typed, TypeOK
<1>1. CASE TransferFromOk(c)
  BY <1>0, <1>1 DEF TransferFromOk, Answer, Keeps, Live, Call
<1>2. CASE TransferOk(c)
  BY <1>0, <1>2 DEF TransferOk, Answer, Keeps, Live, Call
<1>3. CASE TransferBadFee(c)
  BY <1>0, <1>3 DEF TransferBadFee, Answer, Keeps, Live, Call
<1>4. CASE LedgerRefuses(c)
  BY <1>0, <1>4 DEF LedgerRefuses, Answer, Keeps, Live, Call
<1> QED BY <1>1, <1>2, <1>3, <1>4 DEF Ledger

\* A continuation closes its call and drops its guard, or retries.
LEMMA CallbackCloses ==
    ASSUME Typed, NEW c \in Calls, Callback(c)
    PROVE  Closes(c) \/ Keeps
<1>0. calls \in [Calls -> Call] /\ calls[c] \in Call
  BY DEF Typed, TypeOK
<1>1. CASE DepositDone(c)
  BY <1>0, <1>1 DEF DepositDone, Closes, Others, Live, NoCall
<1>2. CASE DepositFailed(c)
  BY <1>0, <1>2 DEF DepositFailed, Closes, Others, Live, NoCall
<1>3. CASE WithdrawDone(c)
  BY <1>0, <1>3 DEF WithdrawDone, Closes, Others, Live, NoCall
<1>4. CASE WithdrawFailed(c)
  BY <1>0, <1>4 DEF WithdrawFailed, Closes, Others, Live, NoCall
<1>5. CASE WithdrawRetry(c)
  BY <1>0, <1>5 DEF WithdrawRetry, retries, Keeps, Live, LedgerCall
<1> QED BY <1>1, <1>2, <1>3, <1>4, <1>5 DEF Callback

\* Opening a call together with its guard keeps the guards exact.
LEMMA OpensGuarded ==
    ASSUME GuardedCalls, NEW c \in Calls, NEW p \in Principals,
           NEW t \in Tokens, Opens(c, p, t)
    PROVE  GuardedCalls'
<1>1. \A d \in Calls : d # c =>
         /\ Live(d)' <=> Live(d)
         /\ \A q \in Principals, u \in Tokens :
               OpensOn(d, q, u)' <=> OpensOn(d, q, u)
  BY DEF Opens, Others, Live, OpensOn
<1>2. \A d \in Calls : ~OpensOn(d, p, t)
  BY DEF GuardedCalls, Opens, UserOpGuard
<1>3. \A q \in Principals, u \in Tokens :
         OpensOn(c, q, u)' <=> q = p /\ u = t
  BY DEF Opens, OpensOn
<1>4. \A q \in Principals, u \in Tokens :
         <<q, u>> \in in_flight_user_ops'
            <=> \E d \in Calls : OpensOn(d, q, u)'
  <2> TAKE q \in Principals, u \in Tokens
  <2>1. ~OpensOn(c, q, u)
    BY DEF Opens, OpensOn
  <2>2. <<q, u>> \in in_flight_user_ops
           <=> \E d \in Calls : OpensOn(d, q, u)
    BY DEF GuardedCalls
  <2>3. <<q, u>> \in in_flight_user_ops'
           <=> <<q, u>> \in in_flight_user_ops \/ (q = p /\ u = t)
    BY DEF Opens, UserOpGuard
  <2> QED BY <1>1, <1>3, <2>1, <2>2, <2>3
<1>5. \A d, e \in Calls :
         Live(d)' /\ Live(e)' /\ calls'[d].caller = calls'[e].caller
         /\ calls'[d].token = calls'[e].token => d = e
  BY <1>1, <1>2 DEF GuardedCalls, Opens, Others, OpensOn
<1> QED BY <1>4, <1>5 DEF GuardedCalls

\* Closing a call together with its guard keeps the guards exact.
LEMMA ClosesGuarded ==
    ASSUME Typed, GuardedCalls, NEW c \in Calls, Closes(c)
    PROVE  GuardedCalls'
<1>0. calls[c].caller \in Principals /\ calls[c].token \in Tokens
  BY OpenCall DEF Closes
<1>1. \A d \in Calls : d # c =>
         /\ Live(d)' <=> Live(d)
         /\ \A q \in Principals, u \in Tokens :
               OpensOn(d, q, u)' <=> OpensOn(d, q, u)
  BY DEF Closes, Others, Live, OpensOn
<1>2. \A q \in Principals, u \in Tokens :
         <<q, u>> \in in_flight_user_ops'
            <=> \E d \in Calls : OpensOn(d, q, u)'
  <2> TAKE q \in Principals, u \in Tokens
  <2>1. ~OpensOn(c, q, u)'
    BY DEF Closes, OpensOn
  <2>2. CASE q = calls[c].caller /\ u = calls[c].token
    <3>1. <<q, u>> \notin in_flight_user_ops'
      BY <2>2 DEF Closes, DropGuard
    <3>2. \A d \in Calls : d # c => ~OpensOn(d, q, u)
      BY <2>2 DEF GuardedCalls, Closes, OpensOn
    <3> QED BY <1>1, <2>1, <3>1, <3>2
  <2>3. CASE ~(q = calls[c].caller /\ u = calls[c].token)
    <3>1. <<q, u>> \in in_flight_user_ops' <=> <<q, u>> \in in_flight_user_ops
      BY <2>3 DEF Closes, DropGuard
    <3>2. ~OpensOn(c, q, u)
      BY <2>3 DEF OpensOn
    <3> QED BY <1>1, <2>1, <3>1, <3>2 DEF GuardedCalls
  <2> QED BY <2>2, <2>3
<1>3. \A d, e \in Calls :
         Live(d)' /\ Live(e)' /\ calls'[d].caller = calls'[e].caller
         /\ calls'[d].token = calls'[e].token => d = e
  BY <1>1 DEF GuardedCalls, Closes, Others
<1> QED BY <1>2, <1>3 DEF GuardedCalls

\* A step that leaves guards, callers and tokens keeps the guards exact.
LEMMA KeepsGuarded ==
    ASSUME GuardedCalls, Keeps
    PROVE  GuardedCalls'
<1>1. \A d \in Calls, q \in Principals, u \in Tokens :
         OpensOn(d, q, u)' <=> OpensOn(d, q, u)
  BY DEF Keeps, OpensOn
<1>2. \A d, e \in Calls :
         Live(d)' /\ Live(e)' /\ calls'[d].caller = calls'[e].caller
         /\ calls'[d].token = calls'[e].token => d = e
  BY DEF GuardedCalls, Keeps
<1> QED BY <1>1, <1>2 DEF GuardedCalls, Keeps

\* Steps that leave the calls alone are such steps.
LEMMA QuietKeeps ==
    ASSUME UNCHANGED <<calls, in_flight_user_ops>>
    PROVE  Keeps
BY DEF Keeps, Live

\* Trading and delegation leave the open calls and their guards alone.
LEMMA OtherCallsQuiet ==
    ASSUME Trading \/ Delegation
    PROVE  UNCHANGED <<calls, in_flight_user_ops>>
<1>1. ASSUME NEW p \in Principals, NEW t \in Tokens, NEW x \in Amounts \ {0},
             Reserve(p, t, x) \/ Unreserve(p, t, x)
      PROVE  UNCHANGED <<calls, in_flight_user_ops>>
  BY <1>1 DEF Reserve, Unreserve
<1>2. ASSUME NEW p \in Principals, NEW t \in Tokens, NEW x \in Amounts \ {0},
             NEW q \in Principals, NEW fee \in 0 .. x, Transfer(p, q, t, x, fee)
      PROVE  UNCHANGED <<calls, in_flight_user_ops>>
  BY <1>2 DEF Transfer
<1>3. CASE Trading
  BY <1>1, <1>2, <1>3 DEF Trading
<1>4. CASE Delegation
  BY <1>4 DEF Delegation, AddTradingAccount, RemoveTradingAccount
<1> QED BY <1>3, <1>4

\* Every step keeps the guards exact.
LEMMA GuardedStep == Typed /\ GuardedCalls /\ [Next]_vars => GuardedCalls'
<1> SUFFICES ASSUME Typed, GuardedCalls, [Next]_vars PROVE GuardedCalls'
  OBVIOUS
<1>1. CASE Request
  BY <1>1, RequestOpens, OpensGuarded
<1>2. ASSUME NEW c \in Calls, Ledger(c) PROVE GuardedCalls'
  BY <1>2, LedgerKeeps, KeepsGuarded
<1>3. ASSUME NEW c \in Calls, Callback(c) PROVE GuardedCalls'
  BY <1>3, CallbackCloses, ClosesGuarded, KeepsGuarded
<1>4. ASSUME NEW t \in Tokens, NEW f \in LedgerFees, LedgerFeeChange(t, f)
      PROVE  GuardedCalls'
  BY <1>4, QuietKeeps, KeepsGuarded DEF LedgerFeeChange
<1>5. CASE Trading
  BY <1>5, OtherCallsQuiet, QuietKeeps, KeepsGuarded
<1>6. CASE Delegation
  BY <1>6, OtherCallsQuiet, QuietKeeps, KeepsGuarded
<1>7. CASE Tick
  BY <1>7, QuietKeeps, KeepsGuarded DEF Tick
<1>8. CASE Upgrade
  BY <1>8 DEF Upgrade, GuardedCalls, OpensOn, Live
<1>9. CASE UNCHANGED vars
  BY <1>9, QuietKeeps, KeepsGuarded DEF vars
<1> QED BY <1>1, <1>2, <1>3, <1>4, <1>5, <1>6, <1>7, <1>8, <1>9 DEF Next

\* The guards of UserOpGuard are exactly the open deposit and withdraw calls,
\* one per caller and token, for any number of concurrent requests.
THEOREM GuardsAreExact == Spec => []GuardedCalls
<1>1. Init => GuardedCalls
  BY DEF Init, GuardedCalls, OpensOn, Live, NoCall
<1> QED BY <1>1, GuardedStep, AlwaysTyped, PTL DEF Spec

-----------------------------------------------------------------------------

\* Every step that lets a withdrawal succeed pays its amount less the fee.
LEMMA PaysNetStep ==
    ASSUME Typed, [Next]_vars, NEW c \in Calls, calls[c].op = "withdraw",
           calls[c].pc = "sent", calls'[c].pc = "ok"
    PROVE  LET k == calls[c]
           IN  /\ wallet'[k.caller][k.token] = wallet[k.caller][k.token]
                                               + k.amount - ledger_fee[k.token]
               /\ k.amount > ledger_fee[k.token]
<1> DEFINE k == calls[c]
<1>0. calls \in [Calls -> Call] /\ wallet \in PerToken(Nat)
  BY DEF Typed, TypeOK
<1>1. Live(c) /\ Shaped(k)
  BY DEF Live, Typed, CallShape
<1>2. TransferOk(c)
  <2>1. ~Request
    <3>1. ASSUME NEW d \in Calls, NEW p \in Principals, NEW t \in Tokens,
                 NEW a \in Amounts
          PROVE  ~Deposit(d, p, t, a)
      BY Zenon, <1>0 DEF Deposit, LedgerCall
    <3>2. ASSUME NEW d \in Calls, NEW p \in Principals, NEW t \in Tokens,
                 NEW a \in Amounts
          PROVE  ~Withdraw(d, p, t, a)
      BY Zenon, <1>0 DEF Withdraw, LedgerCall
    <3> QED BY <3>1, <3>2 DEF Request
  <2>2. \A d \in Calls : ~Callback(d)
    BY <1>0 DEF Callback, DepositDone, DepositFailed, WithdrawDone,
                WithdrawRetry, WithdrawFailed, retries, NoCall, LedgerCall
  <2>3. \A d \in Calls : Ledger(d) => d = c
    BY <1>0 DEF Ledger, TransferFromOk, TransferOk, TransferBadFee,
                LedgerRefuses, Answer
  <2>4. ~TransferFromOk(c)
    BY DEF TransferFromOk
  <2>5. ~TransferBadFee(c)
    <3>1. SUFFICES ASSUME TransferBadFee(c) PROVE FALSE
      OBVIOUS
    <3>2. calls' = [calls EXCEPT ![c] = [k EXCEPT !.pc = "badfee",
                                         !.expected_fee = ledger_fee[k.token]]]
      BY <3>1 DEF TransferBadFee, Answer
    <3>3. calls'[c] = [k EXCEPT !.pc = "badfee",
                                !.expected_fee = ledger_fee[k.token]]
      BY <1>0, <3>2
    <3>4. k \in Call
      BY <1>0
    <3>5. [k EXCEPT !.pc = "badfee", !.expected_fee = ledger_fee[k.token]].pc
             = "badfee"
      BY <3>4 DEF Call
    <3> QED BY <3>3, <3>5
  <2>6. ~LedgerRefuses(c)
    <3>1. SUFFICES ASSUME LedgerRefuses(c) PROVE FALSE
      OBVIOUS
    <3>2. calls' = [calls EXCEPT ![c] = [k EXCEPT !.pc = "err"]]
      BY <3>1 DEF LedgerRefuses, Answer
    <3>3. calls'[c] = [k EXCEPT !.pc = "err"]
      BY <1>0, <3>2
    <3>4. k \in Call
      BY <1>0
    <3>5. [k EXCEPT !.pc = "err"].pc = "err"
      BY <3>4 DEF Call
    <3> QED BY <3>3, <3>5
  <2>7. calls' # calls
    OBVIOUS
  <2>8. \E d \in Calls : Ledger(d)
    <3>1. Trading => calls' = calls
      BY OtherCallsQuiet
    <3>2. Delegation => calls' = calls
      BY OtherCallsQuiet
    <3>3. /\ \A t \in Tokens, f \in LedgerFees : LedgerFeeChange(t, f) => calls' = calls
          /\ Tick \/ Upgrade => calls' = calls
      BY DEF LedgerFeeChange, Tick, Upgrade
    <3>4. UNCHANGED vars => calls' = calls
      BY DEF vars
    <3> QED BY <2>1, <2>2, <2>7, <3>1, <3>2, <3>3, <3>4 DEF Next
  <2> QED BY <2>3, <2>4, <2>5, <2>6, <2>8 DEF Ledger
<1>3. PICK x \in Nat, f \in Nat, a \in Nat, p \in Principals, t \in Tokens :
         /\ k.transfer_amount = x /\ k.fee = f /\ k.amount = a
         /\ k.caller = p /\ k.token = t
  BY <1>1, OpenCall
<1>4. PICK w \in Nat : wallet[p][t] = w /\ w + x >= 0 /\ x \in Int
  BY <1>0 DEF PerToken
<1>5. wallet'[p][t] = w + x
  <2>1. wallet' = Add(wallet, p, t, x)
    BY <1>2, <1>3 DEF TransferOk
  <2> QED BY <1>0, <1>4, <2>1, AddNat
<1>6. f = ledger_fee[t] /\ x > 0 /\ x + f = a
  BY Zenon, <1>1, <1>2, <1>3 DEF TransferOk, Shaped
<1>7. w + x = w + a - f /\ a > f
  BY <1>6
<1> QED BY <1>3, <1>4, <1>5, <1>6, <1>7

\* A successful withdrawal pays its amount less the fee the ledger charges,
\* and a positive amount, on the first attempt as on the retry
\* (ledger::withdraw).
THEOREM WithdrawalsPayNet == Spec => WithdrawPaysNetOfFee
<1>1. Typed /\ [Next]_vars =>
        [\A c \in Calls :
          LET k == calls[c]
          IN  k.op = "withdraw" /\ k.pc = "sent" /\ calls'[c].pc = "ok" =>
                /\ wallet'[k.caller][k.token] = wallet[k.caller][k.token]
                                               + k.amount - ledger_fee[k.token]
                /\ k.amount > ledger_fee[k.token]]_vars
  BY PaysNetStep
<1> QED BY <1>1, AlwaysTyped, PTL DEF Spec, WithdrawPaysNetOfFee

=============================================================================
