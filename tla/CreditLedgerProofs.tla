--------------------------- MODULE CreditLedgerProofs ---------------------------
(***************************************************************************)
(* The credit ledger keeps its books for every set of periods, keys and    *)
(* amounts and under any caller.  LedgerInv below is inductive; the        *)
(* balances of CreditLedger need Entries, which ties every row to the      *)
(* reservation it closes, and the counting lemmas, which say how a row     *)
(* moves the sets Held and Spent that BooksBalance counts.                 *)
(***************************************************************************)
EXTENDS CreditLedger, FiniteSetTheorems, TLAPS

\* A closing row names a reservation of its own wallet; a reservation, a wallet that exists
Entries ==
  \A k \in MutationKey :
    /\ ledger[k].type \in {"settlement", "refund"} =>
         /\ ledger[k].reservation \in MutationKey
         /\ ledger[ledger[k].reservation].type = "reservation"
         /\ ledger[ledger[k].reservation].wallet = ledger[k].wallet
    /\ ledger[k].type = "reservation" =>
         /\ ledger[k].wallet \in Period
         /\ status[ledger[k].wallet] # "none"

Untouched ==
  \A p \in Period : status[p] = "none" =>
    reserved[p] = 0 /\ consumed[p] = 0 /\ expired[p] = 0

OneActive == \A p, q \in Active : p = q

Closed ==
  \A p \in Period : status[p] = "expired" =>
    reserved[p] = 0 /\ consumed[p] + expired[p] = granted[p]

LedgerInv ==
  /\ LedgerTypeOK
  /\ Entries
  /\ Untouched
  /\ OneActive
  /\ Closed
  /\ BooksBalance
  /\ NeverOverdrawn

-----------------------------------------------------------------------------
(* How a new row moves the sets that are counted *)

(* What Booked writes under its key and leaves under the others. *)
LEMMA BookedEntry ==
  ASSUME ledger \in [MutationKey -> Entry],
         NEW k \in MutationKey, NEW t \in EntryType,
         NEW p \in Period \cup {None}, NEW r \in MutationKey \cup {None},
         ledger' = Booked(k, t, p, r)
  PROVE  /\ ledger' \in [MutationKey -> Entry]
         /\ ledger'[k] = [type |-> t, wallet |-> p, reservation |-> r]
         /\ \A x \in MutationKey \ {k} : ledger'[x] = ledger[x]
  <1>1. [type |-> t, wallet |-> p, reservation |-> r] \in Entry
    BY DEF Entry
  <1> QED BY <1>1 DEF Booked

(* A grant, a refusal or a correction changes neither what is held nor what is
   spent. *)
LEMMA NeutralRow ==
  ASSUME ledger \in [MutationKey -> Entry], Entries,
         NEW k \in MutationKey, Unused(k),
         NEW t \in {"grant", "reservation_denied", "operator_adjustment"},
         NEW p \in Period \cup {None},
         ledger' = Booked(k, t, p, None)
  PROVE  \A q \in Period : Held(q)' = Held(q) /\ Spent(q)' = Spent(q)
  <1>1. /\ ledger'[k] = [type |-> t, wallet |-> p, reservation |-> None]
        /\ \A x \in MutationKey \ {k} : ledger'[x] = ledger[x]
    BY BookedEntry DEF EntryType
  <1>2. ledger[k].type = "none"
    BY DEF Unused
  <1>3. \A x, r \in MutationKey : Closes(x, r)' <=> Closes(x, r)
    BY <1>1, <1>2 DEF Closes
  <1>4. \A r \in MutationKey : Outstanding(r)' <=> Outstanding(r)
    BY <1>1, <1>2, <1>3 DEF Outstanding
  <1>5. ASSUME NEW q \in Period PROVE Held(q)' = Held(q)
    <2>1. \A r \in MutationKey :
            (Outstanding(r)' /\ ledger'[r].wallet = q) <=> (Outstanding(r) /\ ledger[r].wallet = q)
      BY <1>1, <1>2, <1>4 DEF Outstanding
    <2> QED BY <2>1 DEF Held
  <1>6. ASSUME NEW q \in Period PROVE Spent(q)' = Spent(q)
    BY <1>1, <1>2 DEF Spent
  <1> QED BY <1>5, <1>6

(* A reservation is held on its own wallet and nowhere else. *)
LEMMA ReservationRow ==
  ASSUME ledger \in [MutationKey -> Entry], Entries,
         NEW k \in MutationKey, Unused(k), NEW p \in Period,
         ledger' = Booked(k, "reservation", p, None)
  PROVE  /\ k \notin Held(p)
         /\ Held(p)' = Held(p) \cup {k}
         /\ \A q \in Period \ {p} : Held(q)' = Held(q)
         /\ \A q \in Period : Spent(q)' = Spent(q)
  <1>1. /\ ledger'[k] = [type |-> "reservation", wallet |-> p, reservation |-> None]
        /\ \A x \in MutationKey \ {k} : ledger'[x] = ledger[x]
    BY BookedEntry DEF EntryType
  <1>2. ledger[k].type = "none"
    BY DEF Unused
  <1>3. \A x, r \in MutationKey : Closes(x, r)' <=> Closes(x, r)
    BY <1>1, <1>2 DEF Closes
  <1>4. \A x \in MutationKey : ~Closes(x, k)
    BY <1>2 DEF Closes, Entries
  <1>5. /\ Outstanding(k)' /\ ~Outstanding(k)
        /\ \A r \in MutationKey \ {k} : Outstanding(r)' <=> Outstanding(r)
    BY <1>1, <1>2, <1>3, <1>4 DEF Outstanding
  <1>6. \A q \in Period : \A r \in MutationKey :
          r \in Held(q)' <=> (r \in Held(q) \/ (r = k /\ q = p))
    BY <1>1, <1>5 DEF Held
  <1>7. k \notin Held(p)
    BY <1>5 DEF Held
  <1>8. \A q \in Period : Held(q) \subseteq MutationKey /\ Held(q)' \subseteq MutationKey
    BY DEF Held
  <1>9. \A q \in Period : Spent(q)' = Spent(q)
    BY <1>1, <1>2 DEF Spent
  <1> QED BY <1>6, <1>7, <1>8, <1>9

(* A closing row releases its reservation, and is spent if it settles it. *)
LEMMA ClosingRow ==
  ASSUME ledger \in [MutationKey -> Entry], Entries,
         NEW k \in MutationKey, Unused(k),
         NEW r \in MutationKey, Outstanding(r),
         NEW p, p = ledger[r].wallet,
         NEW t \in {"settlement", "refund"},
         ledger' = Booked(k, t, p, r)
  PROVE  /\ p \in Period
         /\ r \in Held(p)
         /\ Held(p)' = Held(p) \ {r}
         /\ \A q \in Period \ {p} : Held(q)' = Held(q)
         /\ k \notin Spent(p)
         /\ \A q \in Period :
              Spent(q)' = IF t = "settlement" /\ q = p THEN Spent(q) \cup {k} ELSE Spent(q)
  <1>1. p \in Period
    BY DEF Outstanding, Entries
  <1>2. /\ ledger'[k] = [type |-> t, wallet |-> p, reservation |-> r]
        /\ \A x \in MutationKey \ {k} : ledger'[x] = ledger[x]
    BY <1>1, BookedEntry DEF EntryType
  <1>3. ledger[k].type = "none" /\ ledger[r].type = "reservation" /\ k # r
    BY DEF Unused, Outstanding
  <1>4. \A x, y \in MutationKey : Closes(x, y)' <=> (Closes(x, y) \/ (x = k /\ y = r))
    BY <1>2, <1>3 DEF Closes
  <1>5. \A y \in MutationKey : Outstanding(y)' <=> (Outstanding(y) /\ y # r)
    BY <1>2, <1>3, <1>4 DEF Outstanding
  <1>6. \A q \in Period : \A y \in MutationKey : y \in Held(q)' <=> (y \in Held(q) /\ y # r)
    BY <1>2, <1>3, <1>5 DEF Held, Outstanding
  <1>7. r \in Held(p) /\ \A q \in Period \ {p} : r \notin Held(q)
    BY DEF Held
  <1>8. \A q \in Period : Held(q) \subseteq MutationKey /\ Held(q)' \subseteq MutationKey
    BY DEF Held
  <1>9. \A q \in Period : \A y \in MutationKey :
          y \in Spent(q)' <=> (y \in Spent(q) \/ (y = k /\ t = "settlement" /\ q = p))
    BY <1>2, <1>3 DEF Spent
  <1>10. k \notin Spent(p)
    BY <1>3 DEF Spent
  <1>11. \A q \in Period : Spent(q) \subseteq MutationKey /\ Spent(q)' \subseteq MutationKey
    BY DEF Spent
  <1>12. /\ Held(p)' = Held(p) \ {r}
         /\ \A q \in Period \ {p} : Held(q)' = Held(q)
    <2>1. \A y : y \in Held(p)' <=> y \in Held(p) \ {r}
      BY <1>1, <1>6, <1>8
    <2>2. ASSUME NEW q \in Period \ {p} PROVE Held(q)' = Held(q)
      <3>1. \A y : y \in Held(q)' <=> y \in Held(q)
        BY <1>6, <1>7, <1>8
      <3> QED BY <3>1
    <2>3. Held(p)' = Held(p) \ {r}
      BY <2>1
    <2> QED BY <2>2, <2>3
  <1>13. \A q \in Period :
           Spent(q)' = IF t = "settlement" /\ q = p THEN Spent(q) \cup {k} ELSE Spent(q)
    BY <1>9, <1>11
  <1>14. r \in Held(p)
    BY <1>7
  <1> QED BY <1>1, <1>10, <1>12, <1>13, <1>14

(* The counted sets are finite, so a pack held or spent is at least one. *)
LEMMA Counts ==
  ASSUME NEW p
  PROVE  /\ IsFiniteSet(Held(p)) /\ Cardinality(Held(p)) \in Nat
         /\ IsFiniteSet(Spent(p)) /\ Cardinality(Spent(p)) \in Nat
         /\ Held(p) # {} => Cardinality(Held(p)) >= 1
  <1>1. IsFiniteSet(MutationKey)
    BY LedgerAssumption
  <1>2. Held(p) \in SUBSET MutationKey /\ Spent(p) \in SUBSET MutationKey
    BY DEF Held, Spent
  <1>3. IsFiniteSet(Held(p)) /\ IsFiniteSet(Spent(p))
    BY <1>1, <1>2, FS_Subset
  <1>4. Cardinality(Held(p)) \in Nat /\ Cardinality(Spent(p)) \in Nat
    BY <1>3, FS_CardinalityType
  <1>5. Cardinality(Held(p)) = 0 <=> Held(p) = {}
    BY <1>3, FS_EmptySet
  <1> QED BY <1>3, <1>4, <1>5

-----------------------------------------------------------------------------
(* One step each *)

(* A grant supersedes only a wallet nothing is held on, and opens one that has
   never been used. *)
LEMMA GrantKeeps ==
  ASSUME LedgerInv, NEW k \in MutationKey, NEW p \in Period, Grant(k, p)
  PROVE  LedgerInv'
  <1> USE DEF LedgerInv
  <1>1. /\ ledger \in [MutationKey -> Entry] /\ Entries /\ Unused(k)
        /\ ledger' = Booked(k, "grant", p, None)
    BY DEF Grant, LedgerTypeOK
  <1>2. /\ ledger' \in [MutationKey -> Entry]
        /\ ledger'[k] = [type |-> "grant", wallet |-> p, reservation |-> None]
        /\ \A x \in MutationKey \ {k} : ledger'[x] = ledger[x]
    BY <1>1, BookedEntry DEF EntryType
  <1>3. \A q \in Period : Held(q)' = Held(q) /\ Spent(q)' = Spent(q)
    BY <1>1, NeutralRow
  <1>4. /\ status[p] = "none" /\ reserved[p] = 0 /\ consumed[p] = 0 /\ expired[p] = 0
        /\ reserved' = reserved /\ consumed' = consumed
        /\ \A q \in Active : reserved[q] = 0
    BY DEF Grant, Untouched, Supersedable
  <1>5. Credits[p] \in Nat \ {0}
    BY LedgerAssumption
  <1>6. /\ status'[p] \in {"active", "expired"}
        /\ granted'[p] = Credits[p]
        /\ expired'[p] = IF status'[p] = "expired" THEN Credits[p] ELSE 0
    BY DEF Grant, LedgerTypeOK
  <1>7. \A q \in Period \ {p} :
          /\ granted'[q] = granted[q]
          /\ status'[q] = IF q \in Active THEN "expired" ELSE status[q]
          /\ expired'[q] = IF q \in Active THEN expired[q] + Remaining(q) ELSE expired[q]
    BY DEF Grant, LedgerTypeOK
  <1>8. \A q \in Active :
          /\ Remaining(q) \in Nat
          /\ consumed[q] + (expired[q] + Remaining(q)) = granted[q]
    BY <1>4 DEF Remaining, NeverOverdrawn, LedgerTypeOK, Active
  <1>9. LedgerTypeOK'
    <2>1. status' \in [Period -> {"none", "active", "expired"}]
      BY DEF Grant, LedgerTypeOK
    <2>2. granted' \in [Period -> Nat]
      BY <1>5 DEF Grant, LedgerTypeOK
    <2>3. \A q \in Period : expired'[q] \in Nat
      BY <1>5, <1>6, <1>7, <1>8 DEF LedgerTypeOK
    <2>4. expired' \in [Period -> Nat]
      BY <2>3 DEF Grant
    <2> QED BY <1>2, <2>1, <2>2, <2>4 DEF Grant, LedgerTypeOK
  <1>10. \A q \in Period : status[q] # "none" => status'[q] # "none"
    BY <1>6, <1>7
  <1>11. Entries'
    BY <1>1, <1>2, <1>10 DEF Entries, Unused
  <1>12. Untouched'
    BY <1>4, <1>6, <1>7 DEF Untouched, Active
  <1>13. OneActive'
    BY <1>6, <1>7 DEF OneActive, Active
  <1>14. Closed'
    BY <1>4, <1>5, <1>6, <1>7, <1>8 DEF Closed, Active, LedgerTypeOK
  <1>15. BooksBalance'
    BY <1>3, <1>4 DEF BooksBalance
  <1>16. NeverOverdrawn'
    <2>1. reserved'[p] + consumed'[p] + expired'[p] <= granted'[p]
      BY <1>4, <1>5, <1>6
    <2>2. ASSUME NEW q \in Period \ {p}
          PROVE  reserved'[q] + consumed'[q] + expired'[q] <= granted'[q]
      <3>1. CASE q \in Active
        <4>1. /\ reserved'[q] = 0 /\ consumed'[q] = consumed[q] /\ granted'[q] = granted[q]
              /\ expired'[q] = expired[q] + Remaining(q)
          BY <1>4, <1>7, <3>1
        <4>2. /\ consumed[q] \in Nat /\ granted[q] \in Nat /\ expired[q] + Remaining(q) \in Nat
              /\ consumed[q] + (expired[q] + Remaining(q)) = granted[q]
          BY <1>8, <3>1 DEF LedgerTypeOK
        <4> QED BY <4>1, <4>2
      <3>2. CASE q \notin Active
        BY <1>4, <1>7, <3>2 DEF NeverOverdrawn
      <3> QED BY <3>1, <3>2
    <2> QED BY <2>1, <2>2 DEF NeverOverdrawn
  <1> QED BY <1>9, <1>11, <1>12, <1>13, <1>14, <1>15, <1>16

(* A reservation fits in what remains of the active wallet. *)
LEMMA ReserveKeeps ==
  ASSUME LedgerInv, NEW k \in MutationKey, Reserve(k)
  PROVE  LedgerInv'
  <1> USE DEF LedgerInv
  <1>1. PICK p \in Period :
          /\ Usable(p)
          /\ reserved' = [reserved EXCEPT ![p] = reserved[p] + Pack]
          /\ ledger' = Booked(k, "reservation", p, None)
    BY DEF Reserve
  <1>2. ledger \in [MutationKey -> Entry] /\ Entries /\ Unused(k)
    BY DEF Reserve, LedgerTypeOK
  <1>3. /\ ledger' \in [MutationKey -> Entry]
        /\ ledger'[k] = [type |-> "reservation", wallet |-> p, reservation |-> None]
        /\ \A x \in MutationKey \ {k} : ledger'[x] = ledger[x]
    BY <1>1, <1>2, BookedEntry DEF EntryType
  <1>4. /\ k \notin Held(p)
        /\ Held(p)' = Held(p) \cup {k}
        /\ \A q \in Period \ {p} : Held(q)' = Held(q)
        /\ \A q \in Period : Spent(q)' = Spent(q)
    BY <1>1, <1>2, ReservationRow
  <1>5. UNCHANGED <<status, granted, consumed, expired, over, billing>>
    BY DEF Reserve
  <1>6. Pack \in Nat \ {0}
    BY LedgerAssumption
  <1>7. status[p] = "active" /\ reserved[p] + Pack + consumed[p] + expired[p] <= granted[p]
    BY <1>1, <1>6 DEF Usable, Active, Short, Remaining, LedgerTypeOK
  <1>8. LedgerTypeOK'
    BY <1>1, <1>3, <1>5, <1>6 DEF LedgerTypeOK
  <1>9. Entries'
    BY <1>2, <1>3, <1>5, <1>7 DEF Entries, Unused
  <1>10. Untouched' /\ Closed'
    BY <1>1, <1>5, <1>7 DEF Untouched, Closed, LedgerTypeOK
  <1>11. OneActive'
    BY <1>5 DEF OneActive, Active
  <1>12. BooksBalance'
    <2>1. reserved'[p] = Pack * Cardinality(Held(p)')
      <3>1. IsFiniteSet(Held(p)) /\ Cardinality(Held(p)) \in Nat
        BY Counts
      <3>2. Cardinality(Held(p)') = Cardinality(Held(p)) + 1
        BY <1>4, <3>1, FS_AddElement
      <3>3. reserved'[p] = Pack * Cardinality(Held(p)) + Pack
        BY <1>1 DEF BooksBalance, LedgerTypeOK
      <3> QED BY <1>6, <3>1, <3>2, <3>3
    <2>2. \A q \in Period \ {p} : reserved'[q] = Pack * Cardinality(Held(q)')
      BY <1>1, <1>4 DEF BooksBalance, LedgerTypeOK
    <2>3. \A q \in Period : consumed'[q] = Pack * Cardinality(Spent(q)')
      BY <1>4, <1>5 DEF BooksBalance
    <2> QED BY <2>1, <2>2, <2>3 DEF BooksBalance
  <1>13. NeverOverdrawn'
    BY <1>1, <1>5, <1>6, <1>7 DEF NeverOverdrawn, LedgerTypeOK
  <1> QED BY <1>8, <1>9, <1>10, <1>11, <1>12, <1>13

(* Closing a reservation moves its pack from reserved to consumed, or gives it
   back; its wallet cannot have been superseded, for the pack is held on it. *)
LEMMA CloseKeeps ==
  ASSUME LedgerInv, NEW k \in MutationKey, NEW r \in MutationKey,
         Settle(k, r) \/ Refund(k, r)
  PROVE  LedgerInv'
  <1> USE DEF LedgerInv
  <1> DEFINE p == ledger[r].wallet
  <1>1. PICK t \in {"settlement", "refund"} :
          /\ ledger' = Booked(k, t, p, r)
          /\ reserved' = [reserved EXCEPT ![p] = reserved[p] - Pack]
          /\ consumed' = IF t = "settlement" THEN [consumed EXCEPT ![p] = consumed[p] + Pack]
                                             ELSE consumed
    BY DEF Settle, Refund
  <1>2. /\ ledger \in [MutationKey -> Entry] /\ Entries
        /\ Unused(k) /\ Outstanding(r)
    BY DEF Settle, Refund, LedgerTypeOK
  <1>3. PICK w : w = p
    OBVIOUS
  <1>4. ledger' = Booked(k, t, w, r)
    BY <1>1, <1>3
  <1>5. /\ w \in Period
        /\ r \in Held(w)
        /\ Held(w)' = Held(w) \ {r}
        /\ \A q \in Period \ {w} : Held(q)' = Held(q)
        /\ k \notin Spent(w)
        /\ \A q \in Period :
             Spent(q)' = IF t = "settlement" /\ q = w THEN Spent(q) \cup {k} ELSE Spent(q)
    BY <1>2, <1>3, <1>4, ClosingRow
  <1>6. /\ ledger' \in [MutationKey -> Entry]
        /\ ledger'[k] = [type |-> t, wallet |-> w, reservation |-> r]
        /\ \A x \in MutationKey \ {k} : ledger'[x] = ledger[x]
    BY <1>2, <1>4, <1>5, BookedEntry DEF EntryType
  <1>7. UNCHANGED <<status, granted, expired, over, billing>>
    BY DEF Settle, Refund
  <1>8. Pack \in Nat \ {0}
    BY LedgerAssumption
  <1>9. /\ IsFiniteSet(Held(w)) /\ Cardinality(Held(w)) \in Nat
        /\ IsFiniteSet(Spent(w)) /\ Cardinality(Spent(w)) \in Nat
        /\ Cardinality(Held(w)) >= 1
    BY <1>5, Counts
  <1>10. reserved[w] = Pack * Cardinality(Held(w)) /\ consumed[w] = Pack * Cardinality(Spent(w))
    BY <1>5 DEF BooksBalance
  <1>11. reserved[w] >= Pack
    BY <1>8, <1>9, <1>10
  <1>12. /\ reserved' = [reserved EXCEPT ![w] = reserved[w] - Pack]
         /\ consumed' = IF t = "settlement" THEN [consumed EXCEPT ![w] = consumed[w] + Pack]
                                            ELSE consumed
    BY <1>1, <1>3
  <1>13. status[w] = "active"
    BY <1>2, <1>3, <1>5, <1>8, <1>11 DEF Closed, Untouched, LedgerTypeOK
  <1>14. LedgerTypeOK'
    <2>0. reserved[w] - Pack \in Nat /\ consumed[w] + Pack \in Nat
      BY <1>5, <1>8, <1>11 DEF LedgerTypeOK
    <2>1. reserved' \in [Period -> Nat]
      BY <1>12, <2>0 DEF LedgerTypeOK
    <2>2. consumed' \in [Period -> Nat]
      <3>1. CASE t = "settlement"
        BY <1>12, <2>0, <3>1 DEF LedgerTypeOK
      <3>2. CASE t = "refund"
        BY <1>12, <3>2 DEF LedgerTypeOK
      <3> QED BY <3>1, <3>2
    <2> QED BY <1>6, <1>7, <2>1, <2>2 DEF LedgerTypeOK
  <1>15. Entries'
    <2>1. ledger[k].type = "none" /\ ledger[r].type = "reservation" /\ ledger[r].wallet = w
      BY <1>2, <1>3 DEF Unused, Outstanding
    <2> QED BY <1>2, <1>6, <1>7, <2>1 DEF Entries
  <1>16. Untouched' /\ Closed'
    BY <1>7, <1>12, <1>13 DEF Untouched, Closed, LedgerTypeOK
  <1>17. OneActive'
    BY <1>7 DEF OneActive, Active
  <1>18. BooksBalance'
    <2>1. reserved'[w] = Pack * Cardinality(Held(w)')
      <3>1. Cardinality(Held(w)') = Cardinality(Held(w)) - 1
        BY <1>5, <1>9, FS_RemoveElement
      <3>2. reserved'[w] = Pack * Cardinality(Held(w)) - Pack
        BY <1>5, <1>10, <1>12 DEF LedgerTypeOK
      <3> QED BY <1>8, <1>9, <3>1, <3>2
    <2>2. \A q \in Period \ {w} : reserved'[q] = Pack * Cardinality(Held(q)')
      BY <1>5, <1>12 DEF BooksBalance, LedgerTypeOK
    <2>3. consumed'[w] = Pack * Cardinality(Spent(w)')
      <3>1. CASE t = "settlement"
        <4>1. Cardinality(Spent(w)') = Cardinality(Spent(w)) + 1
          BY <1>5, <1>9, <3>1, FS_AddElement
        <4>2. consumed'[w] = Pack * Cardinality(Spent(w)) + Pack
          BY <1>5, <1>10, <1>12, <3>1 DEF LedgerTypeOK
        <4> QED BY <1>8, <1>9, <4>1, <4>2
      <3>2. CASE t = "refund"
        BY <1>5, <1>10, <1>12, <3>2
      <3> QED BY <3>1, <3>2
    <2>4. \A q \in Period \ {w} : consumed'[q] = Pack * Cardinality(Spent(q)')
      BY <1>5, <1>12 DEF BooksBalance, LedgerTypeOK
    <2> QED BY <2>1, <2>2, <2>3, <2>4 DEF BooksBalance
  <1>19. NeverOverdrawn'
    BY <1>5, <1>7, <1>8, <1>11, <1>12 DEF NeverOverdrawn, LedgerTypeOK
  <1> QED BY <1>14, <1>15, <1>16, <1>17, <1>18, <1>19

(* A refusal is a row that moves nothing. *)
LEMMA DenyKeeps ==
  ASSUME LedgerInv, NEW k \in MutationKey, Deny(k)
  PROVE  LedgerInv'
  <1> USE DEF LedgerInv
  <1>1. PICK p \in Period \cup {None} : ledger' = Booked(k, "reservation_denied", p, None)
    BY DEF Deny, Active
  <1>2. ledger \in [MutationKey -> Entry] /\ Entries /\ Unused(k)
    BY DEF Deny, LedgerTypeOK
  <1>3. /\ ledger' \in [MutationKey -> Entry]
        /\ ledger'[k] = [type |-> "reservation_denied", wallet |-> p, reservation |-> None]
        /\ \A x \in MutationKey \ {k} : ledger'[x] = ledger[x]
    BY <1>1, <1>2, BookedEntry DEF EntryType
  <1>4. \A q \in Period : Held(q)' = Held(q) /\ Spent(q)' = Spent(q)
    BY <1>1, <1>2, NeutralRow
  <1>5. UNCHANGED <<status, granted, reserved, consumed, expired, over, billing>>
    BY DEF Deny
  <1>6. LedgerTypeOK'
    BY <1>3, <1>5 DEF LedgerTypeOK
  <1>7. Entries'
    BY <1>2, <1>3, <1>5 DEF Entries, Unused
  <1>8. Untouched' /\ OneActive' /\ Closed' /\ NeverOverdrawn'
    BY <1>5 DEF Untouched, OneActive, Active, Closed, NeverOverdrawn
  <1>9. BooksBalance'
    BY <1>4, <1>5 DEF BooksBalance
  <1> QED BY <1>6, <1>7, <1>8, <1>9

(* A correction never takes more than is left of the active wallet. *)
LEMMA AdjustKeeps ==
  ASSUME LedgerInv, NEW k \in MutationKey, NEW d \in Delta, Adjust(k, d)
  PROVE  LedgerInv'
  <1> USE DEF LedgerInv
  <1>1. PICK p \in Active :
          /\ Correctable(p, d)
          /\ granted' = [granted EXCEPT ![p] = granted[p] + d]
          /\ ledger' = Booked(k, "operator_adjustment", p, None)
    BY DEF Adjust
  <1>2. p \in Period /\ status[p] = "active" /\ d \in Int
    BY LedgerAssumption DEF Active
  <1>3. ledger \in [MutationKey -> Entry] /\ Entries /\ Unused(k)
    BY DEF Adjust, LedgerTypeOK
  <1>4. /\ ledger' \in [MutationKey -> Entry]
        /\ ledger'[k] = [type |-> "operator_adjustment", wallet |-> p, reservation |-> None]
        /\ \A x \in MutationKey \ {k} : ledger'[x] = ledger[x]
    BY <1>1, <1>2, <1>3, BookedEntry DEF EntryType
  <1>5. \A q \in Period : Held(q)' = Held(q) /\ Spent(q)' = Spent(q)
    BY <1>1, <1>2, <1>3, NeutralRow
  <1>6. UNCHANGED <<status, reserved, consumed, expired, over, billing>>
    BY DEF Adjust
  <1>7. /\ granted[p] + d \in Nat
        /\ reserved[p] + consumed[p] + expired[p] <= granted[p] + d
    BY <1>1, <1>2 DEF Correctable, LedgerTypeOK
  <1>8. LedgerTypeOK'
    BY <1>1, <1>4, <1>6, <1>7 DEF LedgerTypeOK
  <1>9. Entries'
    BY <1>3, <1>4, <1>6 DEF Entries, Unused
  <1>10. Untouched' /\ OneActive'
    BY <1>6 DEF Untouched, OneActive, Active
  <1>11. Closed'
    BY <1>1, <1>2, <1>6 DEF Closed, LedgerTypeOK
  <1>12. NeverOverdrawn'
    BY <1>1, <1>2, <1>6, <1>7 DEF NeverOverdrawn, LedgerTypeOK
  <1>13. BooksBalance'
    BY <1>5, <1>6 DEF BooksBalance
  <1> QED BY <1>8, <1>9, <1>10, <1>11, <1>12, <1>13

(* The clock and the billing state touch neither wallets nor ledger. *)
LEMMA OutsideKeeps ==
  ASSUME LedgerInv,
         \/ \E p \in Period : PeriodEnds(p) \/ TrialMoved(p)
         \/ \E s \in BillingState : BillingChanges(s)
         \/ UNCHANGED ledgerVars
  PROVE  LedgerInv'
  <1> USE DEF LedgerInv
  <1>1. UNCHANGED <<status, granted, reserved, consumed, expired, ledger>>
    BY DEF PeriodEnds, TrialMoved, BillingChanges, ledgerVars
  <1>2. over' \subseteq Period /\ billing' \in BillingState
    BY DEF PeriodEnds, TrialMoved, BillingChanges, ledgerVars, LedgerTypeOK
  <1>3. LedgerTypeOK'
    BY <1>1, <1>2 DEF LedgerTypeOK
  <1>4. Entries' /\ Untouched' /\ OneActive' /\ Closed' /\ NeverOverdrawn'
    BY <1>1 DEF Entries, Untouched, OneActive, Active, Closed, NeverOverdrawn
  <1>5. \A p \in Period : Held(p)' = Held(p) /\ Spent(p)' = Spent(p)
    BY <1>1 DEF Held, Spent, Outstanding, Closes
  <1>6. BooksBalance'
    BY <1>1, <1>5 DEF BooksBalance
  <1> QED BY <1>3, <1>4, <1>6

LEMMA LedgerInvInit == LedgerInit => LedgerInv
  <1> SUFFICES ASSUME LedgerInit PROVE LedgerInv
    OBVIOUS
  <1> USE DEF LedgerInit
  <1>1. LedgerTypeOK
    <2>1. NoEntry \in Entry
      BY DEF NoEntry, Entry, EntryType
    <2> QED BY <2>1 DEF LedgerTypeOK, BillingState
  <1>2. Entries /\ Untouched /\ OneActive /\ Closed /\ NeverOverdrawn
    BY DEF Entries, NoEntry, Untouched, OneActive, Active, Closed, NeverOverdrawn
  <1>3. BooksBalance
    <2>1. \A p \in Period : Held(p) = {} /\ Spent(p) = {}
      BY DEF Held, Spent, Outstanding, NoEntry
    <2>2. Pack * 0 = 0
      BY LedgerAssumption
    <2> QED BY <2>1, <2>2, FS_EmptySet DEF BooksBalance
  <1> QED BY <1>1, <1>2, <1>3 DEF LedgerInv

LEMMA LedgerInvStep == LedgerInv /\ [LedgerNext]_ledgerVars => LedgerInv'
  BY GrantKeeps, ReserveKeeps, DenyKeeps, CloseKeeps, AdjustKeeps, OutsideKeeps DEF LedgerNext

-----------------------------------------------------------------------------
(* Theorems *)

(* grant_, reserve_, settle_, refund_ and adjust_workspace_credits keep wallets
   and ledger well formed: no balance ever turns negative. *)
THEOREM LedgerTypeCorrect == LedgerSpec => []LedgerTypeOK
  <1>1. LedgerInv => LedgerTypeOK
    BY DEF LedgerInv
  <1> QED BY <1>1, LedgerInvInit, LedgerInvStep, PTL DEF LedgerSpec

(* The wallets' reserved and consumed columns are what the ledger says, so no
   reservation is ever closed twice. *)
THEOREM BooksAlwaysBalance == LedgerSpec => []BooksBalance
  <1>1. LedgerInv => BooksBalance
    BY DEF LedgerInv
  <1> QED BY <1>1, LedgerInvInit, LedgerInvStep, PTL DEF LedgerSpec

(* No wallet owes more than it was granted, for any amounts. *)
THEOREM WalletsNeverOverdrawn == LedgerSpec => []NeverOverdrawn
  <1>1. LedgerInv => NeverOverdrawn
    BY DEF LedgerInv
  <1> QED BY <1>1, LedgerInvInit, LedgerInvStep, PTL DEF LedgerSpec

(* A superseded wallet is closed for good: with nothing reserved on it, the
   books leave nothing held. *)
THEOREM SupersededAlwaysClosed == LedgerSpec => []SupersededIsClosed
  <1>1. LedgerInv => SupersededIsClosed
    <2> SUFFICES ASSUME LedgerInv PROVE SupersededIsClosed
      OBVIOUS
    <2>1. \A p, q \in Active : p = q
      BY DEF LedgerInv, OneActive
    <2>2. ASSUME NEW p \in Period, status[p] = "expired"
          PROVE  Held(p) = {} /\ consumed[p] + expired[p] = granted[p]
      <3>1. reserved[p] = 0 /\ consumed[p] + expired[p] = granted[p]
        BY <2>2 DEF LedgerInv, Closed
      <3>2. Pack * Cardinality(Held(p)) = 0 /\ Pack \in Nat \ {0}
        BY <3>1, LedgerAssumption DEF LedgerInv, BooksBalance
      <3>3. Held(p) # {} => Cardinality(Held(p)) \in Nat /\ Cardinality(Held(p)) >= 1
        BY Counts
      <3> QED BY <3>1, <3>2, <3>3
    <2> QED BY <2>1, <2>2 DEF SupersededIsClosed
  <1> QED BY <1>1, LedgerInvInit, LedgerInvStep, PTL DEF LedgerSpec

=============================================================================
