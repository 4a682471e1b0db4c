---------------------------- MODULE PostmenProofs ----------------------------
(***************************************************************************)
(* Proofs about Postmen.  A list is text in the code, and what Removed and  *)
(* Expired do to a list of any length is shown by induction on the length:  *)
(* SetInduction is that principle for a set of numbers, taken from the      *)
(* least element of its complement.  The invariant of the steps says where  *)
(* every number in a list, mark or flag comes from.                         *)
(***************************************************************************)
EXTENDS Postmen, NaturalsInduction, WellFoundedInduction, TLAPS

(* What the screen says of the download, and whose lists are empty.         *)
PlaceInv ==
  /\ screen # "pause" => todo = {}
  /\ \A p \in Ids \ rows : timeoutBox[p] = << >>
TypeInv == TypeOK /\ PlaceInv

(* The parcel in box b is one that the host has called overdue.             *)
Reported(b) == b \in Full /\ <<b, package[b]>> \in reported

(* A list holds boxes with overdue parcels only, also the list of a postman *)
(* without a row; what is marked or flagged may be a box emptied since.     *)
ListedReported == \A p \in Ids : \A b \in Range(timeoutBox[p]) : Reported(b)
FlaggedReported == \A b \in Full : b \in flag2 \cup hostTimeout => Reported(b)
ListInv == disturbed \/ (ListedReported /\ FlaggedReported)

IInv == TypeInv /\ ListInv /\ OwnOverdueOnly

-----------------------------------------------------------------------------
(* A set of natural numbers with 0 and every successor holds them all: the  *)
(* least number outside it would be the successor of one inside.            *)
LEMMA SetInduction ==
  ASSUME NEW S, 0 \in S, \A n \in Nat : n \in S => n + 1 \in S
  PROVE  Nat \subseteq S
<1> SUFFICES ASSUME Nat \ S # {} PROVE FALSE
  OBVIOUS
<1> DEFINE Less == {ss \in Nat \X Nat : ss[1] < ss[2]}
<1>1. IsWellFoundedOn(Less, Nat)
  BY NatLessThanWellFounded DEF OpToRel
<1> HIDE DEF Less
<1>2. PICK m \in Nat \ S : \A n \in Nat \ S : ~(<<n, m>> \in Less)
  BY <1>1, WFMin
<1> USE DEF Less
<1>3. m - 1 \in Nat \ S
  BY <1>2
<1>4. <<m - 1, m>> \in Less
  BY <1>3
<1> QED
  BY <1>2, <1>3, <1>4

(* The numbers of at most three digits: every box has one of them.          *)
BoxNumbers == 1 .. 999

(* The digits of a number: Shift is the power of ten that moves a text      *)
(* before them, and it is beyond every box number.                          *)
LEMMA ShiftFacts ==
  /\ \A n \in Nat : Shift(n) \in Nat \ {0}
  /\ \A b \in BoxNumbers : b < Shift(b)
<1>1. /\ 10^1 = 10 /\ 10^2 = 100 /\ 10^3 = 1000 /\ 10^4 = 10000 /\ 10^5 = 100000
      /\ 10^6 = 1000000 /\ 10^7 = 10000000 /\ 10^8 = 100000000 /\ 10^9 = 1000000000
  OBVIOUS
<1> DEFINE Is(n, k) ==
      (n < 10^k \/ k = MaxDigits) /\ (n >= 10^(k - 1) \/ k = 1)
<1>2. ASSUME NEW n \in Nat PROVE \E k \in 1 .. MaxDigits : Is(n, k)
  <2>1. 1 - 1 = 0 /\ 2 - 1 = 1 /\ 3 - 1 = 2 /\ 4 - 1 = 3 /\ 5 - 1 = 4 /\ 6 - 1 = 5
        /\ 7 - 1 = 6 /\ 8 - 1 = 7 /\ 9 - 1 = 8
    OBVIOUS
  <2>2. \/ Is(n, 1) \/ Is(n, 2) \/ Is(n, 3) \/ Is(n, 4) \/ Is(n, 5) \/ Is(n, 6) \/ Is(n, 7)
        \/ Is(n, 8) \/ Is(n, 9)
    BY <1>1, <2>1 DEF MaxDigits
  <2> HIDE DEF Is
  <2> QED
    BY <2>2 DEF MaxDigits
<1>3. ASSUME NEW n \in Nat PROVE Digits(n) \in 1 .. MaxDigits /\ Is(n, Digits(n))
  <2>1. Digits(n) = CHOOSE k \in 1 .. MaxDigits : Is(n, k)
    BY DEF Digits
  <2> HIDE DEF Is
  <2> QED
    BY <1>2, <2>1
<1>4. ASSUME NEW n \in Nat PROVE Shift(n) \in Nat \ {0}
  <2>1. Digits(n) \in {1, 2, 3, 4, 5, 6, 7, 8, 9}
    BY <1>3 DEF MaxDigits
  <2>2. Shift(n) \in {10^1, 10^2, 10^3, 10^4, 10^5, 10^6, 10^7, 10^8, 10^9}
    BY <2>1, Zenon DEF Shift
  <2> QED
    BY <1>1, <2>2
<1>5. ASSUME NEW b \in BoxNumbers PROVE b < Shift(b)
  <2>0. b \in Nat /\ b <= 999
    BY DEF BoxNumbers
  <2>1. b < 10^Digits(b) \/ Digits(b) = 9
    BY <1>3, <2>0 DEF MaxDigits
  <2>2. b < Shift(b) \/ Shift(b) = 10^9
    BY <2>1, Zenon DEF Shift
  <2>3. b < 10^9
    BY <1>1, <2>0
  <2> QED
    BY <2>2, <2>3
<1> QED
  BY <1>4, <1>5, Zenon

(* The elements of a list.                                                  *)
LEMMA ElementOf ==
  ASSUME NEW X, NEW q \in Seq(X)
  PROVE  /\ \A i \in 1 .. Len(q) : q[i] \in Range(q) /\ q[i] \in X
         /\ \A e \in Range(q) : e \in X /\ \E i \in 1 .. Len(q) : e = q[i]
  BY DEF Range

(* The box numbers that GZYZGetExpiredItemsResponse keeps of an answer.      *)
LEMMA ExpiredFacts ==
  ASSUME NEW answer \in Seq([box : Nat, mail : Mails])
  PROVE  /\ Expired(answer) \in Seq(Nat)
         /\ \A b \in Range(Expired(answer)) :
              \E a \in Range(answer) : Confirmed(a) /\ a.box = b
<1> DEFINE Grown(f, i) ==
             IF i = 0 THEN << >>
             ELSE IF Confirmed(answer[i]) THEN Append(f[i - 1], answer[i].box) ELSE f[i - 1]
           Known(f, n) == f = [i \in 0 .. n |-> Grown(f, i)]
           S == {n \in Nat : \E f : Known(f, n)}
<1>1. 0 \in S
  <2>1. Known([i \in 0 .. 0 |-> << >>], 0)
    OBVIOUS
  <2> QED
    BY <2>1
<1>2. ASSUME NEW n \in Nat, n \in S PROVE n + 1 \in S
  <2>1. PICK f : Known(f, n)
    BY <1>2
  <2>2. ASSUME NEW i \in 0 .. n PROVE f[i] = Grown(f, i)
    <3> HIDE DEF Grown
    <3> QED
      BY <2>1
  <2> DEFINE g == [i \in 0 .. n + 1 |-> IF i <= n THEN f[i] ELSE Grown(f, n + 1)]
  <2>3. ASSUME NEW i \in 0 .. n + 1 PROVE g[i] = Grown(g, i)
    <3>1. i # 0 => g[i - 1] = f[i - 1]
      OBVIOUS
    <3>2. Grown(g, i) = Grown(f, i)
      BY <3>1
    <3> HIDE DEF Grown
    <3>3. i <= n => f[i] = Grown(f, i)
      BY <2>2
    <3>4. g[i] = Grown(f, i)
      BY <3>3
    <3> QED
      BY <3>2, <3>4
  <2>4. Known(g, n + 1)
    <3> HIDE DEF Grown
    <3> QED
      BY <2>3
  <2> HIDE DEF Known
  <2> QED
    BY <2>4
<1>3. Len(answer) \in S
  <2> HIDE DEF S
  <2>1. \A n \in Nat : n \in S => n + 1 \in S
    BY <1>2
  <2>2. Nat \subseteq S
    BY <1>1, <2>1, SetInduction, Zenon
  <2> QED
    BY <2>2
<1> DEFINE f == CHOOSE g : Known(g, Len(answer))
<1>4. Known(f, Len(answer)) /\ Expired(answer) = f[Len(answer)]
  <2>1. Known(f, Len(answer))
    <3> HIDE DEF Known
    <3> QED
      BY <1>3
  <2> QED
    BY <2>1 DEF Expired
<1>5. ASSUME NEW i \in 0 .. Len(answer) PROVE f[i] = Grown(f, i)
  <2> HIDE DEF f, Grown
  <2> QED
    BY <1>4
<1> HIDE DEF f, Known
<1> DEFINE Good(q) ==
             /\ q \in Seq(Nat)
             /\ \A j \in 1 .. Len(q) : \E a \in Range(answer) : Confirmed(a) /\ a.box = q[j]
           T == {n \in Nat : n <= Len(answer) => Good(f[n])}
<1>6. 0 \in T
  <2>1. f[0] = << >>
    BY <1>5
  <2>2. << >> \in Seq(Nat) /\ Len(<< >>) = 0
    OBVIOUS
  <2>3. Good(<< >>)
    BY <2>2
  <2> HIDE DEF Good
  <2> QED
    BY <2>1, <2>3
<1>7. ASSUME NEW n \in Nat, n \in T PROVE n + 1 \in T
  <2> SUFFICES ASSUME n + 1 <= Len(answer) PROVE Good(f[n + 1])
    OBVIOUS
  <2>1. n <= Len(answer) /\ n + 1 \in 1 .. Len(answer)
    OBVIOUS
  <2>2. Good(f[n])
    <3> HIDE DEF Good
    <3> QED
      BY <1>7, <2>1
  <2>3. answer[n + 1] \in Range(answer) /\ answer[n + 1].box \in Nat
    <3>1. answer[n + 1] \in Range(answer) /\ answer[n + 1] \in [box : Nat, mail : Mails]
      BY <2>1, ElementOf
    <3> QED
      BY <3>1
  <2>4. f[n + 1] = IF Confirmed(answer[n + 1]) THEN Append(f[n], answer[n + 1].box) ELSE f[n]
    BY <1>5, <2>1
  <2>5. CASE Confirmed(answer[n + 1])
    <3>1. f[n + 1] = Append(f[n], answer[n + 1].box)
      BY <2>4, <2>5
    <3> QED
      BY <2>2, <2>3, <2>5, <3>1, SMTT(30)
  <2>6. CASE ~Confirmed(answer[n + 1])
    BY <2>2, <2>4, <2>6
  <2> QED
    BY <2>5, <2>6
<1>8. Good(f[Len(answer)])
  <2>1. Len(answer) \in T
    <3> HIDE DEF T
    <3>1. \A n \in Nat : n \in T => n + 1 \in T
      BY <1>7
    <3>2. Nat \subseteq T
      BY <1>6, <3>1, SetInduction, Zenon
    <3> QED
      BY <3>2
  <2> QED
    BY <2>1
<1>9. Expired(answer) \in Seq(Nat)
  BY <1>4, <1>8
<1>10. ASSUME NEW b \in Range(Expired(answer))
       PROVE  \E a \in Range(answer) : Confirmed(a) /\ a.box = b
  <2>1. PICK j \in 1 .. Len(Expired(answer)) : b = Expired(answer)[j]
    BY <1>9, ElementOf
  <2> QED
    BY <1>4, <1>8, <2>1
<1> QED
  BY <1>9, <1>10

(* A list with one more element.                                            *)
LEMMA AppendRange ==
  ASSUME NEW X, NEW q \in Seq(X), NEW e \in X
  PROVE  Append(q, e) \in Seq(X) /\ Range(Append(q, e)) = Range(q) \cup {e}
<1> DEFINE r == Append(q, e)
<1>1. /\ r \in Seq(X) /\ Len(r) = Len(q) + 1 /\ Len(q) \in Nat
      /\ \A i \in 1 .. Len(q) : r[i] = q[i]
      /\ r[Len(q) + 1] = e
  OBVIOUS
<1> HIDE DEF r
<1>2. ASSUME NEW x \in Range(r) PROVE x \in Range(q) \cup {e}
  <2>1. PICK i \in 1 .. Len(r) : x = r[i]
    BY <1>1, ElementOf
  <2>2. CASE i = Len(q) + 1
    BY <1>1, <2>1, <2>2
  <2>3. CASE i \in 1 .. Len(q)
    <3>1. x = q[i]
      BY <1>1, <2>1, <2>3
    <3> QED
      BY <2>3, <3>1, ElementOf
  <2> QED
    BY <1>1, <2>1, <2>2, <2>3
<1>3. ASSUME NEW x \in Range(q) PROVE x \in Range(r)
  <2>1. PICK i \in 1 .. Len(q) : x = q[i]
    BY ElementOf
  <2>2. i \in 1 .. Len(r) /\ r[i] = x
    BY <1>1, <2>1
  <2> QED
    BY <1>1, <2>2, ElementOf
<1>4. e \in Range(r)
  <2>1. Len(q) + 1 \in 1 .. Len(r)
    BY <1>1
  <2> QED
    BY <1>1, <2>1, ElementOf
<1>5. Range(r) = Range(q) \cup {e}
  BY <1>2, <1>3, <1>4
<1> QED
  BY <1>1, <1>5 DEF r

LEMMA AppendNumber ==
  \A q \in Seq(Nat) : \A e \in Nat :
    Append(q, e) \in Seq(Nat) /\ Range(Append(q, e)) = Range(q) \cup {e}
  BY AppendRange, Zenon

(* Digits run together are a number, and with nothing before them the same  *)
(* number; what is left of a number without its last digits is one as well; *)
(* and a number ends with its own digits.                                   *)
LEMMA JoinedNumber == \A c, n \in Nat : Append10(c, n) \in Nat
<1> SUFFICES ASSUME NEW c \in Nat, NEW n \in Nat PROVE Append10(c, n) \in Nat
  OBVIOUS
<1>1. Shift(n) \in Nat
  BY ShiftFacts, Zenon
<1> QED
  BY <1>1 DEF Append10

LEMMA NothingBefore == \A n \in Nat : Append10(0, n) = n
<1> SUFFICES ASSUME NEW n \in Nat PROVE Append10(0, n) = n
  OBVIOUS
<1>1. Shift(n) \in Nat
  BY ShiftFacts, Zenon
<1> QED
  BY <1>1 DEF Append10

LEMMA DigitsLeft == \A n \in Nat : \A b \in BoxNumbers : n \div Shift(b) \in Nat
<1> SUFFICES ASSUME NEW n \in Nat, NEW b \in BoxNumbers PROVE n \div Shift(b) \in Nat
  OBVIOUS
<1>0. b \in Nat
  BY DEF BoxNumbers
<1>1. Shift(b) \in Nat \ {0}
  BY <1>0, ShiftFacts, Zenon
<1> QED
  BY <1>1

LEMMA OwnDigits == \A b \in BoxNumbers : EndsWith(b, b)
<1> SUFFICES ASSUME NEW b \in BoxNumbers PROVE EndsWith(b, b)
  OBVIOUS
<1>0. b \in Nat
  BY DEF BoxNumbers
<1>1. Shift(b) \in Nat \ {0}
  BY <1>0, ShiftFacts, Zenon
<1>2. b < Shift(b)
  BY ShiftFacts, Zenon
<1>3. b % Shift(b) = b
  BY <1>0, <1>1, <1>2
<1> QED
  BY <1>3 DEF EndsWith

(* What is left of a list when the text "b," is replaced by nothing: it is  *)
(* a list of numbers and, if no other number ends with the digits of b, it  *)
(* has lost b and nothing else, and the others are in their order.          *)
LEMMA RemovedFacts ==
  ASSUME NEW list \in Seq(Nat), NEW b \in BoxNumbers
  PROVE  /\ Removed(list, b) \in Seq(Nat)
         /\ (\A n \in Range(list) : n # b => ~EndsWith(n, b))
              => /\ Range(Removed(list, b)) = Range(list) \ {b}
                 /\ Removed(list, b) = Without(list, b)
<1> DEFINE Take(acc, n) ==
             IF EndsWith(n, b)
             THEN [acc EXCEPT !.carry = IF n = b THEN @ ELSE Append10(@, n \div Shift(b))]
             ELSE [done |-> Append(acc.done, Append10(acc.carry, n)), carry |-> 0]
           Grown(f, i) ==
             IF i = 0 THEN [done |-> << >>, carry |-> 0] ELSE Take(f[i - 1], list[i])
           Text(f, n) == f = [i \in 0 .. n |-> Grown(f, i)]
           S == {n \in Nat : \E f : Text(f, n)}
<1>1. 0 \in S
  <2>1. Text([i \in 0 .. 0 |-> [done |-> << >>, carry |-> 0]], 0)
    <3> HIDE DEF Take
    <3> QED
      OBVIOUS
  <2> QED
    BY <2>1
<1>2. ASSUME NEW n \in Nat, n \in S PROVE n + 1 \in S
  <2>1. PICK f : Text(f, n)
    BY <1>2
  <2>2. ASSUME NEW i \in 0 .. n PROVE f[i] = Grown(f, i)
    <3> HIDE DEF Grown
    <3> QED
      BY <2>1
  <2> DEFINE g == [i \in 0 .. n + 1 |-> IF i <= n THEN f[i] ELSE Grown(f, n + 1)]
  <2>3. ASSUME NEW i \in 0 .. n + 1 PROVE g[i] = Grown(g, i)
    <3>1. i # 0 => g[i - 1] = f[i - 1]
      <4> HIDE DEF Grown
      <4> QED
        OBVIOUS
    <3>2. Grown(g, i) = Grown(f, i)
      <4> HIDE DEF g, Take
      <4> QED
        BY <3>1
    <3> HIDE DEF Grown
    <3>3. i <= n => f[i] = Grown(f, i)
      BY <2>2
    <3>4. g[i] = Grown(f, i)
      BY <3>3
    <3> QED
      BY <3>2, <3>4
  <2>4. Text(g, n + 1)
    <3> HIDE DEF Grown
    <3> QED
      BY <2>3
  <2> HIDE DEF Text
  <2> QED
    BY <2>4
<1>3. Len(list) \in S
  <2> HIDE DEF S
  <2>1. \A n \in Nat : n \in S => n + 1 \in S
    BY <1>2
  <2>2. Nat \subseteq S
    BY <1>1, <2>1, SetInduction, Zenon
  <2> QED
    BY <2>2
<1> DEFINE f == CHOOSE g : Text(g, Len(list))
           end == f[Len(list)]
<1>4. /\ Text(f, Len(list))
      /\ Removed(list, b) = IF end.carry = 0 THEN end.done ELSE Append(end.done, end.carry)
  <2>1. Text(f, Len(list))
    <3> HIDE DEF Text
    <3> QED
      BY <1>3
  <2>2. Removed(list, b) = IF end.carry = 0 THEN end.done ELSE Append(end.done, end.carry)
    BY Zenon DEF Removed
  <2> QED
    BY <2>1, <2>2
<1>5. ASSUME NEW i \in 0 .. Len(list) PROVE f[i] = Grown(f, i)
  <2> HIDE DEF f, Grown
  <2> QED
    BY <1>4
<1> HIDE DEF f, Text
<1> DEFINE Clean == \A n \in Range(list) : n # b => ~EndsWith(n, b)
           Good(acc, i) ==
             /\ acc \in [done : Seq(Nat), carry : Nat]
             /\ Clean => acc.carry = 0 /\ Range(acc.done) = {list[j] : j \in 1 .. i} \ {b}
           T == {n \in Nat : n <= Len(list) => Good(f[n], n)}
<1>6. 0 \in T
  <2>1. f[0] = [done |-> << >>, carry |-> 0]
    <3> HIDE DEF Take
    <3> QED
      BY <1>5
  <2>2. << >> \in Seq(Nat) /\ Range(<< >>) = {}
    BY DEF Range
  <2>3. Good([done |-> << >>, carry |-> 0], 0)
    BY <2>2
  <2> HIDE DEF Good
  <2> QED
    BY <2>1, <2>3
<1>7. ASSUME NEW n \in Nat, n \in T PROVE n + 1 \in T
  <2> SUFFICES ASSUME n + 1 <= Len(list) PROVE Good(f[n + 1], n + 1)
    OBVIOUS
  <2> DEFINE a == f[n]
             x == list[n + 1]
  <2>1. n <= Len(list) /\ n + 1 \in 1 .. Len(list)
    OBVIOUS
  <2>2. Good(a, n)
    <3> HIDE DEF Good
    <3> QED
      BY <1>7, <2>1
  <2>3. x \in Range(list) /\ x \in Nat
    BY <2>1, ElementOf
  <2>4. f[n + 1] = Take(a, x)
    <3> HIDE DEF Take
    <3> QED
      BY <1>5, <2>1
  <2>5. {list[j] : j \in 1 .. n + 1} = {list[j] : j \in 1 .. n} \cup {x}
    <3>1. 1 .. n + 1 = (1 .. n) \cup {n + 1}
      OBVIOUS
    <3> QED
      BY <3>1
  <2> HIDE DEF a, x
  <2>6. CASE EndsWith(x, b)
    <3> DEFINE c == IF x = b THEN a.carry ELSE Append10(a.carry, x \div Shift(b))
    <3>1. f[n + 1] = [a EXCEPT !.carry = c]
      BY <2>4, <2>6
    <3>2. c \in Nat
      <4>1. a.carry \in Nat
        BY <2>2
      <4>2. x \div Shift(b) \in Nat
        BY <2>3, DigitsLeft, Zenon
      <4>3. Append10(a.carry, x \div Shift(b)) \in Nat
        BY <4>1, <4>2, JoinedNumber, Zenon
      <4> QED
        BY <4>1, <4>3
    <3>3. f[n + 1] = [done |-> a.done, carry |-> c]
      BY <2>2, <3>1
    <3>4. Clean => x = b /\ c = 0
      <4>1. Clean => a.carry = 0 /\ x = b
        BY <2>2, <2>3, <2>6, Zenon
      <4> HIDE DEF Clean
      <4> QED
        BY <4>1
    <3> HIDE DEF c
    <3>5. a.done \in Seq(Nat) /\ (Clean => Range(a.done) = {list[j] : j \in 1 .. n} \ {b})
      BY <2>2
    <3>6. /\ f[n + 1] \in [done : Seq(Nat), carry : Nat]
          /\ (f[n + 1]).carry = c /\ (f[n + 1]).done = a.done
      BY <3>2, <3>3, <3>5
    <3>7. Clean => ({list[j] : j \in 1 .. n + 1} \ {b}) = ({list[j] : j \in 1 .. n} \ {b})
      BY <2>5, <3>4
    <3> HIDE DEF Clean
    <3> QED
      BY <3>4, <3>5, <3>6, <3>7
  <2>7. CASE ~EndsWith(x, b)
    <3> DEFINE e == Append10(a.carry, x)
    <3>1. f[n + 1] = [done |-> Append(a.done, e), carry |-> 0]
      BY <2>4, <2>7
    <3>2. a.done \in Seq(Nat) /\ e \in Nat
      <4>1. a.done \in Seq(Nat) /\ a.carry \in Nat
        BY <2>2
      <4>2. Append10(a.carry, x) \in Nat
        BY <2>3, <4>1, JoinedNumber, Zenon
      <4> QED
        BY <4>1, <4>2
    <3>3. Clean => x # b /\ e = x
      <4>1. a.carry \in Nat /\ (Clean => a.carry = 0)
        BY <2>2
      <4>2. EndsWith(b, b)
        BY OwnDigits, Zenon
      <4>3. Append10(0, x) = x
        BY <2>3, NothingBefore, Zenon
      <4> QED
        BY <2>7, <4>1, <4>2, <4>3
    <3> HIDE DEF e
    <3> DEFINE d == a.done
               r == Append(d, e)
    <3>4. d \in Seq(Nat) /\ (Clean => Range(d) = {list[j] : j \in 1 .. n} \ {b})
      BY <2>2
    <3> HIDE DEF d
    <3>5. r \in Seq(Nat) /\ Range(r) = Range(d) \cup {e}
      BY <3>2, <3>4, AppendNumber, Zenon
    <3>6. f[n + 1] = [done |-> r, carry |-> 0]
      BY <3>1 DEF d
    <3> HIDE DEF r
    <3>7. /\ f[n + 1] \in [done : Seq(Nat), carry : Nat]
          /\ (f[n + 1]).carry = 0 /\ (f[n + 1]).done = r
      BY <3>5, <3>6
    <3>8. Clean => ({list[j] : j \in 1 .. n + 1} \ {b}) = ({list[j] : j \in 1 .. n} \ {b}) \cup {e}
      BY <2>5, <3>3
    <3> HIDE DEF Clean
    <3> QED
      BY <3>4, <3>5, <3>7, <3>8
  <2> QED
    BY <2>6, <2>7
<1>8. Good(end, Len(list))
  <2>1. Len(list) \in T
    <3> HIDE DEF T
    <3>1. \A n \in Nat : n \in T => n + 1 \in T
      BY <1>7
    <3>2. Nat \subseteq T
      BY <1>6, <3>1, SetInduction, Zenon
    <3> QED
      BY <3>2
  <2> HIDE DEF Good
  <2> QED
    BY <2>1
<1>9. Range(list) = {list[j] : j \in 1 .. Len(list)}
  BY ElementOf
<1>10. Append(end.done, end.carry) \in Seq(Nat)
  BY <1>8
<1>11. ASSUME Clean PROVE end.carry = 0 /\ end.done = Without(list, b)
  <2> DEFINE Step(k, i) ==
               IF i = 0 THEN << >>
               ELSE IF list[i] = b THEN k[i - 1] ELSE Append(k[i - 1], list[i])
             Kept(k) == k = [i \in 0 .. Len(list) |-> Step(k, i)]
             h == [i \in 0 .. Len(list) |-> (f[i]).done]
  <2>1. ASSUME NEW i \in 0 .. Len(list)
        PROVE  f[i] \in [done : Seq(Nat), carry : Nat] /\ (f[i]).carry = 0
    <3>1. Nat \subseteq T
      <4> HIDE DEF T
      <4>1. \A n \in Nat : n \in T => n + 1 \in T
        BY <1>7
      <4> QED
        BY <1>6, <4>1, SetInduction, Zenon
    <3>2. i \in T /\ i <= Len(list)
      <4> HIDE DEF T
      <4> QED
        BY <3>1
    <3>3. Good(f[i], i)
      <4> HIDE DEF Good
      <4> QED
        BY <3>2
    <3> QED
      BY <1>11, <3>3
  <2>2. ASSUME NEW i \in 0 .. Len(list) PROVE h[i] = Step(h, i)
    <3>1. CASE i = 0
      <4>1. f[0] = [done |-> << >>, carry |-> 0]
        <5> HIDE DEF Take
        <5> QED
          BY <1>5
      <4> QED
        BY <3>1, <4>1
    <3>2. CASE i # 0
      <4> DEFINE a == f[i - 1]
                 x == list[i]
      <4>1. i - 1 \in 0 .. Len(list) /\ i \in 1 .. Len(list)
        BY <3>2
      <4>2. f[i] = Take(a, x)
        <5> HIDE DEF Take
        <5> QED
          BY <1>5, <3>2
      <4>3. x \in Nat /\ x \in Range(list)
        BY <4>1, ElementOf
      <4>4. a \in [done : Seq(Nat), carry : Nat] /\ a.carry = 0
        BY <2>1, <4>1
      <4>5. h[i] = (f[i]).done /\ h[i - 1] = a.done
        BY <4>1
      <4> HIDE DEF a, x, h
      <4>6. CASE x = b
        <5>1. EndsWith(x, b)
          BY <4>6, OwnDigits, Zenon
        <5>2. (f[i]).done = a.done
          BY <4>2, <4>4, <5>1
        <5> QED
          BY <3>2, <4>5, <4>6, <5>2 DEF x
      <4>7. CASE x # b
        <5>1. ~EndsWith(x, b) /\ Append10(0, x) = x
          BY <1>11, <4>3, <4>7, NothingBefore, Zenon
        <5>2. (f[i]).done = Append(a.done, x)
          BY <4>2, <4>4, <5>1
        <5> QED
          BY <3>2, <4>5, <4>7, <5>2 DEF x
      <4> QED
        BY <4>6, <4>7
    <3> QED
      BY <3>1, <3>2
  <2>3. Kept(h)
    <3> HIDE DEF Step
    <3> QED
      BY <2>2
  <2> DEFINE kept == CHOOSE k : Kept(k)
  <2>4. Kept(kept) /\ Without(list, b) = kept[Len(list)]
    <3>1. Kept(kept)
      <4> HIDE DEF Kept, h
      <4> QED
        BY <2>3
    <3> QED
      BY <3>1 DEF Without
  <2>5. ASSUME NEW i \in 0 .. Len(list) PROVE kept[i] = Step(kept, i)
    <3> HIDE DEF kept, Step
    <3> QED
      BY <2>4
  <2> HIDE DEF kept, Kept, h
  <2> DEFINE U == {n \in Nat : n <= Len(list) => kept[n] = h[n]}
  <2>6. 0 \in U
    BY <2>2, <2>5
  <2>7. ASSUME NEW n \in Nat, n \in U PROVE n + 1 \in U
    <3> SUFFICES ASSUME n + 1 <= Len(list) PROVE kept[n + 1] = h[n + 1]
      OBVIOUS
    <3>1. kept[n] = h[n] /\ n + 1 \in 0 .. Len(list) /\ n + 1 # 0 /\ (n + 1) - 1 = n
      BY <2>7
    <3> QED
      BY <2>2, <2>5, <3>1
  <2>8. Len(list) \in U
    <3> HIDE DEF U
    <3>1. \A n \in Nat : n \in U => n + 1 \in U
      BY <2>7
    <3>2. Nat \subseteq U
      BY <2>6, <3>1, SetInduction, Zenon
    <3> QED
      BY <3>2
  <2>9. h[Len(list)] = end.done
    BY DEF h
  <2> QED
    BY <1>8, <1>11, <2>4, <2>8, <2>9
<1> HIDE DEF end, Take
<1> QED
  BY <1>4, <1>8, <1>9, <1>10, <1>11

-----------------------------------------------------------------------------
(* Lists of numbers have numbers, and only the empty one has none.          *)
LEMMA NumberLists ==
  ASSUME NEW q \in Seq(Nat)
  PROVE  Range(q) \subseteq Nat /\ (Range(q) = {} => q = << >>) /\ Range(<< >>) = {}
<1>1. Range(q) \subseteq Nat
  BY ElementOf
<1>2. ASSUME Range(q) = {} PROVE q = << >>
  <2>1. Len(q) \in Nat /\ ~(1 \in 1 .. Len(q))
    BY <1>2, ElementOf
  <2> QED
    BY <2>1
<1>3. Range(<< >>) = {}
  BY DEF Range
<1> QED
  BY <1>1, <1>2, <1>3

(* The answer of the host for postman p.                                    *)
LEMMA AnsweredFacts ==
  ASSUME TypeOK, NEW p \in Ids, NEW answer \in Answers, Answered(p, answer)
  PROVE  /\ Expired(answer) \in Seq(Nat)
         /\ timeoutBox' = [timeoutBox EXCEPT ![p] = Expired(answer)]
         /\ flag2' \subseteq flag2 \cup (Range(Expired(answer)) \cap Full)
         /\ reported \subseteq reported' /\ reported' \subseteq Box \X Mails
         /\ \A b \in Range(Expired(answer)) : b \in Full /\ <<b, package[b]>> \in reported'
<1>1. answer \in Seq([box : Nat, mail : Mails])
  BY AnswersAssumption, Zenon
<1>2. /\ Expired(answer) \in Seq(Nat)
      /\ \A b \in Range(Expired(answer)) : \E a \in Range(answer) : Confirmed(a) /\ a.box = b
  BY <1>1, ExpiredFacts
<1>3. flag2' \subseteq flag2 \cup (Range(Expired(answer)) \cap Full)
  BY DEF Answered, SaveTimeoutPackageToDB
<1>4. reported' = reported \cup {<<a.box, a.mail>> : a \in {c \in Range(answer) : Confirmed(c)}}
  BY DEF Answered
<1>5. ASSUME NEW a \in Range(answer), Confirmed(a)
      PROVE  /\ a.box \in Full /\ a.box \in Box /\ a.mail \in Mails
             /\ <<a.box, a.mail>> = <<a.box, package[a.box]>>
             /\ <<a.box, a.mail>> \in reported'
  <2>1. a \in [box : Nat, mail : Mails]
    BY <1>1, ElementOf
  <2>2. a.mail \in Mails
    BY <2>1
  <2> QED
    BY <1>4, <1>5, <2>2 DEF Confirmed, Full
<1>6. reported' \subseteq Box \X Mails
  BY <1>4, <1>5 DEF TypeOK
<1>7. ASSUME NEW b \in Range(Expired(answer))
      PROVE  b \in Full /\ <<b, package[b]>> \in reported'
  <2>1. PICK a \in Range(answer) : Confirmed(a) /\ a.box = b
    BY <1>2
  <2> QED
    BY <1>5, <2>1
<1> QED
  BY <1>2, <1>3, <1>4, <1>6, <1>7 DEF Answered

(* A box taken out of the lists: nobody's list has it any more, or the      *)
(* history says that something went wrong.                                  *)
LEMMA UpdateFacts ==
  ASSUME TypeInv, NEW b \in Box, UpdateTimeoutBoxToPostman(b)
  PROVE  /\ timeoutBox' \in [Ids -> Seq(Nat)]
         /\ \A p \in Ids \ rows : timeoutBox'[p] = << >>
         /\ disturbed' \in BOOLEAN /\ (disturbed => disturbed')
         /\ ~disturbed' => \A p \in Ids : /\ Range(timeoutBox'[p]) = Range(timeoutBox[p]) \ {b}
                                         /\ timeoutBox'[p] = Without(timeoutBox[p], b)
<1> USE DEF TypeInv, TypeOK, PlaceInv
<1>1. b \in BoxNumbers /\ disturbed \in BOOLEAN
  BY PostmenAssumption DEF Box, BoxNumbers
<1>2. CASE /\ timeoutBox' = [p \in Ids |-> Removed(timeoutBox[p], b)]
           /\ disturbed' = (disturbed \/ Clash(b))
  <2>1. ASSUME NEW p \in Ids
        PROVE  /\ Removed(timeoutBox[p], b) \in Seq(Nat)
               /\ (\A n \in Range(timeoutBox[p]) : n # b => ~EndsWith(n, b))
                    => /\ Range(Removed(timeoutBox[p], b)) = Range(timeoutBox[p]) \ {b}
                       /\ Removed(timeoutBox[p], b) = Without(timeoutBox[p], b)
    <3>1. timeoutBox[p] \in Seq(Nat)
      OBVIOUS
    <3> QED
      BY <1>1, <3>1, RemovedFacts, Zenon
  <2>2. ASSUME NEW p \in Ids \ rows
        PROVE  Removed(timeoutBox[p], b) = << >> /\ Range(timeoutBox[p]) = {}
    <3>1. timeoutBox[p] = << >> /\ Range(timeoutBox[p]) = {}
      BY NumberLists
    <3> QED
      BY <2>1, <3>1, NumberLists
  <2>3. timeoutBox' \in [Ids -> Seq(Nat)]
    BY <1>2, <2>1
  <2>4. \A p \in Ids : timeoutBox'[p] = Removed(timeoutBox[p], b)
    BY <1>2
  <2>5. ASSUME ~disturbed', NEW p \in Ids
        PROVE  /\ Range(timeoutBox'[p]) = Range(timeoutBox[p]) \ {b}
               /\ timeoutBox'[p] = Without(timeoutBox[p], b)
    <3>1. \A n \in Range(timeoutBox[p]) : n # b => ~EndsWith(n, b)
      BY <1>2, <2>2, <2>5, Zenon DEF Clash
    <3> QED
      BY <2>1, <2>4, <3>1
  <2>6. disturbed' \in BOOLEAN /\ (disturbed => disturbed')
    BY <1>1, <1>2 DEF Clash
  <2> QED
    BY <2>2, <2>3, <2>4, <2>5, <2>6
<1>3. CASE disturbed' = TRUE /\ UNCHANGED timeoutBox
  BY <1>3
<1> QED
  BY <1>2, <1>3, Zenon DEF UpdateTimeoutBoxToPostman

-----------------------------------------------------------------------------
(* TypeInv: the parts of it as separate facts.                              *)
LEMMA TypeParts ==
  ASSUME TypeOK
  PROVE  /\ flag2 \subseteq Box /\ queued \subseteq Nat /\ localPackage \subseteq Box
         /\ hide \subseteq Box /\ disturbed \in BOOLEAN /\ unsure \in BOOLEAN
         /\ Full \subseteq Box
  BY DEF TypeOK, Full

(* The first state: no rows, no parcels, nobody logged in.                  *)
LEMMA InitType == Init => TypeInv
<1> SUFFICES ASSUME Init PROVE TypeInv
  OBVIOUS
<1>1. timeoutBox \in [Ids -> Seq(Nat)] /\ availableBox \in [Ids -> SUBSET Box]
  BY DEF Init
<1>2. package \in [Box -> Mails \cup {NoMail}] /\ setting \in Settings
  BY DEF Init
<1> QED
  BY <1>1, <1>2 DEF Init, TypeInv, TypeOK, PlaceInv

(* The log-ins keep the types: the list of an answer is one of numbers, and *)
(* a row is there before a list is stored in it.                            *)
LEMMA LoginType ==
  ASSUME TypeInv, NEW p \in Ids, Login(p)
  PROVE  TypeInv'
<1> USE DEF TypeInv, TypeOK, PlaceInv
<1>1. CASE LoginOffLine(p)
  <2>1. Range(timeoutBox[p]) \subseteq Nat
    BY NumberLists
  <2> QED
    BY <1>1, <2>1 DEF LoginOffLine, LoggedIn, LoadTimeoutBoxFromPostman,
      LoadAvailableBoxFromPostman, table
<1>2. CASE LoginRefused(p)
  <2>1. screen = "idle" /\ todo = {}
    BY <1>2 DEF LoginRefused
  <2>2. CASE setting.offLine
    <3>1. DeletePostman(p)
      BY <1>2, <2>2 DEF LoginRefused
    <3>2. timeoutBox' \in [Ids -> Seq(Nat)] /\ availableBox' \in [Ids -> SUBSET Box]
      BY <3>1 DEF DeletePostman
    <3>3. rows' \subseteq Ids /\ \A q \in Ids \ rows' : timeoutBox'[q] = << >>
      BY <3>1 DEF DeletePostman
    <3> QED
      BY <1>2, <2>1, <3>2, <3>3 DEF LoginRefused, parcels, flags, history
  <2>3. CASE ~setting.offLine
    BY <1>2, <2>3 DEF LoginRefused, table, parcels, flags, history
  <2> QED
    BY <2>2, <2>3
<1>3. CASE PostmanPhoneLogin(p)
  BY <1>3 DEF PostmanPhoneLogin, SavePostman, parcels, flags, history
<1>4. ASSUME NEW grant \in Grants, LoginNoList(p, grant)
      PROVE  TypeInv'
  <2>1. /\ timeoutBox' \in [Ids -> Seq(Nat)] /\ availableBox' \in [Ids -> SUBSET Box]
        /\ \A q \in Ids \ rows' : timeoutBox'[q] = << >>
    BY <1>4, PostmenAssumption DEF LoginNoList, SavePostman
  <2>2. Range(timeoutBox'[p]) \subseteq Nat
    BY <2>1, NumberLists
  <2>3. flag2' \subseteq Box
    BY <1>4, TypeParts DEF LoginNoList, SaveTimeoutPackageToDB
  <2>4. hostTimeout' \subseteq Nat /\ hide' \subseteq Box
    BY <1>4, <2>1, <2>2 DEF LoginNoList, LoggedIn, LoadTimeoutBoxFromPostman,
      LoadAvailableBoxFromPostman
  <2>5. rows' = rows \cup {p} /\ m_PostLoginID' = p /\ screen' = "postman"
    BY <1>4 DEF LoginNoList, LoggedIn, SavePostman
  <2>6. UNCHANGED <<setting, package, queued, localPackage, todo, disturbed, reported>>
        /\ unsure' = FALSE /\ todo = {}
    BY <1>4 DEF LoginNoList, LoggedIn, parcels
  <2> QED
    BY <2>1, <2>3, <2>4, <2>5, <2>6
<1>5. ASSUME NEW grant \in Grants, PhoneLoginNoList(p, grant)
      PROVE  TypeInv'
  <2>1. flag2' \subseteq Box
    BY <1>5, TypeParts DEF PhoneLoginNoList, Unanswered, SaveTimeoutPackageToDB
  <2>2. hostTimeout' \subseteq Nat
    BY <1>5 DEF PhoneLoginNoList, StillFlagged
  <2>3. availableBox' \in [Ids -> SUBSET Box]
    BY <1>5, PostmenAssumption DEF PhoneLoginNoList, PhoneLogin
  <2> QED
    BY <1>5, <2>1, <2>2, <2>3 DEF PhoneLoginNoList, PhoneLogin, Unanswered, SavePostman,
      LoadAvailableBoxFromPostman
<1>6. ASSUME NEW grant \in Grants, NEW answer \in Answers, LoginOnLine(p, grant, answer)
      PROVE  TypeInv'
  <2> DEFINE ex == Expired(answer)
  <2>1. /\ ex \in Seq(Nat) /\ timeoutBox' = [timeoutBox EXCEPT ![p] = ex]
        /\ flag2' \subseteq Box /\ reported' \subseteq Box \X Mails
    BY <1>6, AnsweredFacts, TypeParts DEF LoginOnLine
  <2> HIDE DEF ex
  <2>2. timeoutBox'[p] = ex /\ Range(ex) \subseteq Nat
    BY <2>1, NumberLists
  <2>3. availableBox' \in [Ids -> SUBSET Box]
    BY <1>6, PostmenAssumption DEF LoginOnLine
  <2>4. /\ timeoutBox' \in [Ids -> Seq(Nat)]
        /\ \A q \in Ids \ rows' : timeoutBox'[q] = << >>
    BY <1>6, <2>1 DEF LoginOnLine, SavePostman
  <2>5. hostTimeout' \subseteq Nat /\ hide' \subseteq Box
    BY <1>6, <2>2, <2>3 DEF LoginOnLine, LoggedIn, LoadTimeoutBoxFromPostman,
      LoadAvailableBoxFromPostman
  <2>6. rows' = rows \cup {p} /\ m_PostLoginID' = p /\ screen' = "postman"
    BY <1>6 DEF LoginOnLine, LoggedIn, SavePostman
  <2>7. UNCHANGED <<setting, package, queued, localPackage, todo, disturbed>>
        /\ unsure' = FALSE /\ todo = {}
    BY <1>6 DEF LoginOnLine, LoggedIn
  <2> QED
    BY <2>1, <2>3, <2>4, <2>5, <2>6, <2>7
<1>7. ASSUME NEW grant \in Grants, NEW answer \in Answers, PhoneLoginAnswered(p, grant, answer)
      PROVE  TypeInv'
  <2> DEFINE ex == Expired(answer)
  <2>1. /\ ex \in Seq(Nat) /\ timeoutBox' = [timeoutBox EXCEPT ![p] = ex]
        /\ flag2' \subseteq Box /\ reported' \subseteq Box \X Mails
    BY <1>7, AnsweredFacts, TypeParts DEF PhoneLoginAnswered
  <2>2. hostTimeout' \subseteq Nat
    BY <1>7, <2>1, NumberLists DEF PhoneLoginAnswered, StillFlagged
  <2> HIDE DEF ex
  <2>3. availableBox' \in [Ids -> SUBSET Box]
    BY <1>7, PostmenAssumption DEF PhoneLoginAnswered, PhoneLogin
  <2>4. /\ timeoutBox' \in [Ids -> Seq(Nat)]
        /\ \A q \in Ids \ rows' : timeoutBox'[q] = << >>
    BY <1>7, <2>1 DEF PhoneLoginAnswered, PhoneLogin, SavePostman
  <2>5. hide' \subseteq Box /\ rows' = rows \cup {p} /\ m_PostLoginID' = p /\ screen' = "postman"
    BY <1>7 DEF PhoneLoginAnswered, PhoneLogin, SavePostman, LoadAvailableBoxFromPostman
  <2>6. UNCHANGED <<setting, package, queued, localPackage, todo, disturbed>> /\ unsure' = FALSE
    BY <1>7 DEF PhoneLoginAnswered, PhoneLogin
  <2>7. todo = {}
    BY <1>7 DEF PhoneLoginAnswered, PhoneLogin
  <2> QED
    BY <2>1, <2>2, <2>3, <2>4, <2>5, <2>6, <2>7
<1> QED
  BY <1>1, <1>2, <1>3, <1>4, <1>5, <1>6, <1>7, Zenon DEF Login

(* So do deposits and take-outs, the numbers that run together included.    *)
LEMMA ParcelType ==
  ASSUME TypeInv, NEW b \in DepositBoxes, Parcel(b)
  PROVE  TypeInv'
<1> USE DEF TypeInv, TypeOK, PlaceInv
<1>1. b \in Box /\ BoxName[b] \in Nat
  BY PostmenAssumption
<1>2. ASSUME NEW m \in Mails, NEW later \in BOOLEAN, Deposit(b, m, later)
      PROVE  TypeInv'
  <2>1. queued' \subseteq Nat /\ package' \in [Box -> Mails \cup {NoMail}]
    BY <1>1, <1>2 DEF Deposit
  <2>2. flag2' \subseteq Box /\ localPackage' \subseteq Box /\ hostTimeout' \subseteq Nat
    BY <1>1, <1>2 DEF Deposit
  <2>3. UNCHANGED <<setting, rows, timeoutBox, availableBox, hide, m_PostLoginID, screen, todo,
                    reported, disturbed, unsure>>
    BY <1>2 DEF Deposit, table, history
  <2> QED
    BY <2>1, <2>2, <2>3
<1>3. ASSUME NEW later \in BOOLEAN, TakeOut(b, later)
      PROVE  TypeInv'
  <2>1. queued' \subseteq Nat /\ package' \in [Box -> Mails \cup {NoMail}]
    BY <1>1, <1>3 DEF TakeOut
  <2>2. DoorOpens(b) /\ flag2' \subseteq Box /\ reported' \subseteq Box \X Mails
    BY <1>3 DEF TakeOut
  <2>3. /\ timeoutBox' \in [Ids -> Seq(Nat)] /\ disturbed' \in BOOLEAN
        /\ \A p \in Ids \ rows : timeoutBox'[p] = << >>
    BY <1>1, <2>2, UpdateFacts DEF DoorOpens
  <2>4. /\ localPackage' \subseteq Box /\ hostTimeout' \subseteq Nat
        /\ UNCHANGED <<setting, rows, availableBox, m_PostLoginID, screen, todo, unsure, hide>>
    BY <1>3 DEF TakeOut, DoorOpens
  <2> QED
    BY <2>1, <2>2, <2>3, <2>4
<1>4. ASSUME NEW later \in BOOLEAN, TakeNotRecorded(b, later)
      PROVE  TypeInv'
  <2>1. queued' \subseteq Nat /\ hide' \subseteq Box /\ DoorOpens(b)
    BY <1>1, <1>4 DEF TakeNotRecorded
  <2>2. /\ timeoutBox' \in [Ids -> Seq(Nat)] /\ disturbed' \in BOOLEAN
        /\ \A p \in Ids \ rows : timeoutBox'[p] = << >>
    BY <1>1, <2>1, UpdateFacts DEF DoorOpens
  <2> QED
    BY <1>4, <2>1, <2>2 DEF TakeNotRecorded, DoorOpens
<1>5. CASE RecycleFails(b)
  BY <1>5 DEF RecycleFails, table, parcels, history
<1>6. CASE TransactionQueue(b)
  BY <1>6 DEF TransactionQueue, table, flags, history
<1> QED
  BY <1>2, <1>3, <1>4, <1>5, <1>6, Zenon DEF Parcel

(* So does the download, which asks for postmen with rows only.             *)
LEMMA MonitorType ==
  ASSUME TypeInv, Monitor
  PROVE  TypeInv'
<1> USE DEF TypeInv, TypeOK, PlaceInv
<1>1. CASE StartDownload
  BY <1>1 DEF StartDownload, table, parcels, flags, history
<1>2. CASE EndDownload
  BY <1>2 DEF EndDownload, table, parcels, flags, history
<1>3. ASSUME NEW p \in Ids, Download(p)
      PROVE  availableBox' \in [Ids -> SUBSET Box]
  <2>1. \/ UNCHANGED availableBox
        \/ \E grant \in Grants : availableBox' = [availableBox EXCEPT ![p] = grant]
    BY <1>3 DEF Download
  <2>2. \A grant \in Grants : grant \in SUBSET Box
    BY PostmenAssumption
  <2> QED
    BY <2>1, <2>2
<1>4. ASSUME NEW p \in Ids, DownloadNoList(p)
      PROVE  TypeInv'
  <2>1. availableBox' \in [Ids -> SUBSET Box]
    BY <1>3, <1>4 DEF DownloadNoList
  <2> QED
    BY <1>4, <2>1 DEF DownloadNoList, Download
<1>5. ASSUME NEW p \in Ids, NEW answer \in Answers, DownloadAnswered(p, answer)
      PROVE  TypeInv'
  <2> DEFINE ex == Expired(answer)
  <2>1. /\ ex \in Seq(Nat) /\ timeoutBox' = [timeoutBox EXCEPT ![p] = ex]
        /\ flag2' \subseteq Box /\ reported' \subseteq Box \X Mails
    BY <1>5, AnsweredFacts, TypeParts DEF DownloadAnswered
  <2>2. hostTimeout' \subseteq Nat
    BY <1>5, <2>1, NumberLists DEF DownloadAnswered, StillFlagged
  <2> HIDE DEF ex
  <2>3. availableBox' \in [Ids -> SUBSET Box]
    BY <1>3, <1>5 DEF DownloadAnswered
  <2>4. p \in rows
    BY <1>5 DEF DownloadAnswered, Download
  <2>5. /\ timeoutBox' \in [Ids -> Seq(Nat)]
        /\ \A q \in Ids \ rows : timeoutBox'[q] = << >>
    BY <2>1, <2>4
  <2> QED
    BY <1>5, <2>1, <2>2, <2>3, <2>5 DEF DownloadAnswered, Download
<1> QED
  BY <1>1, <1>2, <1>4, <1>5, Zenon DEF Monitor

(* Every step keeps the types.                                              *)
LEMMA TypeStep ==
  ASSUME TypeInv, [Next]_vars
  PROVE  TypeInv'
<1> USE DEF TypeInv, TypeOK, PlaceInv
<1>1. CASE Idle
  BY <1>1 DEF Idle, table, parcels
<1>2. CASE UpdateLocalPackageStatus
  BY <1>2 DEF UpdateLocalPackageStatus, Full, table, parcels, history
<1>3. CASE Restart
  BY <1>3 DEF Restart, Full, table, parcels
<1>4. CASE UNCHANGED vars
  BY <1>4 DEF vars, table, parcels, flags, history
<1> QED
  BY <1>1, <1>2, <1>3, <1>4, LoginType, ParcelType, MonitorType, Zenon DEF Next

-----------------------------------------------------------------------------
(* A step that leaves the parcels and every earlier report as they are.     *)
LEMMA ReportedKept ==
  ASSUME UNCHANGED package, reported \subseteq reported'
  PROVE  Full' = Full /\ \A b : Reported(b) => Reported(b)'
  BY DEF Full, Reported

(* A step that keeps what has been reported and brings nothing new: each    *)
(* list is an old one or empty, and each flag was on a list or was a flag.  *)
LEMMA NothingNew ==
  ASSUME TypeInv, ListedReported, FlaggedReported,
         UNCHANGED package, reported \subseteq reported',
         timeoutBox' \in [Ids -> Seq(Nat)],
         \A p \in Ids : timeoutBox'[p] \in {timeoutBox[p], << >>},
         flag2' \subseteq flag2 \cup (hostTimeout \cap Full),
         \/ hostTimeout' \subseteq hostTimeout
         \/ \E p \in Ids : hostTimeout' = Range(timeoutBox'[p])
  PROVE  ListedReported' /\ FlaggedReported'
<1>1. Full' = Full /\ \A b : Reported(b) => Reported(b)'
  BY ReportedKept
<1>2. ASSUME NEW p \in Ids, NEW b \in Range(timeoutBox'[p])
      PROVE  Reported(b)
  <2>1. timeoutBox[p] \in Seq(Nat) /\ Range(<< >>) = {}
    BY NumberLists DEF TypeInv, TypeOK
  <2>2. timeoutBox'[p] = timeoutBox[p]
    BY <1>2, <2>1
  <2> QED
    BY <1>2, <2>2 DEF ListedReported
<1>3. ListedReported'
  BY <1>1, <1>2 DEF ListedReported
<1>4. ASSUME NEW b \in Full', b \in (flag2 \cup hostTimeout)'
      PROVE  Reported(b)
  <2>1. CASE b \in flag2'
    BY <1>1, <1>4, <2>1 DEF FlaggedReported
  <2>2. CASE b \in hostTimeout'
    BY <1>1, <1>2, <1>4, <2>2 DEF FlaggedReported
  <2> QED
    BY <1>4, <2>1, <2>2
<1> QED
  BY <1>1, <1>3, <1>4 DEF FlaggedReported

(* An answer of the host for postman p: his list and the flags are what the *)
(* answer says.                                                             *)
LEMMA AnswerReported ==
  ASSUME TypeInv, ListedReported, FlaggedReported, UNCHANGED package,
         NEW p \in Ids, NEW answer \in Answers, Answered(p, answer),
         hostTimeout' \subseteq Range(Expired(answer))
  PROVE  ListedReported' /\ FlaggedReported'
<1> DEFINE ex == Expired(answer)
<1>1. /\ ex \in Seq(Nat) /\ timeoutBox' = [timeoutBox EXCEPT ![p] = ex]
      /\ flag2' \subseteq flag2 \cup (Range(ex) \cap Full)
      /\ reported \subseteq reported'
      /\ \A b \in Range(ex) : b \in Full /\ <<b, package[b]>> \in reported'
      /\ hostTimeout' \subseteq Range(ex)
  BY AnsweredFacts DEF TypeInv
<1> HIDE DEF ex
<1>2. Full' = Full /\ \A b : Reported(b) => Reported(b)'
  BY <1>1, ReportedKept
<1>3. \A b \in Range(ex) : Reported(b)'
  BY <1>1, <1>2 DEF Reported
<1>4. ASSUME NEW q \in Ids, NEW b \in Range(timeoutBox'[q])
      PROVE  Reported(b)'
  <2>1. CASE q = p
    BY <1>1, <1>3, <1>4, <2>1 DEF TypeInv, TypeOK
  <2>2. CASE q # p
    <3>1. timeoutBox'[q] = timeoutBox[q]
      BY <1>1, <2>2 DEF TypeInv, TypeOK
    <3> QED
      BY <1>2, <1>4, <3>1 DEF ListedReported
  <2> QED
    BY <2>1, <2>2
<1>5. ListedReported'
  BY <1>4 DEF ListedReported
<1>6. ASSUME NEW b \in Full', b \in (flag2 \cup hostTimeout)'
      PROVE  Reported(b)'
  BY <1>1, <1>2, <1>3, <1>6 DEF FlaggedReported
<1> QED
  BY <1>5, <1>6 DEF FlaggedReported

(* A door that opens takes the box from the lists and from the flags, and   *)
(* the parcels in the other boxes stay what they were.                      *)
LEMMA DoorReported ==
  ASSUME TypeInv, ListedReported, FlaggedReported, ~disturbed',
         NEW b \in Box, DoorOpens(b),
         NEW later, TakeOut(b, later) \/ TakeNotRecorded(b, later)
  PROVE  ListedReported' /\ FlaggedReported'
<1>1. \A p \in Ids : Range(timeoutBox'[p]) = Range(timeoutBox[p]) \ {b}
  BY UpdateFacts DEF DoorOpens
<1>2. hostTimeout' = hostTimeout \ {b} /\ flag2' \subseteq flag2
  BY DEF DoorOpens, TakeOut, TakeNotRecorded
<1>3. ASSUME NEW c \in Full, c # b, Reported(c)
      PROVE  Reported(c)'
  <2>1. package'[c] = package[c]
    BY <1>3 DEF TakeOut, TakeNotRecorded, TypeInv, TypeOK, Full
  <2>2. <<c, package[c]>> \in reported'
    BY <1>3 DEF TakeOut, TakeNotRecorded, Reported
  <2> QED
    BY <1>3, <2>1, <2>2 DEF Reported, Full
<1>4. ASSUME NEW c \in Full' PROVE c \in Full
  BY <1>4 DEF TakeOut, TakeNotRecorded, TypeInv, TypeOK, Full
<1>5. ASSUME b \in Full', b \in flag2' PROVE Reported(b)'
  <2>1. TakeNotRecorded(b, later)
    BY <1>5 DEF TakeOut
  <2>2. UNCHANGED <<package, flag2, reported>>
    BY <2>1 DEF TakeNotRecorded
  <2>3. b \in Full /\ b \in flag2
    BY <1>4, <1>5, <2>2
  <2>4. Reported(b)
    BY <2>3 DEF FlaggedReported
  <2> QED
    BY <2>2, <2>4, ReportedKept
<1>6. ListedReported'
  <2> SUFFICES ASSUME NEW p \in Ids, NEW c \in Range(timeoutBox'[p]) PROVE Reported(c)'
    BY DEF ListedReported
  <2>1. c \in Range(timeoutBox[p]) /\ c # b
    BY <1>1
  <2>2. Reported(c) /\ c \in Full
    BY <2>1 DEF ListedReported, Reported
  <2> QED
    BY <1>3, <2>1, <2>2
<1>7. FlaggedReported'
  <2> SUFFICES ASSUME NEW c \in Full', c \in flag2' \cup hostTimeout' PROVE Reported(c)'
    BY DEF FlaggedReported
  <2>1. CASE c = b
    BY <1>2, <1>5, <2>1
  <2>2. CASE c # b
    <3>1. c \in Full /\ Reported(c)
      BY <1>2, <1>4 DEF FlaggedReported
    <3> QED
      BY <1>3, <2>2, <3>1
  <2> QED
    BY <2>1, <2>2
<1> QED
  BY <1>6, <1>7

(* A disturbance stays in the history.                                      *)
LEMMA DisturbedStays ==
  ASSUME TypeInv, [Next]_vars, disturbed
  PROVE  disturbed'
<1>1. ASSUME NEW p \in Ids, Login(p) PROVE disturbed'
  BY <1>1 DEF Login, LoginOffLine, LoginRefused, PostmanPhoneLogin, LoginNoList, PhoneLoginNoList,
    LoginOnLine, PhoneLoginAnswered, LoggedIn, PhoneLogin, history
<1>2. ASSUME NEW b \in DepositBoxes, Parcel(b) PROVE disturbed'
  <2>1. DoorOpens(b) => disturbed'
    BY PostmenAssumption, UpdateFacts DEF DoorOpens
  <2> QED
    BY <1>2, <2>1 DEF Parcel, Deposit, TakeOut, TakeNotRecorded, RecycleFails, TransactionQueue,
      history
<1>3. CASE Monitor
  BY <1>3 DEF Monitor, StartDownload, EndDownload, DownloadNoList, DownloadAnswered, Download,
    history
<1> QED
  BY <1>1, <1>2, <1>3 DEF Next, Idle, UpdateLocalPackageStatus, Restart, vars, history

(* Every step keeps the lists, the marks and the flags to what the host has *)
(* reported, or is recorded as a disturbance.                               *)
LEMMA ListStep ==
  ASSUME TypeInv, ListInv, TypeInv', [Next]_vars
  PROVE  ListInv'
<1> SUFFICES ASSUME ~disturbed' PROVE ListedReported' /\ FlaggedReported'
  BY DEF ListInv
<1>1. ListedReported /\ FlaggedReported
  BY DisturbedStays DEF ListInv
<1>2. timeoutBox \in [Ids -> Seq(Nat)] /\ timeoutBox' \in [Ids -> Seq(Nat)]
  BY DEF TypeInv, TypeOK
<1> DEFINE Done == ListedReported' /\ FlaggedReported'
<1>3. ASSUME UNCHANGED <<timeoutBox, package, flag2, reported>>, hostTimeout' \subseteq hostTimeout
      PROVE  Done
  BY <1>1, <1>2, <1>3, NothingNew
<1> HIDE DEF Done
<1> SUFFICES Done
  BY DEF Done
<1>4. ASSUME NEW p \in Ids, Login(p) PROVE Done
  <2>1. CASE LoginOffLine(p)
    <3>1. UNCHANGED <<timeoutBox, package, flag2, reported>> /\ hostTimeout' = Range(timeoutBox'[p])
      BY <2>1 DEF LoginOffLine, LoggedIn, LoadTimeoutBoxFromPostman, table
    <3> QED
      BY <1>1, <1>2, <3>1, NothingNew DEF Done
  <2>2. CASE LoginRefused(p)
    <3>1. \A q \in Ids : timeoutBox'[q] \in {timeoutBox[q], << >>}
      BY <1>2, <2>2 DEF LoginRefused, DeletePostman, table
    <3>2. UNCHANGED <<package, flag2, reported, hostTimeout>>
      BY <2>2 DEF LoginRefused, parcels, flags, history
    <3> QED
      BY <1>1, <1>2, <3>1, <3>2, NothingNew DEF Done
  <2>3. CASE PostmanPhoneLogin(p)
    BY <1>3, <2>3 DEF PostmanPhoneLogin, parcels, flags, history
  <2>4. ASSUME NEW grant \in Grants, LoginNoList(p, grant) PROVE Done
    <3>1. \A q \in Ids : timeoutBox'[q] \in {timeoutBox[q], << >>}
      BY <1>2, <2>4 DEF LoginNoList
    <3>2. /\ UNCHANGED <<package, reported>> /\ hostTimeout' = Range(timeoutBox'[p])
          /\ flag2' \subseteq flag2 \cup (hostTimeout \cap Full)
      BY <2>4 DEF LoginNoList, LoggedIn, LoadTimeoutBoxFromPostman, SaveTimeoutPackageToDB
    <3> QED
      BY <1>1, <1>2, <3>1, <3>2, NothingNew DEF Done
  <2>5. ASSUME NEW grant \in Grants, PhoneLoginNoList(p, grant) PROVE Done
    <3>1. /\ UNCHANGED <<package, timeoutBox, reported>> /\ hostTimeout' \subseteq hostTimeout
          /\ flag2' \subseteq flag2 \cup (hostTimeout \cap Full)
      BY <2>5 DEF PhoneLoginNoList, PhoneLogin, Unanswered, SaveTimeoutPackageToDB, StillFlagged
    <3> QED
      BY <1>1, <1>2, <3>1, NothingNew DEF Done
  <2>6. ASSUME NEW grant \in Grants, NEW answer \in Answers, LoginOnLine(p, grant, answer)
        PROVE  Done
    <3>1. Answered(p, answer) /\ UNCHANGED package /\ hostTimeout' = Range(timeoutBox'[p])
      BY <2>6 DEF LoginOnLine, LoggedIn, LoadTimeoutBoxFromPostman
    <3>2. timeoutBox'[p] = Expired(answer)
      BY <1>2, <3>1 DEF Answered
    <3> QED
      BY <1>1, <3>1, <3>2, AnswerReported DEF Done
  <2>7. ASSUME NEW grant \in Grants, NEW answer \in Answers, PhoneLoginAnswered(p, grant, answer)
        PROVE  Done
    <3>1. /\ Answered(p, answer) /\ UNCHANGED package
          /\ hostTimeout' \subseteq Range(Expired(answer))
      BY <2>7 DEF PhoneLoginAnswered, PhoneLogin, StillFlagged
    <3> QED
      BY <1>1, <3>1, AnswerReported DEF Done
  <2> QED
    BY <1>4, <2>1, <2>2, <2>3, <2>4, <2>5, <2>6, <2>7, Zenon DEF Login
<1>5. ASSUME NEW b \in DepositBoxes, Parcel(b) PROVE Done
  <2>1. b \in Box
    BY PostmenAssumption
  <2>2. ASSUME NEW m \in Mails, NEW later \in BOOLEAN, Deposit(b, m, later) PROVE Done
    <3>1. b \notin Full /\ Full' = Full \cup {b}
      BY <2>1, <2>2, PostmenAssumption DEF Deposit, Full, TypeInv, TypeOK
    <3>2. /\ UNCHANGED <<timeoutBox, reported>>
          /\ flag2' = flag2 \ {b} /\ hostTimeout' = hostTimeout \ {b}
      BY <2>2 DEF Deposit, table, history
    <3>3. ASSUME NEW c, Reported(c) PROVE Reported(c)'
      BY <2>2, <3>1, <3>2, <3>3 DEF Deposit, Reported, Full, TypeInv, TypeOK
    <3>4. ListedReported'
      BY <1>1, <3>2, <3>3 DEF ListedReported
    <3>5. FlaggedReported'
      BY <1>1, <3>1, <3>2, <3>3 DEF FlaggedReported
    <3> QED
      BY <3>4, <3>5 DEF Done
  <2>3. ASSUME NEW later \in BOOLEAN, TakeOut(b, later) \/ TakeNotRecorded(b, later) PROVE Done
    <3>1. DoorOpens(b)
      BY <2>3 DEF TakeOut, TakeNotRecorded
    <3> QED
      BY <1>1, <2>1, <2>3, <3>1, DoorReported DEF Done
  <2>4. CASE RecycleFails(b)
    BY <1>3, <2>4 DEF RecycleFails, table, parcels, history
  <2>5. CASE TransactionQueue(b)
    BY <1>3, <2>5 DEF TransactionQueue, table, flags, history
  <2> QED
    BY <1>5, <2>2, <2>3, <2>4, <2>5, Zenon DEF Parcel
<1>6. CASE Monitor
  <2>1. CASE StartDownload
    BY <1>3, <2>1 DEF StartDownload, table, parcels, flags, history
  <2>2. CASE EndDownload
    BY <1>3, <2>2 DEF EndDownload, table, parcels, flags, history
  <2>3. ASSUME NEW p \in Ids, DownloadNoList(p) PROVE Done
    BY <1>3, <2>3 DEF DownloadNoList, Download
  <2>4. ASSUME NEW p \in Ids, NEW answer \in Answers, DownloadAnswered(p, answer) PROVE Done
    <3>1. /\ Answered(p, answer) /\ UNCHANGED package
          /\ hostTimeout' \subseteq Range(Expired(answer))
      BY <2>4 DEF DownloadAnswered, Download, StillFlagged
    <3> QED
      BY <1>1, <3>1, AnswerReported DEF Done
  <2> QED
    BY <1>6, <2>1, <2>2, <2>3, <2>4, Zenon DEF Monitor
<1>7. CASE Idle
  BY <1>3, <1>7 DEF Idle, table, parcels
<1>8. CASE UpdateLocalPackageStatus
  BY <1>3, <1>8 DEF UpdateLocalPackageStatus, table, parcels, history
<1>9. CASE Restart
  BY <1>3, <1>9 DEF Restart, table, parcels
<1>10. CASE UNCHANGED vars
  BY <1>3, <1>10 DEF vars, table, parcels, flags, history
<1> QED
  BY <1>4, <1>5, <1>6, <1>7, <1>8, <1>9, <1>10, Zenon DEF Next

(* Every step that ends at a postman's screen keeps the boxes on offer      *)
(* within his own list.                                                     *)
LEMMA OwnStep ==
  ASSUME TypeInv, OwnOverdueOnly, TypeInv', [Next]_vars
  PROVE  OwnOverdueOnly'
<1> SUFFICES ASSUME screen' = "postman", ~disturbed', ~unsure'
             PROVE  hostTimeout' \ hide' \subseteq Range(timeoutBox'[m_PostLoginID'])
  BY DEF OwnOverdueOnly
<1>1. timeoutBox \in [Ids -> Seq(Nat)] /\ m_PostLoginID \in Ids \cup {NoId}
  BY DEF TypeInv, TypeOK
<1> DEFINE Done == hostTimeout' \ hide' \subseteq Range(timeoutBox'[m_PostLoginID'])
<1>2. ~disturbed
  BY DisturbedStays
<1>3. screen = "postman" /\ ~unsure => hostTimeout \ hide \subseteq Range(timeoutBox[m_PostLoginID])
  BY <1>2 DEF OwnOverdueOnly
<1>4. ASSUME UNCHANGED <<timeoutBox, m_PostLoginID, screen, unsure>>,
             hostTimeout' \ hide' \subseteq hostTimeout \ hide
      PROVE  Done
  BY <1>3, <1>4
<1>5. ASSUME NEW p \in Ids, Login(p) PROVE Done
  <2>1. LoggedIn(p) => Done
    BY DEF LoggedIn, LoadTimeoutBoxFromPostman
  <2>2. ASSUME NEW grant \in Grants, NEW answer \in Answers, PhoneLoginAnswered(p, grant, answer)
        PROVE  Done
    <3>1. /\ Answered(p, answer) /\ m_PostLoginID' = p
          /\ hostTimeout' \subseteq Range(Expired(answer))
      BY <2>2 DEF PhoneLoginAnswered, PhoneLogin, StillFlagged
    <3>2. timeoutBox'[p] = Expired(answer)
      BY <1>1, <3>1 DEF Answered
    <3> QED
      BY <3>1, <3>2
  <2> HIDE DEF Done
  <2> QED
    BY <1>5, <2>1, <2>2 DEF Login, LoginOffLine, LoginRefused, PostmanPhoneLogin, LoginNoList,
      LoginOnLine, PhoneLoginNoList
<1>6. ASSUME NEW b \in DepositBoxes, Parcel(b) PROVE Done
  <2>1. b \in Box
    BY PostmenAssumption
  <2>2. ASSUME NEW m \in Mails, NEW later \in BOOLEAN, Deposit(b, m, later) PROVE Done
    <3>1. /\ UNCHANGED <<timeoutBox, m_PostLoginID, screen, unsure>>
          /\ hostTimeout' \ hide' \subseteq hostTimeout \ hide
      BY <2>2 DEF Deposit, table, history
    <3> QED
      BY <1>4, <3>1
  <2>3. ASSUME NEW later \in BOOLEAN, TakeOut(b, later) \/ TakeNotRecorded(b, later) PROVE Done
    <3>1. /\ DoorOpens(b) /\ hostTimeout' = hostTimeout \ {b} /\ hide \subseteq hide'
          /\ UNCHANGED <<m_PostLoginID, screen, unsure>>
      BY <2>3 DEF TakeOut, TakeNotRecorded, DoorOpens
    <3>2. \A p \in Ids : Range(timeoutBox'[p]) = Range(timeoutBox[p]) \ {b}
      BY <2>1, <3>1, UpdateFacts DEF DoorOpens
    <3>3. m_PostLoginID \in Ids
      BY <3>1 DEF TypeInv, TypeOK
    <3> QED
      BY <1>3, <3>1, <3>2, <3>3
  <2>4. CASE RecycleFails(b)
    <3>1. /\ UNCHANGED <<timeoutBox, m_PostLoginID, screen, unsure>>
          /\ hostTimeout' \ hide' \subseteq hostTimeout \ hide
      BY <2>4 DEF RecycleFails, table, history
    <3> QED
      BY <1>4, <3>1
  <2> HIDE DEF Done
  <2> QED
    BY <1>6, <2>2, <2>3, <2>4 DEF Parcel, TransactionQueue
<1>7. CASE UpdateLocalPackageStatus
  BY <1>4, <1>7 DEF UpdateLocalPackageStatus, table, history
<1>8. CASE UNCHANGED vars
  BY <1>4, <1>8 DEF vars, table, flags, history
<1>9. ASSUME Idle \/ Monitor \/ Restart PROVE FALSE
  BY <1>9 DEF Idle, Monitor, StartDownload, EndDownload, DownloadNoList, DownloadAnswered,
    Download, Restart
<1> QED
  BY <1>5, <1>6, <1>7, <1>8, <1>9, Zenon DEF Next

-----------------------------------------------------------------------------
(* The invariant holds at the start.                                        *)
LEMMA InitInv == Init => IInv
<1> SUFFICES ASSUME Init PROVE IInv
  OBVIOUS
<1>1. ListInv
  <2>1. \A p \in Ids : Range(timeoutBox[p]) = {}
    BY DEF Init, Range
  <2> QED
    BY <2>1 DEF Init, ListInv, ListedReported, FlaggedReported, Full
<1>2. OwnOverdueOnly
  BY DEF Init, OwnOverdueOnly
<1> QED
  BY InitType, <1>1, <1>2 DEF IInv

(* The invariant holds in every reachable state.                            *)
LEMMA AlwaysInv == Spec => []IInv
<1>1. IInv /\ [Next]_vars => IInv'
  BY TypeStep, ListStep, OwnStep DEF IInv
<1> QED
  BY InitInv, <1>1, PTL DEF Spec

(* The variables stay in their ranges for every set of postmen, boxes,      *)
(* answers and settings; in particular whoever is logged in has a row of    *)
(* the postman table, and the lists are lists of numbers even after digits  *)
(* of two numbers have run together.                                        *)
THEOREM TypeCorrect == Spec => []TypeOK
<1>1. IInv => TypeOK
  BY DEF IInv, TypeInv
<1> QED
  BY AlwaysInv, <1>1, PTL

(* However answers, take-outs, deposits, downloads and restarts follow each *)
(* other: a parcel that the terminal marks, shows or lists as overdue is one *)
(* the host has called overdue, as long as no list was disturbed.           *)
THEOREM OverdueIsReported == Spec => []OverdueWasReported
<1>1. IInv => OverdueWasReported
  BY DEF IInv, TypeInv, TypeOK, ListInv, ListedReported, FlaggedReported, Reported,
    OverdueWasReported
<1> QED
  BY AlwaysInv, <1>1, PTL

(* A postman is offered overdue boxes of his own list only, whoever was     *)
(* logged in before and whatever the download left in the flags of CBox.    *)
THEOREM OwnBoxesOnly == Spec => []OwnOverdueOnly
<1>1. IInv => OwnOverdueOnly
  BY DEF IInv
<1> QED
  BY AlwaysInv, <1>1, PTL

(* Taking a parcel out is the only step that empties a box, and it takes    *)
(* the box, and nothing else, out of the text of every postman's list when  *)
(* no other number in the lists ends with the digits of the box.            *)
THEOREM RemovedExactly == Spec => RemovalExact
<1> DEFINE Exact ==
             \A b \in Full :
               package'[b] = NoMail /\ ~disturbed' =>
                 \A p \in rows : timeoutBox'[p] = Without(timeoutBox[p], b)
<1>1. ASSUME IInv, [Next]_vars PROVE [Exact]_vars
  <2> SUFFICES ASSUME NEW b \in Full, package'[b] = NoMail, ~disturbed', NEW p \in rows
               PROVE  timeoutBox'[p] = Without(timeoutBox[p], b)
    OBVIOUS
  <2>1. TypeInv /\ p \in Ids /\ b \in Box /\ package[b] # NoMail
    BY <1>1 DEF IInv, TypeInv, TypeOK, Full
  <2>2. package' # package
    BY <2>1
  <2>3. PICK c \in DepositBoxes : Parcel(c)
    BY <1>1, <2>2 DEF Next, Login, LoginOffLine, LoginRefused, PostmanPhoneLogin, LoginNoList,
      PhoneLoginNoList, LoginOnLine, PhoneLoginAnswered, LoggedIn, PhoneLogin, Idle,
      UpdateLocalPackageStatus, Monitor, StartDownload, EndDownload, DownloadNoList,
      DownloadAnswered, Download, Restart, vars, parcels
  <2>4. c \in Box /\ NoMail \notin Mails
    BY PostmenAssumption
  <2>5. ASSUME NEW m \in Mails, NEW later \in BOOLEAN, Deposit(c, m, later) PROVE FALSE
    BY <2>1, <2>4, <2>5 DEF Deposit, TypeInv, TypeOK
  <2>6. PICK later \in BOOLEAN : TakeOut(c, later)
    BY <2>2, <2>3, <2>5 DEF Parcel, TakeNotRecorded, RecycleFails, TransactionQueue, parcels
  <2>7. c = b
    BY <2>1, <2>4, <2>6 DEF TakeOut, TypeInv, TypeOK
  <2> QED
    BY <2>1, <2>6, <2>7, UpdateFacts DEF TakeOut, DoorOpens
<1>2. RemovalExact <=> [][Exact]_vars
  BY DEF RemovalExact
<1> HIDE DEF Exact
<1> QED
  BY AlwaysInv, <1>1, <1>2, PTL DEF Spec
=============================================================================
