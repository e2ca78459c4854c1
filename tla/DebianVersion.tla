---------------------------- MODULE DebianVersion ----------------------------
(***************************************************************************)
(* debian_version_compare of lsa/checks/packages.py. A version is the      *)
(* sequence of its characters; of the characters of its parts the model    *)
(* knows the digits and those of Code.                                     *)
(***************************************************************************)
EXTENDS Integers, Sequences, SequencesExt

Digits == {"0", "1", "2", "3", "4", "5", "6", "7", "8", "9"}
IsDigit(c) == c \in Digits
DigitValue(c) ==
  CASE c = "0" -> 0 [] c = "1" -> 1 [] c = "2" -> 2 [] c = "3" -> 3 [] c = "4" -> 4
    [] c = "5" -> 5 [] c = "6" -> 6 [] c = "7" -> 7 [] c = "8" -> 8 [] c = "9" -> 9
Number(digits) ==
  LET value[n \in 0 .. Len(digits)] == IF n = 0 THEN 0 ELSE 10 * value[n - 1] + DigitValue(digits[n])
  IN  value[Len(digits)]
Code == [c \in {"A", "a", "b", "+", ".", "-", ":", "~"} |->
           CASE c = "A" -> 65 [] c = "a" -> 97 [] c = "b" -> 98
             [] c = "+" -> 43 [] c = "." -> 46 [] c = "-" -> 45 [] c = ":" -> 58 [] OTHER -> 126]

Known == Digits \cup DOMAIN Code
Nothing == "none"
Parts == Seq(Known)

(* split: the epoch before the first colon, 0 unless it is a number; the revision after *)
(* the last hyphen, "0" without one.                                                    *)
split(version) ==
  LET colon == SelectInSeq(version, LAMBDA c : c = ":")
      head == SubSeq(version, 1, colon - 1)
      rest == SubSeq(version, colon + 1, Len(version))
      hyphen == SelectLastInSeq(rest, LAMBDA c : c = "-")
  IN  [epoch    |-> IF head # <<>> /\ \A c \in ToSet(head) : IsDigit(c) THEN Number(head) ELSE 0,
       upstream |-> IF hyphen = 0 THEN rest ELSE SubSeq(rest, 1, hyphen - 1),
       revision |-> IF hyphen = 0 THEN <<"0">> ELSE SubSeq(rest, hyphen + 1, Len(rest))]

(* Bug: a tilde sorts with the other signs. *)
order_plain(c) ==
  IF c = Nothing \/ IsDigit(c) THEN 0 ELSE IF c \in {"A", "a", "b"} THEN Code[c] ELSE Code[c] + 256
(* order: nothing and a digit, then the letters, then the rest; a tilde before them all. *)
order(c) ==
  CASE c = Nothing \/ IsDigit(c) -> 0
    [] c \in {"A", "a", "b"} -> Code[c]
    [] c = "~" -> -1
    [] OTHER -> Code[c] + 256

CharAt(s, j) == IF j <= Len(s) THEN s[j] ELSE Nothing
From(s, j) == SubSeq(s, j, Len(s))
(* The first position of a character that is none of C: where a loop over them stops. *)
StopAt(s, C) == LET j == SelectInSeq(s, LAMBDA c : c \notin C) IN IF j = 0 THEN Len(s) + 1 ELSE j
SkipZeros(s) == From(s, StopAt(s, {"0"}))
LeadingDigits(s) == SubSeq(s, 1, StopAt(s, Digits) - 1)

(* The first place where the non-digits at the head differ, or where both have none left. *)
Parting(a, b) ==
  CHOOSE k \in 1 .. Len(a) + 1 :
    /\ \A j \in 1 .. k - 1 : ~IsDigit(a[j]) /\ CharAt(b, j) = a[j]
    /\ \/ CharAt(a, k) # CharAt(b, k)
       \/ k > Len(a) \/ IsDigit(a[k])

(* verrevcmp, one round: non-digits by order, then the digits without leading zeros, the *)
(* longer run first, else the first digit that differs; then the rest.                    *)
verrevcmp[w \in Parts \X Parts] ==
  IF w[1] = <<>> /\ w[2] = <<>> THEN 0
  ELSE LET a == w[1]
           b == w[2]
           k == Parting(a, b)
           left == SkipZeros(From(a, k))
           right == SkipZeros(From(b, k))
           x == LeadingDigits(left)
           y == LeadingDigits(right)
           differ == {j \in DOMAIN x \cap DOMAIN y : x[j] # y[j]}
           first == CHOOSE j \in differ : \A i \in differ : j <= i
       IN  IF order(CharAt(a, k)) # order(CharAt(b, k)) THEN order(CharAt(a, k)) - order(CharAt(b, k))
           ELSE IF Len(x) # Len(y) THEN Len(x) - Len(y)
           ELSE IF differ # {} THEN DigitValue(x[first]) - DigitValue(y[first])
           ELSE verrevcmp[<<From(left, Len(x) + 1), From(right, Len(y) + 1)>>]

Sign(n) == IF n > 0 THEN 1 ELSE IF n < 0 THEN -1 ELSE 0
debian_version_compare(left, right) ==
  LET l == split(left)
      r == split(right)
      upstream == verrevcmp[<<l.upstream, r.upstream>>]
  IN  IF l.epoch # r.epoch THEN Sign(l.epoch - r.epoch)
      ELSE IF upstream # 0 THEN Sign(upstream)
      ELSE Sign(verrevcmp[<<l.revision, r.revision>>])

------------------------------------------------------------------------------
(* Debian policy 5.6.12, as a reference: the weights of a part of a version, one after the *)
(* other, compared as if each went on with zeros for ever. A run of non-digits is the rank *)
(* of its characters and a 0 for its end, a run of digits its number.                      *)
Rank(c) ==
  CASE c = "~" -> -1 [] c = "A" -> 1 [] c = "a" -> 2 [] c = "b" -> 3
    [] c = "+" -> 4 [] c = "-" -> 5 [] c = "." -> 6 [] c = ":" -> 7
LeadingText(s) == SubSeq(s, 1, StopAt(s, DOMAIN Code) - 1)
(* w holds what is left of the part and the weights so far. *)
weigh[w \in Parts \X Seq(Int)] ==
  IF w[1] = <<>> THEN w[2]
  ELSE LET text == LeadingText(w[1])
           digits == LeadingDigits(From(w[1], Len(text) + 1))
       IN  weigh[<<From(w[1], Len(text) + Len(digits) + 1),
                   w[2] \o ([j \in DOMAIN text |-> Rank(text[j])] \o <<0, Number(digits)>>)>>]
Weights(part) == weigh[<<part, <<>> >>]
WeightAt(w, j) == IF j \in DOMAIN w THEN w[j] ELSE 0
Lighter(v, w) ==
  \E j \in DOMAIN v \cup DOMAIN w :
    WeightAt(v, j) < WeightAt(w, j) /\ \A i \in 1 .. j - 1 : WeightAt(v, i) = WeightAt(w, i)
Older(left, right) ==
  LET l == split(left)
      r == split(right)
      older(x, y) == Lighter(Weights(x), Weights(y))
  IN  \/ l.epoch < r.epoch
      \/ /\ l.epoch = r.epoch
         /\ \/ older(l.upstream, r.upstream)
            \/ ~older(r.upstream, l.upstream) /\ older(l.revision, r.revision)
=============================================================================
