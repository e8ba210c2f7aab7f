----------------------------- MODULE MCCommands -----------------------------
(* What a server may send in commands.cfg, with int64 as -128..127, int32 as *)
(* -8..7, floats of 4 significant bits, texts of up to 4 bytes, arrays of up *)
(* to 5 elements and two levels.                                             *)
EXTENDS Commands

Word(i) == <<"word", i>>
Num(h)  == <<"num", h>>

\* Numbers at and beyond the ends of both ranges and of the exact floats, in halves:
\* 3.5, -3.5, 7, 7.5, 8, -8, -8.5, -9, 17.5, 127, 127.5, 300, -128, -128.5, -300.5;
\* 3.0, 17.0, -127.0.
Nums  == {Num(h) : h \in {7, -7, 14, 15, 16, -16, -17, -18, 35, 254, 255, 600,
                          -256, -257, -601}}
           \cup {<<"point", h>> : h \in {6, 34, -254}} \cup {<<"nan", 0>>}
Words == {Word(i) : i \in 0..4}
Sizes == [t \in Nums \cup Words |-> IF t[1] = "word" THEN t[2] ELSE 3]

SomeDigits == {1, 2, 7, 8}
DigitTexts == UNION {[1..k -> SomeDigits] : k \in 1..3}
Numbers == DigitTexts \cup {<<s>> \o t : s \in {Minus, Plus}, t \in DigitTexts}
NotNumbers == {<<>>, <<Minus>>, <<Plus>>, <<Other>>, <<1, Other>>, <<1, Minus, 2>>}

NullText  == <<"line", <<"$", <<Minus, 1>>>>>>
NullArray == <<"line", <<"*", <<Minus, 1>>>>>>
BadLines  == {<<"line", l>> : l \in {<<"">>, <<"?", <<1>>>>, <<"$", <<Minus, 2>>>>,
                <<"$", <<Other>>>>, <<"*", <<Minus, 2>>>>, <<"*", <<>>>>}}

Number(n) == <<":", <<n>>>>
Leaves == {<<"+", Word(1)>>, <<"-", Word(2)>>, <<"$", Word(0)>>, <<"$", Word(3)>>,
           Number(1), NullText}

Array(s) == <<"*", s>>
Inner == {Array(<<>>), Array(<<Number(1), <<"-", Word(2)>>>>), NullArray}

Scalars ==
    {<<k, t>> : k \in {"+", "$"}, t \in Words} \cup {<<"$", t>> : t \in Nums}
      \cup {<<":", s>> : s \in Numbers \cup NotNumbers}
      \cup Leaves \cup {NullArray} \cup BadLines

Arrays ==
    Inner \cup {Array(<<a>>) : a \in Scalars \ {<<":", s>> : s \in Numbers}}
      \cup {Array(<<<<":", s>>>>) : s \in {<<7>>, <<8>>, <<Minus, 8>>, <<1, 2, 8>>}}
      \cup {Array(<<a, b>>) : a, b \in Leaves \cup Inner \cup {<<"$", Word(4)>>}}

F(i) == <<"$", Word(i)>>
Lists ==
    {Array(<<F(1), F(2), F(3)>>), Array(<<F(1), F(2), F(1), F(3)>>),
     Array(<<F(1), NullText, F(2), F(1)>>), Array(<<F(1), F(2), F(3), F(1), F(2)>>)}

SomeReplies ==
    Scalars \cup Arrays \cup Lists
      \cup {<<":", <<s, 8>>>> : s \in {Minus}} \cup {<<":", <<7>>>>, <<":", <<8>>>>}

\* Lengths here have one digit; arrays hold arrays of scalars at most.
Written == [n \in 0..9 |-> <<n>>]
Depths ==
    [r \in SomeReplies |->
       IF r[1] # "*" THEN 0
       ELSE IF \A i \in 1..Len(r[2]) : r[2][i][1] # "*" THEN 1 ELSE 2]

\* Multiples of u have 4 significant bits from 8u to 16u; ties go to the even one.
Ulp(a) == CHOOSE u \in {1, 2, 4, 8, 16, 32, 64} : a <= 16 * u /\ (u > 1 => a > 8 * u)
Round(a) ==
    LET u == Ulp(a)
        q == a \div u
        r == a % u
    IN IF 2 * r < u \/ (2 * r = u /\ q % 2 = 0) THEN q * u ELSE (q + 1) * u
Floats == [h \in -620..620 |-> IF h < 0 THEN -Round(-h) ELSE Round(h)]

SomeTtls == {0, 1, 2, 3, 5, 6, 7, 12, 13, 122, 123, 127, -1, -6, -7, -128}
SomeKeys == {<<"k">>, <<"k", "l">>}

=============================================================================
