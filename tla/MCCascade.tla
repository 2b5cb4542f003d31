----------------------------- MODULE MCCascade ------------------------------
(* The permutation gives new rows for every state, as an ideal one does. A *)
(* state is named by the permutation before, and what was added since.     *)
EXTENDS Cascade, TLC

Name(s) ==
  LET former == {a \in s[4] : a[1] = "row"}
      base == IF former = {} THEN <<>> ELSE (CHOOSE a \in former : TRUE)[2]
      Row(i) == {<<"row", base, i>>}
  IN IF former # {} /\ \A i \in Rows : Row(i) \subseteq s[i]
       THEN <<base, [i \in Rows |-> s[i] \ Row(i)]>>
       ELSE << <<>>, s>>

MCPermute(s) == [i \in Rows |-> {<<"row", Name(s), i>>}]

x == {<<"data", <<"x">>, 0>>}
zero == {}

MCSymmetry == Permutations(Masters)

MCPieces == {x, zero, Padding}

MCAds == {<<>>, << <<x, zero>>, <<>> >>}

\* Nothing; a block; a block and a rest that is zero; a block and one that
\* looks like the padding of the first.
MCMsgs ==
  {<< <<>> >>, << <<x, zero>>, <<>> >>, << <<x, zero>>, <<zero>> >>,
   << <<x, zero>>, <<Padding, zero>>, <<>> >>}

\* A row changes; a row of the rest goes or comes; only the rest is left.
MCAlterations(ct) ==
  LET n == Len(ct)
      rest == ct[n]
  IN {ct, <<rest>>}
     \union {[ct EXCEPT ![k] = [@ EXCEPT ![i] = Xor(@, x)]] :
               <<k, i>> \in {ki \in (1 .. n) \X (1 .. Rate) :
                               ki[2] <= Len(ct[ki[1]])}}
     \union {[ct EXCEPT ![n] = r] : r \in {<<>>, <<zero>>, <<Padding>>}}

=============================================================================
