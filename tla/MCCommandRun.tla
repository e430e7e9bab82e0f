---------------------------- MODULE MCCommandRun ----------------------------
EXTENDS CommandRun

\* Lines of one character and of two units, a half of a character, a Ctrl-Z
\* that begins a line and one that does not.
TypedValue ==
  {<<>>, <<"a">>, <<"a", "a">>, <<"high", "low">>, <<"a", "high", "low">>, <<"high", "a">>,
   <<"Z">>, <<"a", "Z">>}
PasswordValue == <<"a">>

\* A store of no account, of one and of two, a spend reserved in neither, one
\* or both; in either format, with a master or of imported accounts.
Fresh    == [index |-> 0, pending |-> FALSE]
Spent    == [index |-> 1, pending |-> FALSE]
Reserved == [index |-> 1, pending |-> TRUE]
HeldValue == {<<None, None>>, <<Spent, None>>, <<Spent, Reserved>>, <<Reserved, Fresh>>,
              <<Reserved, Reserved>>}
DisksValue ==
  {[version |-> version, master |-> master, held |-> [a \in Accounts |-> held[a + 1]]] :
     version \in {3, 4}, master \in BOOLEAN, held \in HeldValue}
FlagsValue == {"help", "unknown", "--dir", "--node", "--allow-plaintext-node"}
AccountsValue == {0, 1}

\* Two blocks of one index differ, and in nothing else that anything reads.
ForkSymmetry == Permutations(Forks)
=============================================================================
