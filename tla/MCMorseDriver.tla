---------------------------- MODULE MCMorseDriver ----------------------------
\* The first text: each letter alone; words, blanks and other characters in
\* every position; texts without a letter, between letters and at the edge of
\* the memory.  The second meets what the first left in the kfifo.
EXTENDS MorseDriver

MCTexts ==
    <<{<<l>> : l \in Letters}
        \cup {<<>>, <<0>>, <<-1>>, <<5, 0, 20>>, <<0, -1, 9, -1, 0, -1, 5, 0>>, <<14, 5>>, <<5, -1, 5>>},
      {<<0, -1>>, <<5, 0, 20>>, <<14, 5>>}>>
MCAround == {[before |-> <<>>, after |-> <<>>], [before |-> <<>>, after |-> <<0, 5>>],
             [before |-> <<20, -1>>, after |-> <<5>>]}
============================================================================
