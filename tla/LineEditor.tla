----------------------------- MODULE LineEditor -----------------------------
(* What a shell's line promises: a text with a cursor, lines entered before *)
(* that can be had again, and a command that gets the words of the text.    *)
EXTENDS Naturals, Sequences, SequencesExt

CONSTANTS Typeable, Separator,     \* characters of a line; the blank among them
          Commands,                \* names of the commands
          Longest,                 \* a text that would be longer is discarded
          MostWords
VARIABLES text, cursor, past, ran
ed_vars == <<text, cursor, past, ran>>

(* The words of a text: its longest stretches without a blank.             *)
Begins(l) == {i \in DOMAIN l : l[i] # Separator /\ (i = 1 \/ l[i - 1] = Separator)}
WordAt(l, i) ==
  LET ends == {j \in i .. Len(l) : j = Len(l) \/ l[j + 1] = Separator}
  IN  SubSeq(l, i, CHOOSE j \in ends : \A k \in ends : j <= k)
Words(l) ==
  LET starts == SetToSortSeq(Begins(l), <)
      most == IF Len(starts) < MostWords THEN Len(starts) ELSE MostWords
  IN  [w \in 1 .. most |-> WordAt(l, starts[w])]

(* What all the commands that begin with a text have in common.            *)
Completions(l) == {c \in Commands : IsPrefix(l, c)}
Common(l) ==
  LET shared == {n \in Len(l) .. Longest : \A c, d \in Completions(l) :
                   n <= Len(c) /\ SubSeq(c, 1, n) = SubSeq(d, 1, Len(SubSeq(c, 1, n)))}
  IN  IF l = <<>> \/ Completions(l) = {} THEN l
      ELSE SubSeq(CHOOSE c \in Completions(l) : TRUE, 1,
                  CHOOSE n \in shared : \A m \in shared : m <= n)

EdInit == text = <<>> /\ cursor = 0 /\ past = {} /\ ran = <<>>

Quietly == past' = past /\ ran' = <<>>
Types(c) == /\ Quietly
            /\ IF Len(text) = Longest THEN text' = <<>> /\ cursor' = 0
               ELSE text' = InsertAt(text, cursor + 1, c) /\ cursor' = cursor + 1
Rubs     == Quietly /\ cursor > 0 /\ text' = RemoveAt(text, cursor) /\ cursor' = cursor - 1
Moves    == Quietly /\ text' = text /\ cursor' \in 0 .. Len(text)
Recalls  == Quietly /\ text' \in past /\ cursor' = Len(text')
Expands  == Quietly /\ text' = Common(text) /\ cursor' = Len(text')
Enters   == /\ text' = <<>> /\ cursor' = 0
            /\ past' \subseteq past \cup {text} /\ (text # <<>> => text \in past')
            /\ ran' = IF Words(text) # <<>> /\ Words(text)[1] \in Commands
                      THEN Words(text) ELSE <<>>

EdNext == (\E c \in Typeable : Types(c)) \/ Rubs \/ Moves \/ Recalls \/ Expands \/ Enters
EdSpec == EdInit /\ [][EdNext]_ed_vars
=============================================================================
