------------------------------- MODULE RtFinsh -------------------------------
(***************************************************************************)
(* The shell's thread (finsh/shell.c, msh.c): a line buffer edited key by  *)
(* key, the history of lines, completion, and the words of a command.      *)
(* Echoing and prompts are left out.                                       *)
(***************************************************************************)
EXTENDS RtDef, Naturals, Sequences, SequencesExt, Functions

CONSTANTS Chars,              \* printable characters that are typed
          Blank, Quote, Escape,
          Table,              \* names of the commands, in the order of FSymTab
          FINSH_CMD_SIZE, FINSH_HISTORY_LINES, FINSH_ARG_MAX,
          CleanTab            \* nobody uses the rest of a discarded line

NUL == "NUL"
Places == 0 .. FINSH_CMD_SIZE - 1
Cleared == [i \in Places |-> NUL]
ASSUME FinshAssumption ==
  /\ FINSH_HISTORY_LINES \in Nat \ {0} /\ FINSH_ARG_MAX \in Nat \ {0}
  /\ \A c \in ToSet(Table) : c \in Seq(Chars) /\ Len(c) \in 1 .. FINSH_CMD_SIZE - 1

VARIABLES shell, ran           \* ran: argv of the command the last key has run
finsh_vars == <<shell, ran>>
FinshInit ==
  /\ shell = [stat |-> "NORMAL", line |-> Cleared, line_position |-> 0, line_curpos |-> 0,
              cmd_history |-> [h \in 0 .. FINSH_HISTORY_LINES - 1 |-> Cleared],
              current_history |-> 0, history_count |-> 0]
  /\ ran = <<>>

strlen(l) == IF \E i \in Places : l[i] = NUL
             THEN CHOOSE i \in Places : l[i] = NUL /\ \A j \in 0 .. i - 1 : l[j] # NUL
             ELSE FINSH_CMD_SIZE
chars(l, n) == [i \in 1 .. n |-> l[i - 1]]          \* the first n as a sequence
str(l) == chars(l, strlen(l))

-----------------------------------------------------------------------------
(* msh_split: words end at a blank, or at the quote that ends a quoted     *)
(* one; a backslash before a quote keeps it from ending the word.          *)
first(l, p, P(_)) ==
  LET found == {i \in p .. Len(l) : P(i)}
  IN  IF found = {} THEN Len(l) + 1 ELSE CHOOSE i \in found : \A j \in found : i <= j
escaped(l, i) == i > 1 /\ l[i - 1] = Escape
after_quote(l, e) == e + 1
msh_split(l) ==
  LET quoted(p) == l[p] = Quote
      end(p) == IF quoted(p) THEN first(l, p + 1, LAMBDA i : l[i] = Quote /\ ~escaped(l, i))
                ELSE first(l, p, LAMBDA i : l[i] = Blank)
      argv[p \in 1 .. Len(l) + 3] ==
        LET q == first(l, p, LAMBDA i : l[i] # Blank)
        IN  IF q > Len(l) THEN <<>>
            ELSE << SubSeq(l, IF quoted(q) THEN q + 1 ELSE q, end(q) - 1) >>
                 \o argv[IF quoted(q) THEN after_quote(l, end(q)) ELSE end(q)]
  IN  SubSeq(argv[1], 1, IF Len(argv[1]) < FINSH_ARG_MAX THEN Len(argv[1]) ELSE FINSH_ARG_MAX)

(* msh_exec: leading blanks are skipped in the buffer, whatever its length *)
(* is said to be; a length of less than none is a very large one.          *)
until_nul(w) == SubSeq(w, 1, first(w, 1, LAMBDA i : w[i] = NUL) - 1)
known(name) == name \in ToSet(Table)
_msh_exec_cmd(cmd) ==
  LET cmd0 == SubSeq(cmd, 1, first(cmd, 1, LAMBDA i : cmd[i] = Blank) - 1)
      argv == msh_split(cmd)
  IN  IF known(until_nul(cmd0)) THEN [w \in DOMAIN argv |-> until_nul(argv[w])] ELSE <<>>
msh_exec(line, length) ==
  LET all == chars(line, FINSH_CMD_SIZE)
      lead == first(all, 1, LAMBDA i : all[i] # Blank) - 1
      cmd == SubSeq(all, lead + 1, IF length < lead THEN FINSH_CMD_SIZE ELSE length)
  IN  IF length = lead THEN <<>> ELSE _msh_exec_cmd(cmd)

(* msh_auto_complete: the first name that begins with the text, as far as  *)
(* all of those that do agree with it.                                     *)
str_common(a, b) ==
  first(a, 1, LAMBDA i : i > Len(b) \/ a[i] # b[i]) - 1
completed(prefix) ==
  LET names == SelectSeq(Table, LAMBDA c : IsPrefix(prefix, c))
      lengths == {str_common(names[1], names[i]) : i \in DOMAIN names}
  IN  IF prefix = <<>> \/ names = <<>> THEN prefix
      ELSE SubSeq(names[1], 1, CHOOSE n \in lengths : \A m \in lengths : n <= m)

-----------------------------------------------------------------------------
(* shell_push_history.  The whole buffer is compared, the text is copied.  *)
Copied == [i \in Places |-> IF i < shell.line_position THEN shell.line[i] ELSE NUL]
pushed_full == [h \in 0 .. FINSH_HISTORY_LINES - 1 |->
                  IF h = FINSH_HISTORY_LINES - 1 THEN Copied ELSE shell.cmd_history[h + 1]]
shell_push_history ==
  LET n == shell.history_count
      repeated == n > 0 /\ shell.cmd_history[n - 1] = shell.line
  IN  CASE shell.line_position = 0 \/ repeated ->
             [shell EXCEPT !.current_history = n]
        [] shell.line_position # 0 /\ ~repeated /\ n = FINSH_HISTORY_LINES ->
             [shell EXCEPT !.cmd_history = pushed_full, !.current_history = n]
        [] OTHER ->
             [shell EXCEPT !.cmd_history[n] = Copied, !.history_count = n + 1,
                           !.current_history = n + 1]

(* A key that has no meaning in an escape sequence ends it and is taken as *)
(* it is.                                                                  *)
Normal(z) == [z EXCEPT !.stat = "NORMAL"]
Quiet == ran' = <<>>
Esc == shell' = [shell EXCEPT !.stat = "SPEC_KEY"] /\ Quiet
Bracket == /\ shell.stat = "SPEC_KEY" /\ Quiet
           /\ shell' = [shell EXCEPT !.stat = "FUNC_KEY"]
recalled(z) ==
  LET l == z.cmd_history[z.current_history]
  IN  [z EXCEPT !.line = l, !.line_curpos = strlen(l), !.line_position = strlen(l)]
Func == shell.stat = "FUNC_KEY" /\ Quiet
Up ==
  /\ Func
  /\ shell' = IF shell.current_history > 0
              THEN recalled([Normal(shell) EXCEPT !.current_history = @ - 1])
              ELSE Normal(shell)
newest == IF shell.current_history + 1 < shell.history_count
          THEN shell.current_history + 1 ELSE shell.history_count - 1
Down ==
  /\ Func
  /\ shell' = IF shell.history_count = 0 THEN Normal(shell)
              ELSE recalled([Normal(shell) EXCEPT !.current_history = newest])
LeftKey ==
  /\ Func
  /\ shell' = [Normal(shell) EXCEPT !.line_curpos = IF @ > 0 THEN @ - 1 ELSE 0]
RightKey ==
  /\ Func
  /\ shell' = [Normal(shell) EXCEPT
                 !.line_curpos = IF @ < shell.line_position THEN @ + 1 ELSE @]

-----------------------------------------------------------------------------
RestClear == \A i \in Places : i >= shell.line_position => shell.line[i] = NUL
Tab ==
  /\ CleanTab => RestClear
  /\ LET text == completed(str(shell.line))
         line == [i \in Places |-> IF i < Len(text) THEN text[i + 1] ELSE shell.line[i]]
     IN  shell' = [Normal(shell) EXCEPT !.line = line, !.line_position = strlen(line),
                                        !.line_curpos = strlen(line)]
  /\ Quiet

rubbed_short(line, cur, pos) ==                                      \* faulty
  [i \in Places |-> IF i = pos THEN NUL ELSE IF cur <= i /\ i + 1 < pos THEN line[i + 1] ELSE line[i]]
rubbed(line, cur, pos) ==             \* memmove of the rest, and a NUL
  [i \in Places |-> IF i = pos THEN NUL ELSE IF cur <= i /\ i < pos THEN line[i + 1] ELSE line[i]]
Rubout ==
  /\ shell' = IF shell.line_curpos = 0 THEN Normal(shell)
              ELSE LET cur == shell.line_curpos - 1
                       pos == shell.line_position - 1
                   IN  [Normal(shell) EXCEPT !.line = rubbed(@, cur, pos),
                                             !.line_position = pos, !.line_curpos = cur]
  /\ Quiet

CrLf ==
  /\ CleanTab => \/ RestClear
                 \/ \E i \in 0 .. shell.line_position - 1 : shell.line[i] # Blank
  /\ ran' = msh_exec(shell.line, shell.line_position)
  /\ shell' = [Normal(shell_push_history) EXCEPT !.line = Cleared, !.line_position = 0,
                                                 !.line_curpos = 0]

typed(line, cur, pos, ch) ==          \* memmove of the rest, and the key
  [i \in Places |-> IF i = cur THEN ch
                    ELSE IF cur < i /\ i <= pos THEN line[i - 1] ELSE line[i]]
full(pos) == pos >= FINSH_CMD_SIZE
Printable(ch) ==
  LET pos == IF full(shell.line_position) THEN 0 ELSE shell.line_position
      cur == IF shell.line_curpos < pos THEN shell.line_curpos ELSE pos
  IN  /\ shell' = [Normal(shell) EXCEPT
                     !.line = typed(@, cur, pos, ch),
                     !.line_position = IF full(pos + 1) THEN 0 ELSE pos + 1,
                     !.line_curpos = IF full(pos + 1) THEN 0 ELSE @ + 1]
      /\ Quiet

finsh_thread_entry ==
  \/ Esc \/ Bracket \/ Up \/ Down \/ LeftKey \/ RightKey \/ Tab \/ Rubout \/ CrLf
  \/ \E ch \in Chars : Printable(ch)
FinshSpec == FinshInit /\ [][finsh_thread_entry]_finsh_vars

-----------------------------------------------------------------------------
(* The cursor is in the text, the text in the buffer.                      *)
FinshTypeOK ==
  /\ shell.line_curpos \in 0 .. shell.line_position
  /\ shell.line_position \in 0 .. FINSH_CMD_SIZE - 1
  /\ shell.history_count \in 0 .. FINSH_HISTORY_LINES
  /\ shell.current_history \in 0 .. shell.history_count

(* A line made of words, those that need it in quotes, is split into them. *)
InLine(w) == IF w = <<>> \/ Blank \in ToSet(w) THEN <<Quote>> \o w \o <<Quote>> ELSE w
SplitAgain(words) ==
  msh_split(FlattenSeq([i \in DOMAIN words |-> InLine(words[i]) \o <<Blank>>])) = words

(* Between commands the line in front of the history's end is its last:    *)
(* the first Up after a command gives that command again.                  *)
UpGivesLast ==
  [][CrLf /\ shell.line_position > 0 =>
       /\ shell'.current_history = shell'.history_count
       /\ str(shell'.cmd_history[shell'.history_count - 1])
            = chars(shell.line, shell.line_position)]_finsh_vars

(* The shell is an editor of one line ("it's a large line, discard it",    *)
(* shell.c:724; "clear command line", shell.c:756).                        *)
Editor == INSTANCE LineEditor WITH
            Typeable <- Chars, Separator <- Blank, Commands <- ToSet(Table),
            Longest <- FINSH_CMD_SIZE - 1, MostWords <- FINSH_ARG_MAX,
            text <- chars(shell.line, shell.line_position), cursor <- shell.line_curpos,
            past <- {str(shell.cmd_history[h]) : h \in 0 .. shell.history_count - 1},
            ran <- ran
ShellIsEditor == Editor!EdSpec
=============================================================================
