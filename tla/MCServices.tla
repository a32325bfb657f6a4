----------------------------- MODULE MCServices -----------------------------
(* Parts of sk_os and its kernel, one in each behaviour: no two touch the   *)
(* same state. The kernel's lists of objects, its timers, the shell's line  *)
(* (and the splitting of one), the way of the buttons to the UI thread, and *)
(* the UI thread, to which any event may come at any time.                  *)
EXTENDS RtObject, RtTimer, RtFinsh, SkInput, SkUi

CONSTANTS h1, h2, s1, s2

VARIABLES service, asked     \* asked: words to put in a line and to split again
services_vars == <<service, asked, object_vars, timer_vars, finsh_vars, input_vars, ui_state>>
Sk == <<input_vars, ui_state>>
Kernel == <<object_vars, timer_vars, finsh_vars>>

(* A program makes objects of one class; one has an object that is a        *)
(* variable of it.                                                          *)
MCInUse == {[classes |-> {c}, statics |-> {}] : c \in ObjectClasses}
           \cup {[classes |-> {"Semaphore"}, statics |-> Statics]}

(* Functions that stop or start their own timer or another one.             *)
Nothing == [t \in Timers |-> [op |-> "none", on |-> t]]
MCPrograms ==
  { [func |-> [Nothing EXCEPT ![h1] = [op |-> "stop", on |-> h2], ![h2] = [op |-> "start", on |-> h2]],
     periodic |-> {h2}, owned |-> {h1, h2}, set |-> {h1}],
    [func |-> [Nothing EXCEPT ![s1] = [op |-> "stop", on |-> s1]],
     periodic |-> {s1}, owned |-> {s1, s2}, set |-> {}],
    [func |-> [Nothing EXCEPT ![s1] = [op |-> "start", on |-> s2]],
     periodic |-> {s1}, owned |-> {s1}, set |-> {s1}] }

MCTable == << <<"a", "a", "a">>, <<"a", "a">> >>

ServicesInit ==
  /\ service \in {"objects", "timers", "shell", "split", "input", "ui"}
  /\ asked = <<>> /\ ObjectInit /\ TimerInit /\ FinshInit /\ InputInit /\ UiInit
  /\ service # "input" => switch = 0
  /\ service # "objects" => active.classes = {"Mutex"}
  /\ service # "timers" => program.set = {h1}
ObjectStep == service = "objects" /\ ObjectNext /\ UNCHANGED <<service, asked, timer_vars, finsh_vars, Sk>>
TimerStep  == service = "timers" /\ TimerNext /\ UNCHANGED <<service, asked, object_vars, finsh_vars, Sk>>
FinshStep  == /\ service = "shell" /\ finsh_thread_entry
              /\ UNCHANGED <<service, asked, object_vars, timer_vars, Sk>>
Letters == Chars \ {Quote, Escape}
AskedWords == {<<>>} \cup {<<c>> : c \in Letters} \cup {<<c, d>> : c, d \in Letters}
SplitStep  == /\ service = "split" /\ Len(asked) < FINSH_ARG_MAX
              /\ \E w \in AskedWords : asked' = Append(asked, w)
              /\ UNCHANGED <<service, Kernel, Sk>>
InputStep  == service = "input" /\ InputNext /\ UNCHANGED <<service, asked, Kernel, ui_state>>
UiStep     == service = "ui" /\ ui_thread_entry /\ UNCHANGED <<service, asked, Kernel, input_vars>>
ServicesNext == ObjectStep \/ TimerStep \/ FinshStep \/ SplitStep \/ InputStep \/ UiStep
ServicesSpec == ServicesInit /\ [][ServicesNext]_services_vars

(* What the shell does with a line: it edits it as an editor would, the     *)
(* first Up gives the last command again, and words written one behind the  *)
(* other, in quotes when there is a blank in them or they are empty, are    *)
(* what the command gets (msh_split, msh.c:123).                            *)
ShellSound == [](FinshTypeOK /\ SplitAgain(asked)) /\ UpGivesLast /\ ShellIsEditor
=============================================================================
