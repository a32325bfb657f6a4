------------------------------- MODULE MCRtIpc -------------------------------
(* Two threads of different priority, one more at the lower one, and idle. *)
EXTENDS RtIpc
CONSTANTS t1, t2, t3, idle, m1, b1, b2, v1, v2
MCPriority == [t \in Threads |-> CASE t = t1 -> 1 [] t = idle -> 3 [] OTHER -> 2]
MCWaits == 
  [q \in Kinds |-> CASE q = "mutex" -> {0, 1, 3}
                     [] q = "event" -> {0, 1}
                     [] q = "mb" -> {0, 2}
                     [] OTHER -> {0, 2, 3}]
=============================================================================
