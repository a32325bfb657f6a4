------------------------------ MODULE MCBlocks ------------------------------
(* The hardware blocks, one in each behaviour and alone: the SketchBook    *)
(* core under any register accesses, its AXI wrapper under any master, the *)
(* Scene controller under any register writes, and the Scene controller    *)
(* again, with the fairness of a clock and of a port that answers, under   *)
(* the writes that make frames.                                            *)
EXTENDS SketchBook, SketchAxi, ScenePipeline

(* The registers written where frames must retire.                         *)
FrameWrites == CpuWrites \ {"RENDER", "SOFT_RESET", "RENDER_CFG"}

VARIABLE block
blocks_vars == <<block, vars, axi_vars, scene_vars>>

BlocksInit ==
  /\ block \in {"sketch_book_top", "sketch_book_axi", "scene_ctrl", "retiring"}
  /\ Init /\ AxiInit /\ SceneInit

CoreStep  == block = "sketch_book_top" /\ Next /\ UNCHANGED <<block, axi_vars, scene_vars>>
AxiStep   == block = "sketch_book_axi" /\ AxiNext /\ UNCHANGED <<block, vars, scene_vars>>
SceneStep == block = "scene_ctrl" /\ SceneNext /\ UNCHANGED <<block, vars, axi_vars>>
RetiringStep ==
  /\ block = "retiring" /\ UNCHANGED <<block, vars, axi_vars>>
  /\ \E req \in {r \in Writes : r.reg \in FrameWrites \cup {"NONE"}}, ready, done \in BOOLEAN :
       SceneClock(req, ready, done)
BlocksNext == CoreStep \/ AxiStep \/ SceneStep \/ RetiringStep

(* SceneFairness, where frames must retire.                                *)
Retiring(A) == block = "retiring" /\ A
BlocksFairness ==
  /\ WF_scene_vars(Retiring(\E ready, done \in BOOLEAN : SceneClock(NoWrite, ready, done)))
  /\ WF_scene_vars(Retiring(/\ front_mmio_valid \/ engine_mmio_valid
                            /\ \E req \in Writes : SceneClock(req, TRUE, TRUE)))
  /\ WF_scene_vars(Retiring(SceneNext /\ WorkEnds))
BlocksSpec == BlocksInit /\ [][BlocksNext]_blocks_vars /\ BlocksFairness

(* FrameRetires, there.                                                    *)
FramesRetire == block = "retiring" => FrameRetires
=============================================================================
