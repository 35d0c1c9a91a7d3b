--------------------------- MODULE MCDemoSources ---------------------------
EXTENDS DemoSources

(* A frame of one and one of two bytes, one cut off in its data and one in *)
(* its header, a command of the system that is as long as a frame.         *)
MCDatagrams == {<<0, 1, 7>>, <<0, 2, 8, 9>>, <<0, 2, 6>>, <<0>>, <<255, 2, 0, 2>>}
=============================================================================
