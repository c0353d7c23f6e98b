---------------------------- MODULE MCDmxMerger ----------------------------
(* Two slots: buffers that reach both and buffers that stop short.          *)
EXTENDS DmxMerger

MCLevelBuffers == {<<1>>, <<1, 2>>, <<2, 1>>}
MCPapBuffers == {<<2>>, <<0, 1>>}
=============================================================================
