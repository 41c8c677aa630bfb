-------------------------------- MODULE MCVfs --------------------------------
(* Paths and kinds of mounts for model checking Vfs.                        *)
EXTENDS Vfs

MCPaths == {<<>>, <<"a">>, <<"b">>, <<"a", "b">>, <<"a", "a", "..">>}

MCMountKinds == {<<FALSE, "shared">>, <<TRUE, "slave">>, <<TRUE, "unbindable">>}
=============================================================================
