------------------------------ MODULE MCLayers ------------------------------
(* Two extensions that contribute to the hierarchy and one that does not.    *)
EXTENDS Layers

MCImages == {<<"a", "b">>, <<"c">>}
MCProvides == {"a", "b"}
MCModes == {"0755", "0700"}
=============================================================================
