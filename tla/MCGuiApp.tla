-------------------------------- MODULE MCGuiApp --------------------------------
(* GuiApp for TLC; bounds are those of the cfg. *)
EXTENDS GuiApp
=============================================================================
