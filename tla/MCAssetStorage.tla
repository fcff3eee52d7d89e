--------------------------- MODULE MCAssetStorage ---------------------------
(* Small instances of AssetStorage: two assets, two callers, and memory for    *)
(* two requests, so that one is soon in the place of another.                  *)
EXTENDS AssetStorage
CONSTANTS landmark, notecard, gesture, panel, r1, r2
=============================================================================
