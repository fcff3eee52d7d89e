------------------------------- MODULE MCVFS -------------------------------
(* Three files in a small data file, two of them textures. *)
EXTENDS VFS, TLC

CONSTANTS texture, terrain, sound

ThreeFiles == {texture, terrain, sound}
TwoTextures == {texture, terrain}

\* Files of one kind are alike.
Alike == Permutations(TwoTextures)
=============================================================================
