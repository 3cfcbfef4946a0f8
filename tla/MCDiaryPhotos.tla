---------------------------- MODULE MCDiaryPhotos ----------------------------
(* Small instances of DiaryPhotos for TLC. *)
EXTENDS DiaryPhotos, TLC

CONSTANTS r1, r2, r3, d1, d2, f1, f2

Symmetry == Permutations(Requests) \cup Permutations(Diaries) \cup Permutations(Album)
=============================================================================
