-------------------------- MODULE MCMetaApiLifecycle --------------------------
(***************************************************************************)
(* Small instances of MetaApiLifecycle for TLC.                            *)
(***************************************************************************)
EXTENDS MetaApiLifecycle, TLC

CONSTANTS c1, c2, c3, t1, t2, noId

ThreeIds == {c1, c2, c3}
TwoIds == {c1, c2}
OneId == {c1}
OneTeardown == {t1}
TwoTeardowns == {t1, t2}

Interchangeable == Permutations(ThreeIds) \cup Permutations(TwoTeardowns)
InterchangeableIds == Permutations(TwoIds)

=============================================================================
