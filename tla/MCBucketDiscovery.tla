------------------------- MODULE MCBucketDiscovery -------------------------
(***************************************************************************)
(* TLC instances of BucketDiscovery.  Years last two ticks.                *)
(***************************************************************************)
EXTENDS BucketDiscovery

MCYearOf(t) == (t - 1) \div 2
MCYearStart(y) == 2 * y + 1

\* A year that is past the depth limit, in part in one millisecond, and the
\* next year with a page that is never served: halving, giving up, recovery,
\* parking and sweeping all happen.
MixedProduct == 1 .. 4
MixedCreatedAt == <<1, 1, 2, 3>>
MixedKnown == {2}
LastPageBroken == {4}

\* Two years, three products; the second page of the first year is never served.
SmallProduct == 1 .. 3
SmallCreatedAt == <<1, 2, 3>>
SmallKnown == {}
SecondPageBroken == {2}
=============================================================================
