-------------------------- MODULE MCMetadataStore --------------------------
\* MetadataStore for TLC: one name in two spellings.
EXTENDS MetadataStore, TLC
CONSTANTS upper, lower

TwoSpellings == {upper, lower}
ToLower == upper :> lower @@ lower :> lower
=============================================================================
