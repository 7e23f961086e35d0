--------------------------- MODULE URLListCheckMC ---------------------------
(* Three URLs, one of them in two spellings ("a_" stands for a padded "a"),  *)
(* and the domain of "b" blacklisted.                                      *)
EXTENDS URLListCheck

MCURLs == {"a", "a_", "b", "c"}
MCNorm == [u \in MCURLs |-> IF u = "a_" THEN "a" ELSE u]
MCBlacklisted == {"b"}
=============================================================================
