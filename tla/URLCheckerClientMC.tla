------------------------- MODULE URLCheckerClientMC -------------------------
(* One code of each kind: fine, forbidden, final; a request that fails is  *)
(* worth a retry.  The lists of plugins hold plugins that choose their     *)
(* proxy in each of the ways, and a misspelled name.                       *)
EXTENDS URLCheckerClient

MCCodes == {200, 403, 410}
MCOptions ==
  { << >>, <<"[]">>, <<"urlchek">>, <<"_always_bad", "urlcheck">>,
    <<"urlcheck-noproxy", "urlcheck">>, <<"urlcheck-pac">> }
=============================================================================
