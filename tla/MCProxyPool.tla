---------------------------- MODULE MCProxyPool ----------------------------
(* Instances of ProxyPool for TLC.                                         *)
EXTENDS ProxyPool

CONSTANTS h1, h2, backup

\* One proxy on two lists under two schemes, a SOCKS proxy, and a scheme
\* that is not supported.
TwoLists == [s \in {"scraped", "raw"} |->
               IF s = "scraped" THEN {<<"https", h1>>, <<"ftp", h2>>}
                                ELSE {<<"http", h1>>, <<"socks5", h2>>}]
=============================================================================
