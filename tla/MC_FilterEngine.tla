--------------------------- MODULE MC_FilterEngine ---------------------------
(***************************************************************************)
(* A container tree and filters shaped like fsmon's defaults, in short     *)
(* names: /e stands for /etc, /h for /home, /l for /lib, p for passwd,     *)
(* r.c for resolv.conf, .s for .ssh, c.s for libc.so.                      *)
(***************************************************************************)
EXTENDS FilterEngine

MCTreeDirs ==
    << <<"/","e">>, <<"/","h">>, <<"/","h","/","u">>, <<"/","h","/","u","/",".","s">>,
       <<"/","l">>, <<"/","l","/","x">> >>

MCTreeFiles ==
    << <<"/","e","/","p">>, <<"/","e","/","r",".","c">>,
       <<"/","h","/","u","/",".","s","/","k">>,
       <<"/","l","/","c",".","s">>, <<"/","l","/","p">>, <<"/","l","/","x","/","c",".","s">> >>

\* /etc/resolv.conf is one of the files isRunTimeAddedFile names.
MCRunTimeFiles == { <<"/","e","/","r",".","c">> }

Flt(path, regex, rec, block, cust) ==
    [path |-> path, regex |-> regex, recursive |-> rec, block |-> block, customer |-> cust]

\* Defaults (ImportantFiles): /etc/passwd, /etc/resolv\.conf,
\* /home/.*/\.ssh with .*, /lib with libc\..* recursive.
Defaults ==
    { Flt(<<"/","e","/","p">>, <<>>, FALSE, FALSE, FALSE),
      Flt(<<"/","e","/","r","\\",".","c">>, <<>>, FALSE, FALSE, FALSE),
      Flt(<<"/","h","/",".","*","/","\\",".","s">>, <<".","*">>, FALSE, FALSE, FALSE),
      Flt(<<"/","l">>, <<"c","\\",".",".","*">>, TRUE, FALSE, FALSE) }

\* Customer filters, Monitor or Block: /etc with .* recursive, /lib with .*.
Customer ==
    { Flt(<<"/","e">>, <<".","*">>, TRUE, b, TRUE) : b \in BOOLEAN } \cup
    { Flt(<<"/","l">>, <<".","*">>, FALSE, b, TRUE) : b \in BOOLEAN }

\* Three containers share a walker of weight walkerMaxCount = 2.
MCCids == {"c1", "c2", "c3"}

\* One or two Filters and at most one CRD filter.
MCProfiles ==
    LET fs == Defaults \cup Customer
    IN  {[filters |-> s, crd |-> c] :
            s \in {<<a>> : a \in fs} \cup {<<a, b>> : a, b \in fs},
            c \in {<<>>} \cup {<<x>> : x \in Customer}}

=============================================================================
