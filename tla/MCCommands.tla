----------------------------- MODULE MCCommands -----------------------------
(* Two commands.  The shop lies below the base URL and the sale below the    *)
(* shop; the page of the base URL loads the shop.            *)
EXTENDS Commands, TLC

Urls == {"/", "/shop", "/shop/sale", "/login"}
MCStartsWith ==
    {<<u, u>> : u \in Urls} \cup {<<u, "/">> : u \in Urls} \cup {<<"/shop/sale", "/shop">>}
MCResources ==
    ("/" :> {<<"/shop">>}) @@ ("/shop" :> {<<>>}) @@ ("/shop/sale" :> {<<>>})
    @@ ("/login" :> {<<>>})

Request(caller, command, valid, login, to) ==
    [caller |-> caller, command |-> command, valid |-> valid, login |-> login, routes |-> to]
MCRequests ==
    {Request("api", "onboard", TRUE, "none", <<"/shop/sale">>),
     Request("api", "onboard", TRUE, "form", <<>>),
     Request("cli", "onboard", TRUE, "none", <<>>),
     Request("cli", "onboard", FALSE, "none", <<>>),
     Request("api", "capture-auth", TRUE, "sso", <<>>),
     Request("cli", "capture-auth", TRUE, "form", <<>>),
     Request("cli", "run", TRUE, "none", <<>>), Request("cli", "pipeline", TRUE, "none", <<>>),
     Request("api", "read", TRUE, "none", <<>>), Request("api", "unknown", TRUE, "none", <<>>)}
=============================================================================
