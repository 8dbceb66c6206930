----------------------------- MODULE MCElements -----------------------------
(* A small shop.  On its home page the account menu is closed, "save" is both *)
(* a link and a button, and the search field is a field with a label; in the  *)
(* open menu are the items that log out and change the theme.  The editor has *)
(* a large text area without a label, a button whose name is a part of        *)
(* another's, one that is hidden, and one that is outside the window.         *)
EXTENDS Elements, TLC

Node(uid, role, name) ==
    [uid |-> uid, role |-> role, domRole |-> role, name |-> name, text |-> name, testid |-> {},
     label |-> {}, placeholder |-> {}, tag |-> role, area |-> 2, near |-> 2, shown |-> TRUE,
     inView |-> TRUE, editable |-> FALSE]

AccountButton == Node("account", "button", {"account"})
SaveLink == [Node("saveLink", "link", {"save"}) EXCEPT !.tag = "a"]
SaveButton == [Node("saveButton", "button", {"save"}) EXCEPT !.testid = {"save-id"}, !.near = 3]
DraftButton == Node("draft", "button", {"save", "draft"})
HiddenButton == [Node("hidden", "button", {"theme"}) EXCEPT !.shown = FALSE]
OutsideButton == [Node("outside", "button", {"help"}) EXCEPT !.inView = FALSE]
Email == [Node("email", "textbox", {"email"}) EXCEPT !.text = {}, !.label = {"email"},
          !.tag = "input", !.editable = TRUE]
Editor == [Node("editor", "textbox", {"notes"}) EXCEPT !.text = {}, !.tag = "textarea",
           !.area = 5, !.editable = TRUE]
LogoutItem == [Node("logout", "menuitem", {"logout"}) EXCEPT !.domRole = "none"]
ThemeItem == Node("theme", "menuitem", {"change", "theme"})
SearchBox == [Node("search", "searchbox", {"find"}) EXCEPT !.domRole = "none", !.editable = TRUE]

MCPages ==
    ("home" :> <<AccountButton, Email, SaveLink, SaveButton>>)
    @@ ("menu" :> <<LogoutItem, AccountButton, ThemeItem, SearchBox>>)
    @@ ("editor" :> <<HiddenButton, OutsideButton, DraftButton, SaveButton, Editor>>)

MCLeads ==
    (<<"home", "account">> :> "menu") @@ (<<"menu", "account">> :> "home")
    @@ (<<"home", "saveLink">> :> "editor") @@ (<<"menu", "logout">> :> "home")

TextAny(texts) == Locator("text_any", "none", texts)
Step(type, target) == [type |-> type, target |-> target]
MCSteps ==
    {Step("click", TextAny({{"logout"}})),
     Step("click", Semantic(<<Locator("testid", "none", {{"theme-id"}}), ByRole("menuitem", {"theme"})>>)),
     Step("click", ByRole("button", {"save"})),
     Step("click", TextAny({{"save"}})),
     Step("click", TextAny({{"button", "missing"}})),
     Step("click", TextAny({{"change", "theme", "colour", "now"}})),
     Step("click", Index(TextAny({{"save"}}), 1)),
     Step("fill", Locator("label", "none", {{"email"}})),
     Step("fill", ByRole("textbox", {"find"})),
     Step("fill", TextAny({{"type", "here"}}))}

MCContainers ==
    <<[key |-> "main_menu", trigger |-> ByRole("button", {"menu"})],
      [key |-> "account_menu", trigger |-> ByRole("button", {"account"})]>>
MCKeywordMappings ==
    <<[words |-> {"logout"}, keys |-> {"account_menu", "user_menu"}],
      [words |-> {"theme"}, keys |-> {"account_menu", "theme_menu"}],
      [words |-> {"menu", "options"}, keys |-> {"main_menu"}]>>
=============================================================================
