----------------------------- MODULE MCProvision -----------------------------
(***************************************************************************)
(* Config files for TLC: two names that share a ref and differ in modes    *)
(* and nesting, an edit that takes a mode away and lowers the ceiling, one *)
(* that takes a name away, and a file that Config::validate refuses,       *)
(* because the names have different login users.                           *)
(***************************************************************************)
EXTENDS Provision

Entry(name, modes, user, nesting) ==
    [name |-> name, ref |-> "ref", modes |-> modes, user |-> user, nesting |-> nesting]

File(images, ceiling) ==
    [images |-> images, user |-> "root", memory |-> ceiling, range |-> <<1, 2>>, kento |-> NoPath]

Plain == Entry("a", <<"lxc", "vm">>, NoUser, FALSE)
Nested == Entry("b", <<"vm">>, NoUser, TRUE)

MCConfigs ==
    {File(<<Plain, Nested>>, 2),
     File(<<[Plain EXCEPT !.modes = <<"lxc">>], [Nested EXCEPT !.modes = <<"lxc">>]>>, 1),
     File(<<[Plain EXCEPT !.user = "root"]>>, 0),
     File(<<Plain, [Nested EXCEPT !.user = "admin"]>>, 2)}

MCSizes == {{}, {0}, {1}, {3}}

=============================================================================
