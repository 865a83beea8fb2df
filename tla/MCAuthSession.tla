--------------------------- MODULE MCAuthSession ---------------------------
(***************************************************************************)
(* Three calls in two processes; two superadmins with a session each and a *)
(* user with two.                                                          *)
(***************************************************************************)
EXTENDS AuthSession, TLC

MCCalls == {"1", "2", "3"}
MCProcessOf == ("1" :> "p") @@ ("2" :> "p") @@ ("3" :> "q")

MCFirst == {[id |-> "a", user |-> "ann", current |-> TRUE, at |-> 0],
            [id |-> "b", user |-> "bob", current |-> TRUE, at |-> 1],
            [id |-> "u1", user |-> "user", current |-> FALSE, at |-> 2],
            [id |-> "u2", user |-> "user", current |-> TRUE, at |-> 3]}

Enter(right)  == [op |-> "login", user |-> "user", right |-> right]
Join(u)       == [op |-> "register", user |-> u]
Rotate(id)    == [op |-> "refresh", with |-> id]
Leave(id)     == [op |-> "logout", with |-> id]
Patch(u, with, on, patch) ==
    [op |-> "patchUser", user |-> u, with |-> with, on |-> on, patch |-> patch]
Suspend(u, with, on) == Patch(u, with, on, [status |-> "suspended"])
Promote(u, with, on) == Patch(u, with, on, [role |-> "superadmin"])
Demote(u, with, on)  == Patch(u, with, on, [role |-> "other"])
Activity(with) == [op |-> "switchActivity", user |-> "user", with |-> with]
Edit          == [op |-> "updateProfile", user |-> "user", with |-> "u2"]
Quit(u, with) == [op |-> "deleteProfile", user |-> u, with |-> with]
Forget        == [op |-> "forgotPassword", user |-> "user"]
Reset(right)  == [op |-> "resetPassword", user |-> "user", right |-> right]
Change(right) == [op |-> "updatePassword", user |-> "user", with |-> "u2", right |-> right]
Drop(id)      == [op |-> "deleteSession", user |-> "user", with |-> "u2", on |-> id]
DropAll       == [op |-> "deleteOtherSessions", user |-> "user", with |-> "u2"]

Ask(a, b, c) == ("1" :> a) @@ ("2" :> b) @@ ("3" :> c)
MCRequests ==
    {Ask(Rotate("u1"), Rotate("u1"), Rotate("u1")),
     Ask(Enter(TRUE), Leave("u2"), Edit),
     Ask(DropAll, Change(FALSE), Rotate("u1")),
     Ask(Forget, Reset(TRUE), Enter(FALSE)),
     Ask(Forget, Reset(FALSE), Drop("u1")),
     Ask(Change(TRUE), Rotate("u1"), Edit),
     Ask(Suspend("ann", "a", "bob"), Demote("bob", "b", "ann"), Quit("bob", "b")),
     Ask(Patch("ann", "a", "bob", [status |-> "pending"]), Quit("ann", "a"), Join("user")),
     Ask(Quit("user", "u2"), Join("user"), Activity("u2")),
     Ask(Activity("u2"), Suspend("ann", "a", "user"), Edit),
     Ask(Activity("u2"), Promote("ann", "a", "user"), Quit("ann", "a")),
     Ask(Activity("u1"), Activity("u2"), Quit("user", "u2")),
     Ask(Activity("u2"), Change(TRUE), Edit)}
=============================================================================
