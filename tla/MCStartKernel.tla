--------------------------- MODULE MCStartKernel ---------------------------
(* Command lines for TLC: what the README shows, errors, repeated options,   *)
(* values of several words, and values in which "tmux" occurs.               *)
EXTENDS StartKernel

Opt(o, text) == Arg(o, <<Plain(text)>>)
Kernel == Opt("KERNEL", "k1")
Term(t) == Opt("TERMINAL", t)
Words(o) == Arg(o, <<Plain("a"), Plain("b")>>)
TwoWords == Words("CMDLINE")

MCTexts == STRING
MCTmuxTexts == {"tmux", "tmux-k", "tmux.cpio"}
MCDirectories == {<<Plain("k1")>>, <<Plain("my"), Plain("k")>>, <<Plain("android")>>, <<Plain("tmux-k")>>}
MCAndroidTrees == {<<Plain("android")>>}
MCQcow2 == {"debian.qcow2"}

\* Given to every terminal.
Bodies ==
    { <<Kernel>>, <<Kernel, Opt("INITRD", "my.cpio")>>, <<Kernel, Opt("ROOTFS", "debian.qcow2")>>,
      <<Opt("KERNEL", "android"), Opt("ROOTFS", "root.ext4"), Kernel>>,
      <<Kernel, TwoWords, Opt("CMDLINE", "c")>>, <<Kernel, Arg("CMDLINE", Empty)>>,
      <<Opt("KERNEL", "tmux-k")>>, <<Kernel, Opt("INITRD", "tmux.cpio")>>,
      <<Kernel, Opt("bad", "x"), Opt("SHARE_FOLDER", "s")>>, <<Opt("KERNEL", "missing")>>,
      <<Opt("QEMU_EXTRA_PARAM", "e"), Opt("DEBUGGER", "ddd"), Opt("QEMU_DIR", "q")>> }

\* With blanks in a path: through a window, and through tmux.
Blanks ==
    { <<Arg("KERNEL", <<Plain("my"), Plain("k")>>)>>, <<Kernel, Words("INITRD")>>,
      <<Kernel, Words("ROOTFS")>>, <<Kernel, Words("SHARE_FOLDER"), Words("QEMU_EXTRA_PARAM")>>,
      <<Kernel, Words("QEMU_DIR")>>, <<Kernel, Arg("INITRD", Empty), Opt("QEMU_DIR", "q")>> }

MCRequests ==
    Blanks \cup {b \o <<Term("gnome")>> : b \in Blanks} \cup
    Bodies \cup {b \o <<Term(t)>> : b \in Bodies, t \in {"gnome", "cli-qemu", "cli-gdb", "nonsense"}}
           \cup {<<Term("tmux")>> \o b : b \in Bodies} \cup {<<Term("gnome"), Kernel, Term("tmux")>>}

DtbRequests == {<<Kernel, Opt("DTB", "lightbox.dtb"), Term("xfce4")>>}
RootfsThenInitrd ==
    {<<Kernel, Opt("ROOTFS", "debian.qcow2"), Term("gnome")>>,
     <<Kernel, Opt("INITRD", "debian.cpio.gz"), Term("gnome")>>}

=============================================================================
