---------------------------- MODULE MCDeployment ----------------------------
EXTENDS Deployment

\* All that the installation needs, and a build without the library.
MCBuilds == {{"installer", "freedll", "native"}, {"installer", "freent"}}

\* xorriso with no, one or two boot images; genisoimage alone; no boot.wim.
Host(xorriso, torito, wim) ==
    [xorriso |-> xorriso, genisoimage |-> ~xorriso, torito |-> torito, wim |-> wim]
MCHosts == {Host(TRUE, 0, TRUE), Host(TRUE, 1, TRUE), Host(TRUE, 2, TRUE),
            Host(FALSE, 1, TRUE), Host(TRUE, 1, FALSE)}

\* There is no C:; or it is empty, or has Windows, with or without S:, or
\* what earlier installations left: a whole one, one that was cut off, one
\* beside the Windows it could not rename.
NoDisk == [volumes |-> {}, Windows |-> {}, WNT |-> {}, hive |-> {}, entry |-> "none"]
Disk0 == [NoDisk EXCEPT !.volumes = {"C"}]
Old == {"dir", "old", "ms", "boot"}
MCOldDisks ==
    {NoDisk, Disk0, [Disk0 EXCEPT !.Windows = Old],
     [Disk0 EXCEPT !.Windows = Old, !.volumes = {"C", "S"}, !.entry = "efi"],
     [Disk0 EXCEPT !.WNT = {"dir", "image", "freedll"}, !.entry = "mbr"],
     [Disk0 EXCEPT !.WNT = {"dir", "image", "boot"}, !.volumes = {"C", "S"}],
     [Disk0 EXCEPT !.Windows = {"dir", "image", "ms"}, !.WNT = {"dir", "winpe", "ms", "native"}]}
=============================================================================
