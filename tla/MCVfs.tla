-------------------------------- MODULE MCVfs -------------------------------
EXTENDS Vfs

\* two directories of files in one directory
MCRootDirs == {<<>>, <<"d">>, <<"d", "e">>, <<"d", "h">>}
MCRootFiles == {<<"d", "e", "f">>, <<"d", "h", "i">>}

\* what programs open: files, directories, a device, what does not exist, ways up
MCPaths == {<<>>, <<"d">>, <<"d", "e", "f">>, <<"d", "h", "i">>, <<"d", "c">>,
            <<"d", "x">>, <<"d", "..">>, <<"d", "e", "..", "x">>, <<"long">>}

\* where they mount: the root, a directory, a file
MCTargets == {<<>>, <<"d">>, <<"d", "h", "i">>}
=============================================================================
