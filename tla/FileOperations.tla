--------------------------- MODULE FileOperations ---------------------------
(***************************************************************************)
(* The programs of rank p in the measurements of measurements/io.c that    *)
(* time one operation on a file.  a.flag is create_file, create_flag or    *)
(* with_sync; a.calls how often the measure function is called.            *)
(***************************************************************************)
EXTENDS FileCalls

Temporary == {"RDWR", "CREATE", "DELETE_ON_CLOSE"}

init_open(a, p) ==
  get_io_filename(a, p) \o When(~a.flag, F_open(World(a), 0, {"RDWR", "CREATE"}) \o F_close)
measure_open(a) ==
  N_BARRIER(a) \o F_open(World(a), 0, IF a.flag THEN Temporary ELSE {"RDWR"}) \o F_close
open(a, p) == init_open(a, p) \o measure_open(a) \o When(~a.flag, FILE_DELETE(a, 0))

close(a, p) ==
  get_io_filename(a, p)
  \o When(p = 0, F_open(Self(p), 0, {"WRONLY", "CREATE"}) \o F_write(a, a.memsize) \o F_close)
  \o MPI_Barrier(a)
  \o F_open(World(a), 0, {"RDWR"}) \o F_close
  \o FILE_DELETE(a, 0)

init_open_close(a, p) ==
  get_io_filename(a, p)
  \o When(~a.flag, F_open(World(a), 0, {"WRONLY", "CREATE"}) \o F_write(a, 1) \o F_close)
  \o MPI_Barrier(a)
measure_open_close(a) ==
  OpenView(World(a), 0, IF a.flag THEN {"RDWR", "CREATE"} ELSE {"RDWR"})
  \o F_write(a, 1) \o F_close \o When(a.flag, FILE_DELETE(a, 0))
open_close(a, p) ==
  init_open_close(a, p) \o measure_open_close(a) \o When(~a.flag, FILE_DELETE(a, 0))

delete(a, p) ==
  get_io_filename(a, p)
  \o When(p = 0, F_open(Self(p), 0, {"WRONLY", "CREATE"}) \o F_write(a, a.memsize) \o F_close
                 \o F_delete(0))

delete_on_close(a, p) ==
  get_io_filename(a, p)
  \o F_open(World(a), 0, {"WRONLY", "CREATE", "DELETE_ON_CLOSE"})
  \o When(p = 0, F_write(a, a.memsize)) \o F_sync \o F_close

\* Each call seeks one block further in the part of the file that is r_seek
\* ranks on; n_seek and r_seek are kept between the calls.
file_seek(a, p) ==
  LET n == a.memsize \div a.blocklen + 1
  IN get_io_filename(a, p) \o F_open(World(a), 0, Temporary) \o F_set_view
     \o preallocate_file_space(a) \o MPI_Barrier(a)
     \o Times(a.calls, LAMBDA k :
          F_seek(get_offset(a, ((p + (k \div n)) % a.np) * a.memsize + (k % n) * a.blocklen)))
     \o F_close

file_seek_shared(a, p) ==
  get_io_filename(a, p) \o F_open(World(a), 0, Temporary) \o F_set_view
  \o preallocate_file_space(a) \o MPI_Barrier(a)
  \o Times(a.calls, LAMBDA k :
       F_seek_shared(get_offset(a, (k % (a.memsize \div a.blocklen)) * a.blocklen)))
  \o F_close

preallocate(a, p) ==
  get_io_filename(a, p)
  \o F_open(World(a), 0, Temporary)
  \o Meet(OfFile, "MPI_File_preallocate") \o When(a.flag, F_sync) \o F_close
=============================================================================
